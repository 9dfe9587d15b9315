------------------------- MODULE ContractSyncProofs -------------------------
(***************************************************************************)
(* SyncSound for a chain of any height with any number of logs, any chunk  *)
(* size and sequence range, and any number of crashes, errors, stale       *)
(* answers and logs left out.                                              *)
(***************************************************************************)
EXTENDS ContractSync, FiniteSetTheorems, TLAPS

-----------------------------------------------------------------------------
(* The inductive invariant                                                 *)

(* Logs are numbered in the order of the chain. *)
ChainOrdered ==
    /\ \A s \in OnChain : BlockOf(s) \in 1 .. tip
    /\ \A s, r \in OnChain : s <= r => BlockOf(s) <= BlockOf(r)

(* The cursors start between two logs of the chain. *)
StartMark ==
    /\ start.next_block <= tip /\ start.next_sequence <= Len(blocks)
    /\ \A s \in OnChain : s < start.next_sequence <=> BlockOf(s) <= start.next_block

(* How far the cursors may be. *)
CursorBounds ==
    pc # "down" =>
        /\ forward.next_sequence <= Len(blocks) /\ forward.next_block <= tip + 1
        /\ start.next_sequence = 0 => synced
        /\ start.next_sequence > 0 =>
            /\ backward.next_sequence < start.next_sequence
            /\ mode = "sequence" => backward.next_block > 0

(* What store_logs has and what it has written of the log it is at. *)
StoreProgress ==
    /\ \A t \in Tables : table[t] \subseteq OnChain
    /\ logs \subseteq OnChain
    /\ writing # NotWriting =>
        /\ pc = "store" /\ writing.log \in todo
        /\ \A i \in 1 .. writing.at - 1 : writing.log \in table[WriteOrder[i]]

(* The writes of store_message are in an order that a crash cannot hurt. *)
MessageOrder == Kind = "message" => table["record"] \subseteq table["byId"]

(* Only by sequence does a cursor pass over what is still in hand. *)
Covered(s) == Stored(s) \/ (mode = "sequence" /\ InHand(s))

ForwardCovered ==
    pc # "down" => \A s \in start.next_sequence .. forward.next_sequence - 1 : Covered(s)

BackwardCovered ==
    pc # "down" => \A s \in backward.next_sequence + 1 .. start.next_sequence - 1 : Covered(s)

CursorsInv ==
    /\ TypeOK /\ ChainOrdered /\ StartMark /\ CursorBounds /\ StoreProgress
    /\ ForwardCovered /\ BackwardCovered /\ NothingBehind /\ SyncedToZero

IInv == CursorsInv /\ MessageOrder

-----------------------------------------------------------------------------
(* The chain and the count of its logs                                     *)

(* Sequences count from 0. *)
LEMMA IndicesFromZero ==
    ASSUME NEW D, NEW q \in Seq(D)
    PROVE  {n - 1 : n \in DOMAIN q} = 0 .. Len(q) - 1
  <1>. DEFINE S == {n - 1 : n \in DOMAIN q}
  <1>1. Len(q) \in Nat /\ DOMAIN q = 1 .. Len(q)
    OBVIOUS
  <1>2. ASSUME NEW s \in S PROVE s \in 0 .. Len(q) - 1
    BY <1>1
  <1>3. ASSUME NEW s \in 0 .. Len(q) - 1 PROVE s \in S
    <2>1. s + 1 \in DOMAIN q /\ s = (s + 1) - 1
      BY <1>1
    <2>. QED
      BY <2>1
  <1>. QED
    BY <1>2, <1>3

LEMMA OnChainIs ==
    ASSUME TypeOK
    PROVE  /\ Len(blocks) \in Nat /\ OnChain = 0 .. Len(blocks) - 1
           /\ OnChain \subseteq Sequence
  <1>1. blocks \in Seq(1 .. MaxTip) /\ Len(blocks) \in Nat /\ Len(blocks) <= MaxLogs
    BY DEF TypeOK
  <1>2. OnChain = 0 .. Len(blocks) - 1
    BY <1>1, IndicesFromZero DEF OnChain
  <1>. QED
    BY <1>1, <1>2, ContractSyncAssumption DEF Sequence

(* The count at a block separates the logs up to it from the later ones:   *)
(* as many logs as the count are there, and they are the first ones.       *)
LEMMA CountSeparates ==
    ASSUME TypeOK, ChainOrdered, NEW t \in Int
    PROVE  /\ CountAt(t) \in Nat /\ CountAt(t) <= Len(blocks)
           /\ \A s \in OnChain : s < CountAt(t) <=> BlockOf(s) <= t
  <1>. DEFINE S == {s \in OnChain : BlockOf(s) <= t}
              c == Cardinality(S)
              L == Len(blocks)
  <1>1. L \in Nat /\ OnChain = 0 .. L - 1
    BY OnChainIs
  <1>2. \A s \in OnChain : BlockOf(s) \in Int
    BY DEF ChainOrdered
  <1>3. IsFiniteSet(0 .. L - 1) /\ Cardinality(0 .. L - 1) = L
    <2>1. 0 \in Int /\ L - 1 \in Int
      BY <1>1
    <2>2. /\ IsFiniteSet(0 .. L - 1)
          /\ Cardinality(0 .. L - 1) = IF 0 > L - 1 THEN 0 ELSE (L - 1) - 0 + 1
      BY <2>1, FS_Interval
    <2>. QED
      BY <1>1, <2>2
  <1>4. S \in SUBSET (0 .. L - 1)
    BY <1>1
  <1>5. IsFiniteSet(S) /\ c <= L
    BY <1>3, <1>4, FS_Subset
  <1>6. c \in Nat
    BY <1>5, FS_CardinalityType
  <1>7. ASSUME NEW s \in OnChain, BlockOf(s) <= t PROVE s < c
    <2>1. (0 .. s) \in SUBSET S
      <3>1. ASSUME NEW r \in 0 .. s PROVE r \in S
        <4>1. r \in OnChain /\ r <= s
          BY <1>1
        <4>2. BlockOf(r) <= BlockOf(s)
          BY <4>1 DEF ChainOrdered
        <4>. QED
          BY <1>2, <1>7, <4>1, <4>2
      <3>. QED
        BY <3>1
    <2>2. s \in Nat /\ 0 \in Int
      BY <1>1
    <2>3. Cardinality(0 .. s) = IF 0 > s THEN 0 ELSE s - 0 + 1
      BY <2>2, FS_Interval
    <2>4. Cardinality(0 .. s) <= c
      BY <1>5, <2>1, FS_Subset
    <2>. HIDE DEF c
    <2>. QED
      BY <1>6, <2>2, <2>3, <2>4
  <1>8. ASSUME NEW s \in OnChain, ~(BlockOf(s) <= t) PROVE c <= s
    <2>1. S \in SUBSET (0 .. s - 1)
      <3>1. ASSUME NEW r \in S PROVE r \in 0 .. s - 1
        <4>1. r \in OnChain /\ BlockOf(r) <= t
          OBVIOUS
        <4>2. ~(s <= r)
          BY <1>2, <1>8, <4>1 DEF ChainOrdered
        <4>. QED
          BY <1>1, <4>1, <4>2
      <3>. QED
        BY <3>1
    <2>2. s \in Nat /\ 0 \in Int /\ s - 1 \in Int
      BY <1>1
    <2>3. /\ IsFiniteSet(0 .. s - 1)
          /\ Cardinality(0 .. s - 1) = IF 0 > s - 1 THEN 0 ELSE (s - 1) - 0 + 1
      BY <2>2, FS_Interval
    <2>4. c <= Cardinality(0 .. s - 1)
      BY <2>1, <2>3, FS_Subset
    <2>. HIDE DEF c
    <2>. QED
      BY <1>6, <2>2, <2>3, <2>4
  <1>9. CountAt(t) = c
    BY DEF CountAt
  <1>. HIDE DEF c
  <1>10. \A s \in OnChain : s < c <=> BlockOf(s) <= t
    <2>1. \A s \in OnChain : s \in Nat
      BY <1>1
    <2>. QED
      BY <1>6, <1>7, <1>8, <2>1
  <1>. QED
    BY <1>5, <1>6, <1>9, <1>10

LEMMA MinOfTwo ==
    ASSUME NEW a \in Int, NEW b \in Int
    PROVE  Min({a, b}) = IF a <= b THEN a ELSE b
  <1>1. CASE a <= b
    BY <1>1 DEF Min
  <1>2. CASE ~(a <= b)
    BY <1>2 DEF Min
  <1>. QED
    BY <1>1, <1>2

(* A cursor that is moved. *)
LEMMA CursorMoved ==
    ASSUME NEW state \in SyncState, NEW x \in Nat
    PROVE  /\ [state EXCEPT !.next_block = x] \in SyncState
           /\ [state EXCEPT !.next_block = x].next_block = x
           /\ [state EXCEPT !.next_block = x].next_sequence = state.next_sequence
           /\ [state EXCEPT !.next_sequence = x] \in SyncState
           /\ [state EXCEPT !.next_sequence = x].next_sequence = x
           /\ [state EXCEPT !.next_sequence = x].next_block = state.next_block
  BY DEF SyncState

(* The tip a provider reports is a block of the chain. *)
LEMMA ReportedIs ==
    ASSUME TypeOK, NEW t \in 0 .. MaxTip, Reported(t)
    PROVE  t \in Nat /\ t <= tip /\ faults' \in 0 .. MaxFaults
  BY ContractSyncAssumption DEF TypeOK, Reported, Fault

LEMMA InitInv == Init => IInv
  <1>. SUFFICES ASSUME Init PROVE IInv
    OBVIOUS
  <1>. USE DEF Init
  <1>1. TypeOK
    <2>1. /\ 0 \in 0 .. MaxTip /\ 0 \in 0 .. MaxFaults /\ 0 \in 0 .. MaxDrops
          /\ 0 <= MaxLogs
      BY ContractSyncAssumption
    <2>2. blocks \in Seq(1 .. MaxTip) /\ Len(blocks) = 0
      OBVIOUS
    <2>3. start \in SyncState
      BY DEF SyncState
    <2>4. table \in [Tables -> SUBSET Sequence]
      OBVIOUS
    <2>5. range \in Nat \X Int
      OBVIOUS
    <2>. QED
      BY <2>1, <2>2, <2>3, <2>4, <2>5, ContractSyncAssumption DEF TypeOK
  <1>2. OnChain = {} /\ Len(blocks) = 0
    BY DEF OnChain
  <1>3. ChainOrdered /\ StartMark
    BY <1>2 DEF ChainOrdered, StartMark
  <1>4. StoreProgress /\ MessageOrder
    BY DEF StoreProgress, MessageOrder, Tables, NotWriting
  <1>. QED
    BY <1>1, <1>3, <1>4
       DEF IInv, CursorsInv, CursorBounds, ForwardCovered, BackwardCovered,
           NothingBehind, SyncedToZero

-----------------------------------------------------------------------------
(* What a step leaves alone keeps its part of the invariant                *)

LEMMA ChainKept ==
    ASSUME ChainOrdered, StartMark, UNCHANGED <<tip, blocks, start>>
    PROVE  ChainOrdered' /\ StartMark' /\ OnChain' = OnChain
  BY DEF ChainOrdered, StartMark, OnChain, BlockOf

LEMMA StoreKept ==
    ASSUME StoreProgress, UNCHANGED <<blocks, table, logs, todo, writing>>, pc # "store"
    PROVE  StoreProgress'
  BY DEF StoreProgress, OnChain, Stored

(* While the cursors are asked, nothing is in hand. *)
LEMMA NoneInHand ==
    ASSUME pc \in {"forward", "backward"}, NEW s
    PROVE  ~InHand(s)
  BY DEF InHand

LEMMA NoneInHandNext ==
    ASSUME pc' \in {"forward", "backward"}, NEW s
    PROVE  ~InHand(s)'
  BY DEF InHand

(* Then what the cursors have passed is stored. *)
LEMMA PassedIsStored ==
    ASSUME CursorsInv, pc \in {"forward", "backward"} \/ (pc = "store" /\ todo = {})
    PROVE  /\ \A s \in start.next_sequence .. forward.next_sequence - 1 : Stored(s)
           /\ \A s \in backward.next_sequence + 1 .. start.next_sequence - 1 : Stored(s)
  BY DEF CursorsInv, ForwardCovered, BackwardCovered, Covered, InHand

(* Types of the cursors, and what the invariant says of a log. *)
LEMMA CursorTypes ==
    ASSUME CursorsInv
    PROVE  /\ start.next_block \in Nat /\ start.next_sequence \in Nat
           /\ forward.next_block \in Nat /\ forward.next_sequence \in Nat
           /\ backward.next_block \in Nat /\ backward.next_sequence \in Nat
           /\ tip \in Nat /\ Len(blocks) \in Nat /\ OnChain = 0 .. Len(blocks) - 1
           /\ \A s \in OnChain : BlockOf(s) \in Nat /\ BlockOf(s) > 0 /\ BlockOf(s) <= tip
           /\ \A u : table[u] \subseteq OnChain \/ u \notin Tables
  <1>1. TypeOK /\ ChainOrdered /\ StoreProgress
    BY DEF CursorsInv
  <1>2. Len(blocks) \in Nat /\ OnChain = 0 .. Len(blocks) - 1 /\ tip \in Nat
    BY <1>1, OnChainIs, ContractSyncAssumption DEF TypeOK
  <1>3. \A s \in OnChain : BlockOf(s) \in Nat /\ BlockOf(s) > 0 /\ BlockOf(s) <= tip
    BY <1>1, <1>2 DEF ChainOrdered
  <1>4. start \in SyncState /\ forward \in SyncState /\ backward \in SyncState
    BY <1>1 DEF TypeOK
  <1>. QED
    BY <1>1, <1>2, <1>3, <1>4 DEF SyncState, StoreProgress

LEMMA StoredOnChain ==
    ASSUME CursorsInv, NEW s, Stored(s) \/ Numbered(s)
    PROVE  s \in OnChain /\ s \in Nat /\ s < Len(blocks)
  BY CursorTypes DEF Stored, Numbered, Tables

-----------------------------------------------------------------------------
(* Every step keeps the invariant                                          *)

(* A new block is behind no cursor. *)
LEMMA MineStep ==
    ASSUME CursorsInv, NEW n \in 0 .. MaxLogs, Mine(n)
    PROVE  CursorsInv'
  <1>. USE DEF Mine, cursors, query
  <1>. DEFINE L == Len(blocks)
  <1>1. n \in Nat /\ tip \in Nat /\ L \in Nat /\ OnChain = 0 .. L - 1
    BY CursorTypes, ContractSyncAssumption
  <1>2. /\ blocks' \in Seq(1 .. MaxTip) /\ Len(blocks') = L + n
        /\ \A i \in 1 .. L : blocks'[i] = blocks[i]
        /\ \A i \in L + 1 .. L + n : blocks'[i] = tip + 1
    <2>1. blocks \in Seq(1 .. MaxTip) /\ tip + 1 \in 1 .. MaxTip
      BY <1>1, ContractSyncAssumption DEF CursorsInv, TypeOK
    <2>. DEFINE new == [i \in 1 .. n |-> tip + 1]
    <2>2. new \in Seq(1 .. MaxTip) /\ Len(new) = n /\ \A i \in 1 .. n : new[i] = tip + 1
      BY <1>1, <2>1
    <2>3. blocks' = blocks \o new
      OBVIOUS
    <2>. HIDE DEF new
    <2>. QED
      BY <1>1, <2>1, <2>2, <2>3
  <1>3. OnChain' = 0 .. (L + n) - 1
    BY <1>2, IndicesFromZero DEF OnChain
  <1>4. /\ OnChain \subseteq OnChain'
        /\ \A s \in OnChain : BlockOf(s)' = BlockOf(s)
        /\ \A s \in OnChain' \ OnChain : BlockOf(s)' = tip + 1 /\ s >= L
    <2>1. \A s \in OnChain : s + 1 \in 1 .. L
      BY <1>1
    <2>2. \A s \in OnChain' \ OnChain : s + 1 \in L + 1 .. L + n /\ s >= L
      BY <1>1, <1>3
    <2>. QED
      BY <1>1, <1>2, <1>3, <2>1, <2>2 DEF BlockOf
  <1>5. TypeOK'
    BY <1>1, <1>2, ContractSyncAssumption DEF CursorsInv, TypeOK
  <1>6. /\ \A s \in OnChain : BlockOf(s) \in Nat /\ BlockOf(s) > 0 /\ BlockOf(s) <= tip
        /\ start.next_sequence \in Nat /\ start.next_block \in Nat
        /\ forward.next_sequence \in Nat /\ forward.next_block \in Nat
    BY CursorTypes
  <1>7. ChainOrdered'
    <2>1. ASSUME NEW s \in OnChain' PROVE BlockOf(s)' \in 1 .. tip'
      <3>1. CASE s \in OnChain
        BY <1>1, <1>4, <1>6, <3>1
      <3>2. CASE s \notin OnChain
        BY <1>1, <1>4, <3>2
      <3>. QED
        BY <3>1, <3>2
    <2>2. ASSUME NEW s \in OnChain', NEW r \in OnChain', s <= r
          PROVE  BlockOf(s)' <= BlockOf(r)'
      <3>1. CASE r \in OnChain
        <4>1. s \in OnChain
          BY <1>1, <1>3, <2>2, <3>1
        <4>. QED
          BY <1>4, <2>2, <3>1, <4>1 DEF CursorsInv, ChainOrdered
      <3>2. CASE r \notin OnChain
        <4>1. BlockOf(r)' = tip'
          BY <1>4, <3>2
        <4>. QED
          BY <1>1, <2>1, <4>1
      <3>. QED
        BY <3>1, <3>2
    <2>. QED
      BY <2>1, <2>2 DEF ChainOrdered
  <1>8. StartMark'
    <2>1. /\ start.next_block <= tip /\ start.next_sequence <= L
          /\ \A s \in OnChain : s < start.next_sequence <=> BlockOf(s) <= start.next_block
      BY DEF CursorsInv, StartMark
    <2>2. ASSUME NEW s \in OnChain'
          PROVE  s < start.next_sequence <=> BlockOf(s)' <= start.next_block
      <3>1. CASE s \in OnChain
        BY <1>4, <2>1, <3>1
      <3>2. CASE s \notin OnChain
        <4>1. BlockOf(s)' = tip + 1 /\ s \in Nat /\ s >= L
          BY <1>1, <1>3, <1>4, <3>2
        <4>. QED
          BY <1>1, <1>6, <2>1, <4>1
      <3>. QED
        BY <3>1, <3>2
    <2>3. start.next_block <= tip' /\ start.next_sequence <= Len(blocks')
      BY <1>1, <1>2, <1>6, <2>1
    <2>. QED
      BY <2>2, <2>3 DEF StartMark
  <1>9. CursorBounds'
    BY <1>1, <1>2, <1>6 DEF CursorsInv, CursorBounds
  <1>10. StoreProgress'
    BY <1>4 DEF CursorsInv, StoreProgress, Stored
  <1>11. ForwardCovered' /\ BackwardCovered'
    BY DEF CursorsInv, ForwardCovered, BackwardCovered, Covered, Stored, InHand, InRange
  <1>12. NothingBehind'
    <2>. SUFFICES ASSUME pc # "down", mode = "block", drops = 0, NEW s \in OnChain'
                  PROVE  \/ Stored(s)' \/ InHand(s)'
                         \/ IF s >= start.next_sequence
                            THEN BlockOf(s)' >= forward.next_block
                            ELSE BlockOf(s)' <= backward.next_block /\ ~synced
      BY DEF NothingBehind
    <2>1. CASE s \in OnChain
      <3>1. (Stored(s)' <=> Stored(s)) /\ (InHand(s)' <=> InHand(s))
        BY <1>4, <2>1 DEF Stored, InHand, InRange
      <3>. QED
        BY <1>4, <2>1, <3>1 DEF CursorsInv, NothingBehind
    <2>2. CASE s \notin OnChain
      <3>1. BlockOf(s)' = tip + 1 /\ s \in Nat /\ s >= L
        BY <1>1, <1>3, <1>4, <2>2
      <3>2. start.next_sequence <= L /\ forward.next_block <= tip + 1
        BY DEF CursorsInv, StartMark, CursorBounds
      <3>. QED
        BY <1>1, <1>6, <3>1, <3>2
    <2>. QED
      BY <2>1, <2>2
  <1>13. SyncedToZero'
    BY DEF CursorsInv, SyncedToZero, Stored
  <1>. QED
    BY <1>5, <1>7, <1>8, <1>9, <1>10, <1>11, <1>12, <1>13 DEF CursorsInv

(* ForwardBackwardSequenceSyncCursor::new: everything is ahead. *)
LEMMA StartStep ==
    ASSUME CursorsInv, NEW t \in 0 .. MaxTip, Start(t)
    PROVE  CursorsInv'
  <1>. USE DEF Start, chain
  <1>1. TypeOK /\ ChainOrdered
    BY DEF CursorsInv
  <1>2. t \in Nat /\ t <= tip /\ faults' \in 0 .. MaxFaults
    BY <1>1, ReportedIs
  <1>3. /\ CountAt(t) \in Nat /\ CountAt(t) <= Len(blocks)
        /\ \A s \in OnChain : s < CountAt(t) <=> BlockOf(s) <= t
    BY <1>1, <1>2, CountSeparates
  <1>. DEFINE c == CountAt(t)
  <1>4. SaturatingSub(c, 1) \in Nat /\ (c > 0 => SaturatingSub(c, 1) = c - 1)
    BY <1>3 DEF SaturatingSub
  <1>. HIDE DEF c
  <1>5. /\ start' = [next_block |-> t, next_sequence |-> c]
        /\ forward' = [next_block |-> t, next_sequence |-> c]
        /\ backward' = [next_block |-> t, next_sequence |-> SaturatingSub(c, 1)]
        /\ synced' <=> c = 0
    BY DEF c
  <1>6. c \in Nat /\ c <= Len(blocks) /\ \A s \in OnChain : s < c <=> BlockOf(s) <= t
    BY <1>3 DEF c
  <1>7. TypeOK'
    <2>1. start' \in SyncState /\ forward' \in SyncState /\ backward' \in SyncState
      BY <1>2, <1>4, <1>5, <1>6 DEF SyncState
    <2>2. synced' \in BOOLEAN
      OBVIOUS
    <2>. QED
      BY <1>1, <1>2, <2>1, <2>2 DEF TypeOK
  <1>8. OnChain' = OnChain /\ \A s : BlockOf(s)' = BlockOf(s)
    BY DEF OnChain, BlockOf
  <1>9. ChainOrdered'
    BY <1>1, <1>8 DEF ChainOrdered
  <1>10. StartMark'
    BY <1>2, <1>5, <1>6, <1>8 DEF StartMark
  <1>11. \A s \in OnChain : s \in Nat /\ BlockOf(s) \in Nat /\ BlockOf(s) > 0
    BY CursorTypes
  <1>12. c > 0 => t > 0
    <2>. SUFFICES ASSUME c > 0 PROVE t > 0
      OBVIOUS
    <2>1. 0 \in OnChain
      BY <1>6, CursorTypes
    <2>. QED
      BY <1>2, <1>6, <1>11, <2>1
  <1>13. CursorBounds'
    <2>1. tip \in Nat /\ Len(blocks) \in Nat
      BY CursorTypes
    <2>. QED
      BY <1>2, <1>4, <1>5, <1>6, <1>12, <2>1 DEF CursorBounds
  <1>14. StoreProgress'
    BY StoreKept DEF CursorsInv
  <1>15. ForwardCovered' /\ BackwardCovered'
    BY <1>4, <1>5, <1>6 DEF ForwardCovered, BackwardCovered
  <1>16. NothingBehind'
    BY <1>2, <1>5, <1>6, <1>8, <1>11 DEF NothingBehind
  <1>17. SyncedToZero'
    BY <1>5, <1>6 DEF SyncedToZero
  <1>. QED
    BY <1>7, <1>9, <1>10, <1>13, <1>14, <1>15, <1>16, <1>17 DEF CursorsInv

(* A step of get_next_range changes a cursor and the range, and nothing of *)
(* the chain or the database.                                              *)
Asking ==
    /\ pc \in {"forward", "backward"} /\ pc' \in {"forward", "backward", "fetch"}
    /\ UNCHANGED <<chain, table, start, logs, todo, writing, drops>>
    /\ forward' \in SyncState /\ backward' \in SyncState /\ synced' \in BOOLEAN
    /\ direction' \in {"forward", "backward"} /\ range' \in Nat \X Int
    /\ faults' \in 0 .. MaxFaults

LEMMA AskingKeeps ==
    ASSUME CursorsInv, Asking
    PROVE  /\ TypeOK' /\ ChainOrdered' /\ StartMark' /\ StoreProgress'
           /\ OnChain' = OnChain
           /\ \A s : BlockOf(s)' = BlockOf(s) /\ (Stored(s)' <=> Stored(s))
  <1>1. TypeOK'
    BY DEF CursorsInv, TypeOK, Asking, chain
  <1>2. ChainOrdered' /\ StartMark' /\ OnChain' = OnChain
    BY ChainKept DEF CursorsInv, Asking, chain
  <1>3. StoreProgress'
    BY StoreKept DEF CursorsInv, Asking, chain
  <1>. QED
    BY <1>1, <1>2, <1>3 DEF Asking, chain, BlockOf, Stored

(* Where a log that is not in the database is, while nothing is in hand. *)
LEMMA AheadOf ==
    ASSUME CursorsInv, pc \in {"forward", "backward"} \/ (pc = "store" /\ todo = {}),
           mode = "block", drops = 0, NEW s \in OnChain, ~Stored(s)
    PROVE  /\ s \in Nat /\ BlockOf(s) \in Nat /\ BlockOf(s) > 0 /\ BlockOf(s) <= tip
           /\ s >= start.next_sequence =>
                /\ s >= forward.next_sequence /\ BlockOf(s) >= forward.next_block
                /\ BlockOf(s) > start.next_block
           /\ ~(s >= start.next_sequence) =>
                /\ s <= backward.next_sequence /\ BlockOf(s) <= backward.next_block
                /\ ~synced /\ BlockOf(s) <= start.next_block
  <1>1. ~InHand(s)
    BY DEF InHand
  <1>2. /\ s \in Nat /\ BlockOf(s) \in Nat /\ BlockOf(s) > 0 /\ BlockOf(s) <= tip
        /\ start.next_sequence \in Nat /\ start.next_block \in Nat
        /\ forward.next_sequence \in Nat /\ backward.next_sequence \in Nat
    BY CursorTypes
  <1>3. /\ s >= start.next_sequence => BlockOf(s) >= forward.next_block
        /\ ~(s >= start.next_sequence) => BlockOf(s) <= backward.next_block /\ ~synced
    BY <1>1 DEF CursorsInv, NothingBehind
  <1>4. s < start.next_sequence <=> BlockOf(s) <= start.next_block
    BY DEF CursorsInv, StartMark
  <1>5. s >= start.next_sequence => s >= forward.next_sequence
    BY <1>2, PassedIsStored
  <1>6. ~(s >= start.next_sequence) => s <= backward.next_sequence
    BY <1>2, PassedIsStored
  <1>. QED
    BY <1>2, <1>3, <1>4, <1>5, <1>6

(* The part of a forward step that is about the other side. *)
LEMMA ForwardAsks ==
    ASSUME CursorsInv, Asking, UNCHANGED <<backward, synced>>,
           forward'.next_sequence <= Len(blocks), forward'.next_block <= tip + 1,
           \A s \in start.next_sequence .. forward'.next_sequence - 1 : Covered(s)',
           \A s \in OnChain :
                (~Stored(s) /\ mode = "block" /\ drops = 0 /\ s >= start.next_sequence) =>
                    InHand(s)' \/ BlockOf(s) >= forward'.next_block
    PROVE  CursorsInv'
  <1>1. /\ TypeOK' /\ ChainOrdered' /\ StartMark' /\ StoreProgress'
        /\ OnChain' = OnChain
        /\ \A s : BlockOf(s)' = BlockOf(s) /\ (Stored(s)' <=> Stored(s))
    BY AskingKeeps
  <1>. USE DEF Asking, chain
  <1>2. CursorBounds'
    BY DEF CursorsInv, CursorBounds
  <1>3. ForwardCovered'
    BY DEF ForwardCovered
  <1>4. BackwardCovered'
    BY <1>1, PassedIsStored DEF BackwardCovered, Covered
  <1>5. NothingBehind'
    BY <1>1, AheadOf DEF NothingBehind
  <1>6. SyncedToZero'
    BY <1>1 DEF CursorsInv, SyncedToZero
  <1>. QED
    BY <1>1, <1>2, <1>3, <1>4, <1>5, <1>6 DEF CursorsInv

(* The loop passes over logs it has. *)
LEMMA ForwardSkipStep ==
    ASSUME CursorsInv, ForwardSkip
    PROVE  CursorsInv'
  <1>. USE DEF ForwardSkip, query
  <1>. DEFINE n == forward.next_sequence
  <1>1. n \in OnChain /\ n \in Nat /\ n < Len(blocks) /\ Stored(n)
    BY StoredOnChain
  <1>2. /\ BlockOf(n) \in Nat /\ BlockOf(n) <= tip /\ tip \in Nat /\ Len(blocks) \in Nat
        /\ forward.next_block \in Nat /\ start.next_sequence \in Nat
    BY <1>1, CursorTypes
  <1>3. /\ forward' \in SyncState /\ forward'.next_sequence = n + 1
        /\ forward'.next_block \in {BlockOf(n), forward.next_block}
    BY <1>1, <1>2 DEF SyncState
  <1>4. Asking
    BY <1>3 DEF Asking, CursorsInv, TypeOK
  <1>5. forward'.next_sequence <= Len(blocks) /\ forward'.next_block <= tip + 1
    BY <1>1, <1>2, <1>3 DEF CursorsInv, CursorBounds
  <1>6. \A s \in start.next_sequence .. forward'.next_sequence - 1 : Covered(s)'
    <2>1. \A s \in start.next_sequence .. n : Stored(s)
      BY <1>1, <1>2, PassedIsStored
    <2>. QED
      BY <1>1, <1>2, <1>3, <2>1 DEF Covered, Stored
  <1>7. ASSUME NEW s \in OnChain, ~Stored(s), mode = "block", drops = 0,
               s >= start.next_sequence
        PROVE  BlockOf(s) >= forward'.next_block
    <2>1. s \in Nat /\ s >= n /\ BlockOf(s) \in Nat /\ BlockOf(s) >= forward.next_block
      BY <1>7, AheadOf
    <2>2. BlockOf(n) <= BlockOf(s)
      BY <1>1, <2>1 DEF CursorsInv, ChainOrdered
    <2>. QED
      BY <1>2, <1>3, <2>1, <2>2
  <1>. QED
    BY <1>4, <1>5, <1>6, <1>7, ForwardAsks

(* Nothing is new up to the reported tip. *)
LEMMA ForwardIdleStep ==
    ASSUME CursorsInv, NEW t \in 0 .. MaxTip, ForwardIdle(t)
    PROVE  CursorsInv'
  <1>. USE DEF ForwardIdle, query
  <1>1. t \in Nat /\ t <= tip /\ faults' \in 0 .. MaxFaults
    BY ReportedIs DEF CursorsInv
  <1>2. /\ CountAt(t) \in Nat
        /\ \A s \in OnChain : s < CountAt(t) <=> BlockOf(s) <= t
    BY <1>1, CountSeparates DEF CursorsInv
  <1>3. /\ tip \in Nat /\ forward.next_block \in Nat /\ forward.next_sequence \in Nat
        /\ start.next_sequence \in Nat
    BY CursorTypes
  <1>4. /\ forward' \in SyncState /\ forward'.next_sequence = forward.next_sequence
        /\ \/ forward'.next_block = forward.next_block
           \/ forward'.next_block = t /\ CountAt(t) = forward.next_sequence
    BY <1>1, <1>3 DEF SyncState, CursorsInv, TypeOK
  <1>5. Asking
    BY <1>1, <1>4 DEF Asking, CursorsInv, TypeOK
  <1>6. forward'.next_sequence <= Len(blocks) /\ forward'.next_block <= tip + 1
    BY <1>1, <1>3, <1>4 DEF CursorsInv, CursorBounds
  <1>7. \A s \in start.next_sequence .. forward'.next_sequence - 1 : Covered(s)'
    BY <1>4, PassedIsStored DEF Covered, Stored
  <1>8. ASSUME NEW s \in OnChain, ~Stored(s), mode = "block", drops = 0,
               s >= start.next_sequence
        PROVE  BlockOf(s) >= forward'.next_block
    <2>1. /\ s \in Nat /\ s >= forward.next_sequence /\ BlockOf(s) \in Nat
          /\ BlockOf(s) >= forward.next_block
      BY <1>8, AheadOf
    <2>. QED
      BY <1>1, <1>2, <1>3, <1>4, <2>1
  <1>. QED
    BY <1>5, <1>6, <1>7, <1>8, ForwardAsks

(* A range by block: what the cursor moves over is in the range. *)
LEMMA ForwardBlockRangeStep ==
    ASSUME CursorsInv, NEW t \in 0 .. MaxTip, ForwardRange(t), ForwardBlockRange(t)
    PROVE  CursorsInv'
  <1>. USE DEF ForwardRange
  <1>. DEFINE from == forward.next_block
              to == Min({from + ChunkSize, t})
  <1>1. t \in Nat /\ t <= tip /\ faults' \in 0 .. MaxFaults
    BY ReportedIs DEF CursorsInv
  <1>2. /\ tip \in Nat /\ from \in Nat /\ forward.next_sequence \in Nat
        /\ start.next_sequence \in Nat
    BY CursorTypes
  <1>3. to \in Nat /\ to <= t
    BY <1>1, <1>2, MinOfTwo, ContractSyncAssumption
  <1>. HIDE DEF to
  <1>4. /\ mode = "block" /\ range' = <<from, to>>
        /\ forward' = [forward EXCEPT !.next_block = to + 1]
    BY DEF ForwardBlockRange, to
  <1>5. /\ forward' \in SyncState /\ forward'.next_sequence = forward.next_sequence
        /\ forward'.next_block = to + 1
    <2>1. forward \in SyncState /\ to + 1 \in Nat
      BY <1>3 DEF CursorsInv, TypeOK
    <2>. QED
      BY <1>4, <2>1, CursorMoved
  <1>6. Asking
    <2>1. range' \in Nat \X Int
      BY <1>2, <1>3, <1>4
    <2>. QED
      BY <1>1, <1>5, <2>1 DEF Asking, CursorsInv, TypeOK
  <1>7. forward'.next_sequence <= Len(blocks) /\ forward'.next_block <= tip + 1
    BY <1>1, <1>2, <1>3, <1>5 DEF CursorsInv, CursorBounds
  <1>8. \A s \in start.next_sequence .. forward'.next_sequence - 1 : Covered(s)'
    BY <1>5, PassedIsStored DEF Covered, Stored
  <1>9. ASSUME NEW s \in OnChain, ~Stored(s), drops = 0, s >= start.next_sequence
        PROVE  InHand(s)' \/ BlockOf(s) >= forward'.next_block
    <2>1. BlockOf(s) \in Nat /\ BlockOf(s) >= from
      BY <1>4, <1>9, AheadOf
    <2>2. CASE from <= to
      <3>1. pc' = "fetch" /\ range'[1] = from /\ range'[2] = to /\ mode' = "block"
        BY <1>4, <2>2 DEF chain
      <3>2. BlockOf(s)' = BlockOf(s)
        BY DEF BlockOf, chain
      <3>. QED
        BY <1>2, <1>3, <1>5, <2>1, <3>1, <3>2 DEF InHand, InRange
    <2>3. CASE ~(from <= to)
      BY <1>2, <1>3, <1>5, <2>1, <2>3
    <2>. QED
      BY <2>2, <2>3
  <1>. QED
    BY <1>4, <1>6, <1>7, <1>8, <1>9, ForwardAsks

(* A range by sequence, of logs that are on the chain. *)
LEMMA ForwardSequenceRangeStep ==
    ASSUME CursorsInv, NEW t \in 0 .. MaxTip, ForwardRange(t), ForwardSequenceRange(t)
    PROVE  CursorsInv'
  <1>. USE DEF ForwardRange
  <1>. DEFINE from == forward.next_sequence
              to == Min({from + MaxRange, CountAt(t) - 1})
  <1>1. t \in Nat /\ t <= tip /\ faults' \in 0 .. MaxFaults
    BY ReportedIs DEF CursorsInv
  <1>2. /\ tip \in Nat /\ from \in Nat /\ forward.next_block \in Nat
        /\ start.next_sequence \in Nat /\ Len(blocks) \in Nat
    BY CursorTypes
  <1>3. CountAt(t) \in Nat /\ CountAt(t) <= Len(blocks)
    BY <1>1, CountSeparates DEF CursorsInv
  <1>4. to \in Nat /\ from <= to /\ to < Len(blocks)
    BY <1>2, <1>3, MinOfTwo, ContractSyncAssumption
  <1>. HIDE DEF to
  <1>5. /\ mode = "sequence" /\ range' = <<from, to>>
        /\ forward' = [forward EXCEPT !.next_sequence = to + 1]
    BY DEF ForwardSequenceRange, to
  <1>6. /\ forward' \in SyncState /\ forward'.next_sequence = to + 1
        /\ forward'.next_block = forward.next_block
    <2>1. forward \in SyncState /\ to + 1 \in Nat
      BY <1>4 DEF CursorsInv, TypeOK
    <2>. QED
      BY <1>5, <2>1, CursorMoved
  <1>7. /\ pc' = "fetch" /\ mode' = "sequence"
        /\ range'[1] = from /\ range'[2] = to
    BY <1>4, <1>5 DEF chain
  <1>8. Asking
    <2>1. range' \in Nat \X Int
      BY <1>2, <1>4, <1>5
    <2>. QED
      BY <1>1, <1>6, <2>1 DEF Asking, CursorsInv, TypeOK
  <1>9. forward'.next_sequence <= Len(blocks) /\ forward'.next_block <= tip + 1
    BY <1>2, <1>4, <1>6 DEF CursorsInv, CursorBounds
  <1>10. ASSUME NEW s \in start.next_sequence .. forward'.next_sequence - 1
         PROVE  Covered(s)'
    <2>1. CASE s < from
      BY <1>2, <1>6, <2>1, PassedIsStored DEF Covered, Stored
    <2>2. CASE ~(s < from)
      BY <1>2, <1>4, <1>6, <1>7, <2>2 DEF Covered, InHand, InRange
    <2>. QED
      BY <2>1, <2>2
  <1>. QED
    BY <1>5, <1>8, <1>9, <1>10, ForwardAsks

(* The part of a backward step that is about the other side. *)
LEMMA BackwardAsks ==
    ASSUME CursorsInv, Asking, UNCHANGED <<forward, synced>>, ~synced,
           start.next_sequence > 0 =>
                /\ backward'.next_sequence < start.next_sequence
                /\ mode = "sequence" => backward'.next_block > 0,
           \A s \in backward'.next_sequence + 1 .. start.next_sequence - 1 : Covered(s)',
           \A s \in OnChain :
                (~Stored(s) /\ mode = "block" /\ drops = 0 /\ ~(s >= start.next_sequence)) =>
                    InHand(s)' \/ BlockOf(s) <= backward'.next_block
    PROVE  CursorsInv'
  <1>1. /\ TypeOK' /\ ChainOrdered' /\ StartMark' /\ StoreProgress'
        /\ OnChain' = OnChain
        /\ \A s : BlockOf(s)' = BlockOf(s) /\ (Stored(s)' <=> Stored(s))
    BY AskingKeeps
  <1>. USE DEF Asking, chain
  <1>2. CursorBounds'
    BY DEF CursorsInv, CursorBounds
  <1>3. ForwardCovered'
    BY <1>1, PassedIsStored DEF ForwardCovered, Covered
  <1>4. BackwardCovered'
    BY DEF BackwardCovered
  <1>5. NothingBehind'
    BY <1>1, AheadOf DEF NothingBehind
  <1>6. SyncedToZero'
    BY <1>1 DEF CursorsInv, SyncedToZero
  <1>. QED
    BY <1>1, <1>2, <1>3, <1>4, <1>5, <1>6 DEF CursorsInv

(* While it is not synced the backward cursor is at a log of the chain. *)
LEMMA NotSyncedYet ==
    ASSUME CursorsInv, pc # "down", ~synced
    PROVE  /\ start.next_sequence > 0 /\ backward.next_sequence < start.next_sequence
           /\ mode = "sequence" => backward.next_block > 0
           /\ start.next_sequence <= Len(blocks) /\ start.next_block > 0
           /\ backward.next_sequence \in OnChain
  <1>1. /\ start.next_sequence \in Nat /\ backward.next_sequence \in Nat
        /\ start.next_block \in Nat /\ Len(blocks) \in Nat
        /\ OnChain = 0 .. Len(blocks) - 1
        /\ \A s \in OnChain : BlockOf(s) \in Nat /\ BlockOf(s) > 0
    BY CursorTypes
  <1>2. /\ start.next_sequence > 0 /\ backward.next_sequence < start.next_sequence
        /\ mode = "sequence" => backward.next_block > 0
    BY <1>1 DEF CursorsInv, CursorBounds
  <1>3. /\ start.next_sequence <= Len(blocks)
        /\ \A s \in OnChain : s < start.next_sequence <=> BlockOf(s) <= start.next_block
    BY DEF CursorsInv, StartMark
  <1>4. backward.next_sequence \in OnChain
    BY <1>1, <1>2, <1>3
  <1>. QED
    BY <1>1, <1>2, <1>3, <1>4

(* Sequence zero is found or block zero reached: every older log is there. *)
LEMMA BackwardDoneStep ==
    ASSUME CursorsInv, BackwardDone
    PROVE  CursorsInv'
  <1>. USE DEF BackwardDone
  <1>1. Asking /\ UNCHANGED <<forward, backward>>
    BY DEF Asking, CursorsInv, TypeOK, query
  <1>2. /\ TypeOK' /\ ChainOrdered' /\ StartMark' /\ StoreProgress'
        /\ OnChain' = OnChain
        /\ \A s : BlockOf(s)' = BlockOf(s) /\ (Stored(s)' <=> Stored(s))
    BY <1>1, AskingKeeps
  <1>3. CursorBounds'
    BY DEF CursorsInv, CursorBounds, chain
  <1>4. ForwardCovered' /\ BackwardCovered'
    BY <1>1, <1>2, PassedIsStored DEF ForwardCovered, BackwardCovered, Covered
  <1>5. ASSUME drops = 0, NEW s \in 0 .. start.next_sequence - 1
        PROVE  Stored(s)
    <2>1. /\ start.next_sequence \in Nat /\ Len(blocks) \in Nat
          /\ OnChain = 0 .. Len(blocks) - 1 /\ backward.next_sequence \in Nat
      BY CursorTypes
    <2>2. start.next_sequence <= Len(blocks)
      BY DEF CursorsInv, StartMark
    <2>3. CASE backward.next_sequence = 0
      BY <2>1, <2>3, PassedIsStored
    <2>4. CASE backward.next_block = 0
      <3>1. mode = "block"
        <4>1. mode \in Modes /\ ~(mode = "sequence")
          BY <2>4, NotSyncedYet DEF CursorsInv, TypeOK
        <4>. QED
          BY <4>1, ContractSyncAssumption
      <3>2. s \in OnChain /\ ~(s >= start.next_sequence)
        BY <2>1, <2>2
      <3>. QED
        BY <1>5, <2>4, <3>1, <3>2, AheadOf
    <2>. QED
      BY <2>3, <2>4
  <1>6. SyncedToZero'
    BY <1>2, <1>5 DEF SyncedToZero
  <1>7. NothingBehind'
    <2>. SUFFICES ASSUME mode = "block", drops = 0, NEW s \in OnChain, ~Stored(s)
                  PROVE  s >= start.next_sequence /\ BlockOf(s) >= forward.next_block
      BY <1>1, <1>2 DEF NothingBehind, chain
    <2>1. s \in Nat /\ start.next_sequence \in Nat
      BY CursorTypes
    <2>2. s >= start.next_sequence
      BY <1>5, <2>1
    <2>. QED
      BY <2>2, AheadOf
  <1>. QED
    BY <1>2, <1>3, <1>4, <1>6, <1>7 DEF CursorsInv

(* The loop passes over logs it has. *)
LEMMA BackwardSkipStep ==
    ASSUME CursorsInv, BackwardSkip
    PROVE  CursorsInv'
  <1>. USE DEF BackwardSkip, query
  <1>. DEFINE n == backward.next_sequence
  <1>1. n \in OnChain /\ n \in Nat /\ Stored(n)
    BY StoredOnChain
  <1>2. /\ BlockOf(n) \in Nat /\ BlockOf(n) > 0
        /\ backward.next_block \in Nat /\ start.next_sequence \in Nat
    BY <1>1, CursorTypes
  <1>3. /\ backward' \in SyncState /\ backward'.next_sequence = n - 1
        /\ backward'.next_block \in {BlockOf(n), backward.next_block}
    BY <1>1, <1>2 DEF SyncState
  <1>4. Asking
    BY <1>3 DEF Asking, CursorsInv, TypeOK
  <1>5. /\ backward'.next_sequence < start.next_sequence
        /\ backward'.next_block > 0
    BY <1>1, <1>2, <1>3, NotSyncedYet
  <1>6. \A s \in backward'.next_sequence + 1 .. start.next_sequence - 1 : Covered(s)'
    <2>1. \A s \in n .. start.next_sequence - 1 : Stored(s)
      BY <1>1, <1>2, PassedIsStored
    <2>. QED
      BY <1>1, <1>2, <1>3, <2>1 DEF Covered, Stored
  <1>7. ASSUME NEW s \in OnChain, ~Stored(s), mode = "block", drops = 0,
               ~(s >= start.next_sequence)
        PROVE  BlockOf(s) <= backward'.next_block
    <2>1. s \in Nat /\ s <= n /\ BlockOf(s) \in Nat /\ BlockOf(s) <= backward.next_block
      BY <1>7, AheadOf
    <2>2. BlockOf(s) <= BlockOf(n)
      BY <1>1, <2>1 DEF CursorsInv, ChainOrdered
    <2>. QED
      BY <1>2, <1>3, <2>1, <2>2
  <1>. QED
    BY <1>4, <1>5, <1>6, <1>7, BackwardAsks

(* Nothing to ask, or an error: both cursors stay. *)
LEMMA BackwardRestStep ==
    ASSUME CursorsInv, BackwardIdle \/ BackwardError
    PROVE  CursorsInv'
  <1>1. UNCHANGED <<chain, table, cursors, query, drops>> /\ pc = "backward" /\ pc' = "forward"
    BY DEF BackwardIdle, BackwardError
  <1>2. faults' \in 0 .. MaxFaults
    BY ContractSyncAssumption DEF CursorsInv, TypeOK, BackwardIdle, BackwardError, Fault
  <1>. USE <1>1 DEF cursors, query
  <1>3. Asking
    BY <1>2 DEF Asking, CursorsInv, TypeOK
  <1>4. /\ TypeOK' /\ ChainOrdered' /\ StartMark' /\ StoreProgress'
        /\ OnChain' = OnChain
        /\ \A s : BlockOf(s)' = BlockOf(s) /\ (Stored(s)' <=> Stored(s))
    BY <1>3, AskingKeeps
  <1>5. CursorBounds'
    BY DEF CursorsInv, CursorBounds, chain
  <1>6. ForwardCovered' /\ BackwardCovered'
    BY <1>4, PassedIsStored DEF ForwardCovered, BackwardCovered, Covered
  <1>7. NothingBehind'
    BY <1>4, AheadOf DEF NothingBehind, chain
  <1>8. SyncedToZero'
    BY <1>4 DEF CursorsInv, SyncedToZero
  <1>. QED
    BY <1>4, <1>5, <1>6, <1>7, <1>8 DEF CursorsInv

LEMMA BackwardBlockRangeStep ==
    ASSUME CursorsInv, BackwardRange, BackwardBlockRange
    PROVE  CursorsInv'
  <1>. USE DEF BackwardRange
  <1>. DEFINE to == backward.next_block
              from == SaturatingSub(to, ChunkSize)
              below == SaturatingSub(from, 1)
  <1>1. to \in Nat /\ backward.next_sequence \in Nat /\ start.next_sequence \in Nat
    BY CursorTypes
  <1>2. from \in Nat /\ from <= to
    BY <1>1, ContractSyncAssumption DEF SaturatingSub
  <1>3. below \in Nat /\ (from = 0 \/ below = from - 1)
    <2>. HIDE DEF from
    <2>. QED
      BY <1>2 DEF SaturatingSub
  <1>4. /\ mode = "block" /\ range' = <<from, to>>
        /\ backward' = [backward EXCEPT !.next_block = below]
    BY DEF BackwardBlockRange
  <1>. HIDE DEF from, below
  <1>5. /\ backward' \in SyncState /\ backward'.next_sequence = backward.next_sequence
        /\ backward'.next_block = below
    <2>1. backward \in SyncState
      BY DEF CursorsInv, TypeOK
    <2>. QED
      BY <1>3, <1>4, <2>1, CursorMoved
  <1>6. Asking
    <2>1. range' \in Nat \X Int
      BY <1>1, <1>2, <1>4
    <2>. QED
      BY <1>5, <2>1 DEF Asking, CursorsInv, TypeOK
  <1>7. backward'.next_sequence < start.next_sequence
    BY <1>5, NotSyncedYet
  <1>8. \A s \in backward'.next_sequence + 1 .. start.next_sequence - 1 : Covered(s)'
    BY <1>5, PassedIsStored DEF Covered, Stored
  <1>9. ASSUME NEW s \in OnChain, ~Stored(s), drops = 0, ~(s >= start.next_sequence)
        PROVE  InHand(s)' \/ BlockOf(s) <= backward'.next_block
    <2>1. BlockOf(s) \in Nat /\ BlockOf(s) <= to
      BY <1>4, <1>9, AheadOf
    <2>2. pc' = "fetch" /\ range'[1] = from /\ range'[2] = to /\ mode' = "block"
      BY <1>4 DEF chain
    <2>3. BlockOf(s)' = BlockOf(s)
      BY DEF BlockOf, chain
    <2>4. CASE from <= BlockOf(s)
      BY <2>1, <2>2, <2>3, <2>4 DEF InHand, InRange
    <2>5. CASE ~(from <= BlockOf(s))
      BY <1>2, <1>3, <1>5, <2>1, <2>5
    <2>. QED
      BY <2>4, <2>5
  <1>. QED
    BY <1>4, <1>6, <1>7, <1>8, <1>9, BackwardAsks

LEMMA BackwardSequenceRangeStep ==
    ASSUME CursorsInv, BackwardRange, BackwardSequenceRange
    PROVE  CursorsInv'
  <1>. USE DEF BackwardRange
  <1>. DEFINE to == backward.next_sequence
              from == SaturatingSub(to, MaxRange)
              below == SaturatingSub(from, 1)
  <1>1. to \in Nat /\ backward.next_block \in Nat /\ start.next_sequence \in Nat
    BY CursorTypes
  <1>2. from \in Nat /\ from <= to
    BY <1>1, ContractSyncAssumption DEF SaturatingSub
  <1>3. below \in Nat /\ below <= from /\ from <= below + 1
    <2>. HIDE DEF from
    <2>. QED
      BY <1>2 DEF SaturatingSub
  <1>4. /\ mode = "sequence" /\ range' = <<from, to>>
        /\ backward' = [backward EXCEPT !.next_sequence = below]
    BY DEF BackwardSequenceRange
  <1>. HIDE DEF from, below
  <1>5. /\ backward' \in SyncState /\ backward'.next_sequence = below
        /\ backward'.next_block = backward.next_block
    <2>1. backward \in SyncState
      BY DEF CursorsInv, TypeOK
    <2>. QED
      BY <1>3, <1>4, <2>1, CursorMoved
  <1>6. Asking
    <2>1. range' \in Nat \X Int
      BY <1>1, <1>2, <1>4
    <2>. QED
      BY <1>5, <2>1 DEF Asking, CursorsInv, TypeOK
  <1>7. backward'.next_sequence < start.next_sequence /\ backward'.next_block > 0
    BY <1>1, <1>2, <1>3, <1>4, <1>5, NotSyncedYet
  <1>8. ASSUME NEW s \in backward'.next_sequence + 1 .. start.next_sequence - 1
        PROVE  Covered(s)'
    <2>1. pc' = "fetch" /\ range'[1] = from /\ range'[2] = to /\ mode' = "sequence"
      BY <1>4 DEF chain
    <2>2. CASE s > to
      BY <1>1, <1>5, <2>2, PassedIsStored DEF Covered, Stored
    <2>3. CASE ~(s > to)
      BY <1>1, <1>2, <1>3, <1>5, <2>1, <2>3 DEF Covered, InHand, InRange
    <2>. QED
      BY <2>2, <2>3
  <1>. QED
    BY <1>4, <1>6, <1>7, <1>8, BackwardAsks

-----------------------------------------------------------------------------
(* The rest of an iteration of sync()                                      *)

(* fetch_logs: what was in the range is now in todo. *)
LEMMA FetchStep ==
    ASSUME CursorsInv, NEW found \in SUBSET Sequence, Fetch(found)
    PROVE  CursorsInv'
  <1>. USE DEF Fetch, chain, cursors
  <1>. DEFINE missing == {s \in OnChain : InRange(s)} \ found
  <1>1. /\ OnChain = 0 .. Len(blocks) - 1 /\ Len(blocks) \in Nat
        /\ start.next_sequence \in Nat /\ forward.next_sequence \in Nat
        /\ backward.next_sequence \in Nat /\ drops \in Nat
    BY CursorTypes, ContractSyncAssumption DEF CursorsInv, TypeOK
  <1>2. IsFiniteSet(missing) /\ Cardinality(missing) \in Nat
    <2>1. 0 \in Int /\ Len(blocks) - 1 \in Int
      BY <1>1
    <2>2. IsFiniteSet(OnChain)
      BY <1>1, <2>1, FS_Interval
    <2>3. missing \in SUBSET OnChain
      OBVIOUS
    <2>. HIDE DEF missing
    <2>. QED
      BY <2>2, <2>3, FS_Subset, FS_CardinalityType
  <1>3. drops' = drops + Cardinality(missing) /\ drops' <= MaxDrops
    OBVIOUS
  <1>4. TypeOK'
    <2>1. drops' \in 0 .. MaxDrops
      <3>. HIDE DEF missing
      <3>. QED
        BY <1>1, <1>2, <1>3, ContractSyncAssumption
    <2>. QED
      BY <2>1 DEF CursorsInv, TypeOK
  <1>5. ChainOrdered' /\ StartMark' /\ OnChain' = OnChain
    BY ChainKept DEF CursorsInv
  <1>6. CursorBounds'
    BY DEF CursorsInv, CursorBounds
  <1>7. StoreProgress'
    <2>1. writing = NotWriting
      BY DEF CursorsInv, StoreProgress
    <2>. QED
      BY <1>5, <2>1 DEF CursorsInv, StoreProgress
  <1>8. mode = "sequence" => missing = {}
    OBVIOUS
  <1>9. drops' = 0 => drops = 0 /\ missing = {}
    <2>1. IsFiniteSet(missing) => (Cardinality(missing) = 0 <=> missing = {})
      BY FS_EmptySet
    <2>. HIDE DEF missing
    <2>. QED
      BY <1>1, <1>2, <1>3, <2>1
  <1>10. ASSUME missing = {}, NEW s \in OnChain, InHand(s) PROVE InHand(s)'
    BY <1>10 DEF InHand
  <1>11. \A s : (Stored(s)' <=> Stored(s)) /\ BlockOf(s)' = BlockOf(s)
    BY DEF Stored, BlockOf
  <1>. HIDE DEF missing
  <1>12. ForwardCovered'
    <2>. SUFFICES ASSUME NEW s \in start.next_sequence .. forward.next_sequence - 1
                  PROVE  Covered(s)'
      BY DEF ForwardCovered
    <2>1. s \in OnChain
      BY <1>1 DEF CursorsInv, CursorBounds
    <2>2. Covered(s)
      BY DEF CursorsInv, ForwardCovered
    <2>. QED
      BY <1>8, <1>10, <1>11, <2>1, <2>2 DEF Covered
  <1>13. BackwardCovered'
    <2>. SUFFICES ASSUME NEW s \in backward.next_sequence + 1 .. start.next_sequence - 1
                  PROVE  Covered(s)'
      BY DEF BackwardCovered
    <2>1. s \in OnChain
      BY <1>1 DEF CursorsInv, StartMark
    <2>2. Covered(s)
      BY DEF CursorsInv, BackwardCovered
    <2>. QED
      BY <1>8, <1>10, <1>11, <2>1, <2>2 DEF Covered
  <1>14. NothingBehind'
    <2>. SUFFICES ASSUME mode = "block", drops' = 0, NEW s \in OnChain
                  PROVE  \/ Stored(s) \/ InHand(s)'
                         \/ IF s >= start.next_sequence
                            THEN BlockOf(s) >= forward.next_block
                            ELSE BlockOf(s) <= backward.next_block /\ ~synced
      BY <1>5, <1>11 DEF NothingBehind
    <2>. QED
      BY <1>9, <1>10 DEF CursorsInv, NothingBehind
  <1>15. SyncedToZero'
    BY <1>9, <1>11 DEF CursorsInv, SyncedToZero
  <1>. QED
    BY <1>4, <1>5, <1>6, <1>7, <1>12, <1>13, <1>14, <1>15 DEF CursorsInv

(* store_logs: what leaves todo is in the database, which only grows. *)
LEMMA StoringStep ==
    ASSUME CursorsInv, pc = "store", UNCHANGED <<chain, pc, cursors, logs, drops>>,
           TypeOK', StoreProgress',
           table["record"] \subseteq table'["record"],
           \A s \in todo : s \in todo' \/ s \in table'["record"]
    PROVE  CursorsInv'
  <1>. USE DEF chain, cursors
  <1>1. ChainOrdered' /\ StartMark' /\ OnChain' = OnChain
    BY ChainKept DEF CursorsInv
  <1>2. CursorBounds'
    BY DEF CursorsInv, CursorBounds
  <1>3. \A s : (Stored(s) => Stored(s)') /\ (InHand(s) => InHand(s)' \/ Stored(s)')
    BY DEF Stored, InHand
  <1>4. \A s : BlockOf(s)' = BlockOf(s)
    BY DEF BlockOf
  <1>5. ForwardCovered' /\ BackwardCovered'
    BY <1>3 DEF CursorsInv, ForwardCovered, BackwardCovered, Covered
  <1>6. NothingBehind'
    BY <1>1, <1>3, <1>4 DEF CursorsInv, NothingBehind
  <1>7. SyncedToZero'
    BY <1>3 DEF CursorsInv, SyncedToZero
  <1>. QED
    BY <1>1, <1>2, <1>5, <1>6, <1>7 DEF CursorsInv

LEMMA StoreNextStep ==
    ASSUME CursorsInv, NEW s \in Sequence, StoreNext(s)
    PROVE  CursorsInv'
  <1>. USE DEF StoreNext
  <1>1. Len(WriteOrder) = 3
    BY DEF WriteOrder
  <1>2. todo \subseteq logs /\ TypeOK
    BY DEF CursorsInv, TypeOK
  <1>3. CASE Stored(s)
    <2>1. todo' = todo \ {s} /\ writing' = writing /\ writing = NotWriting
      BY <1>3
    <2>2. TypeOK'
      BY <1>2, <2>1 DEF TypeOK, chain, cursors
    <2>3. StoreProgress'
      BY <2>1 DEF CursorsInv, StoreProgress, OnChain, chain
    <2>. QED
      BY <1>3, <2>1, <2>2, <2>3, StoringStep DEF Stored
  <1>4. CASE ~Stored(s)
    <2>1. todo' = todo /\ writing' = [log |-> s, at |-> 1]
      BY <1>4
    <2>2. TypeOK'
      BY <1>1, <1>2, <2>1 DEF TypeOK, chain, cursors
    <2>3. StoreProgress'
      BY <2>1 DEF CursorsInv, StoreProgress, OnChain, chain
    <2>. QED
      BY <2>1, <2>2, <2>3, StoringStep
  <1>. QED
    BY <1>3, <1>4

(* The writes are made in their order, the record among the first two. *)
LEMMA StoreWriteStep ==
    ASSUME CursorsInv, StoreWrite
    PROVE  CursorsInv'
  <1>. USE DEF StoreWrite
  <1>. DEFINE w == WriteOrder[writing.at]
  <1>1. /\ Len(WriteOrder) = 3 /\ \A i \in 1 .. 3 : WriteOrder[i] \in Tables
        /\ WriteOrder[1] = "record" \/ WriteOrder[2] = "record"
    BY DEF WriteOrder, Tables
  <1>2. /\ writing \in [log : Sequence, at : 1 .. 3]
        /\ writing.log \in todo /\ todo \subseteq logs /\ logs \subseteq OnChain
        /\ \A i \in 1 .. writing.at - 1 : writing.log \in table[WriteOrder[i]]
    BY <1>1 DEF CursorsInv, TypeOK, StoreProgress
  <1>3. /\ w \in Tables /\ table \in [Tables -> SUBSET Sequence]
        /\ table' = [table EXCEPT ![w] = table[w] \cup {writing.log}]
    BY <1>1, <1>2 DEF CursorsInv, TypeOK
  <1>4. /\ table' \in [Tables -> SUBSET Sequence]
        /\ \A u \in Tables : table[u] \subseteq table'[u]
        /\ \A u \in Tables : table'[u] \subseteq table[u] \cup {writing.log}
        /\ writing.log \in table'[w]
    <2>1. writing.log \in Sequence
      BY <1>2
    <2>. DEFINE x == writing.log
    <2>2. w \in Tables /\ x \in Sequence /\ table' = [table EXCEPT ![w] = table[w] \cup {x}]
      BY <1>3, <2>1
    <2>. HIDE DEF w, x
    <2>3. table' \in [Tables -> SUBSET Sequence]
      BY <1>3, <2>2
    <2>4. \A u \in Tables : table'[u] = IF u = w THEN table[w] \cup {x} ELSE table[u]
      BY <1>3, <2>2
    <2>5. /\ \A u \in Tables : table[u] \subseteq table'[u]
          /\ \A u \in Tables : table'[u] \subseteq table[u] \cup {x}
          /\ x \in table'[w]
      BY <2>2, <2>4
    <2>. QED
      BY <2>3, <2>5 DEF x
  <1>5. TypeOK'
    BY <1>1, <1>2, <1>4 DEF CursorsInv, TypeOK, chain, cursors
  <1>6. /\ table["record"] \subseteq table'["record"] /\ "record" \in Tables
        /\ \A u \in Tables : table'[u] \subseteq OnChain
    BY <1>2, <1>4 DEF CursorsInv, StoreProgress, Tables
  <1>7. OnChain' = OnChain
    BY DEF OnChain, chain
  <1>8. CASE writing.at = 3
    <2>1. writing' = NotWriting /\ todo' = todo \ {writing.log}
      BY <1>1, <1>8
    <2>2. StoreProgress'
      BY <1>6, <1>7, <2>1 DEF CursorsInv, StoreProgress
    <2>3. writing.log \in table'["record"]
      <3>1. 1 \in 1 .. writing.at - 1 /\ 2 \in 1 .. writing.at - 1
        BY <1>8
      <3>. QED
        BY <1>1, <1>2, <1>6, <3>1
    <2>. QED
      BY <1>5, <1>6, <2>1, <2>2, <2>3, StoringStep
  <1>9. CASE writing.at # 3
    <2>1. writing' = [writing EXCEPT !.at = @ + 1] /\ todo' = todo
      BY <1>1, <1>9
    <2>2. /\ writing' # NotWriting /\ writing'.log = writing.log
          /\ writing'.at = writing.at + 1 /\ writing.at \in 1 .. 3
      BY <1>2, <2>1 DEF NotWriting
    <2>3. ASSUME NEW i \in 1 .. writing'.at - 1
          PROVE  writing.log \in table'[WriteOrder[i]]
      <3>1. CASE i = writing.at
        BY <1>4, <3>1
      <3>2. CASE i # writing.at
        <4>1. i \in 1 .. writing.at - 1 /\ i \in 1 .. 3
          BY <2>2, <3>2
        <4>2. writing.log \in table[WriteOrder[i]] /\ WriteOrder[i] \in Tables
          BY <1>1, <1>2, <4>1
        <4>. QED
          BY <1>4, <4>2
      <3>. QED
        BY <3>1, <3>2
    <2>4. StoreProgress'
      <3>1. (\A i \in 1 .. writing.at - 1 : writing.log \in table[WriteOrder[i]])'
        BY <2>2, <2>3 DEF WriteOrder
      <3>2. (pc = "store" /\ writing.log \in todo /\ logs \subseteq OnChain)'
        BY <1>2, <1>7, <2>1, <2>2
      <3>3. \A u \in Tables : table'[u] \subseteq OnChain'
        BY <1>6, <1>7
      <3>. QED
        BY <3>1, <3>2, <3>3 DEF StoreProgress
    <2>. QED
      BY <1>5, <1>6, <2>1, <2>4, StoringStep
  <1>. QED
    BY <1>8, <1>9

(* A rewind changes the block of a cursor only, to that of the log before  *)
(* the one looked for or to that of the start.                             *)
LEMMA RewoundIs ==
    ASSUME CursorsInv, NEW state \in SyncState, NEW relevant, NEW prev
    PROVE  /\ Rewound(state, relevant, prev) \in SyncState
           /\ Rewound(state, relevant, prev).next_sequence = state.next_sequence
           /\ \/ Rewound(state, relevant, prev).next_block = state.next_block
              \/ Rewound(state, relevant, prev).next_block = start.next_block
              \/ /\ Rewound(state, relevant, prev).next_block = BlockOf(prev)
                 /\ prev \in OnChain
  <1>1. CASE relevant = {} \/ state.next_sequence \in relevant
    BY <1>1 DEF Rewound
  <1>2. CASE ~(relevant = {} \/ state.next_sequence \in relevant)
    <2>1. CASE Numbered(prev)
      <3>1. prev \in OnChain /\ BlockOf(prev) \in Nat
        BY <2>1, StoredOnChain, CursorTypes
      <3>2. Rewound(state, relevant, prev) = [state EXCEPT !.next_block = BlockOf(prev)]
        BY <1>2, <2>1 DEF Rewound
      <3>. DEFINE r == Rewound(state, relevant, prev)
                  x == BlockOf(prev)
      <3>3. x \in Nat /\ r = [state EXCEPT !.next_block = x]
        BY <3>1, <3>2
      <3>. HIDE DEF r, x
      <3>4. r \in SyncState /\ r.next_sequence = state.next_sequence /\ r.next_block = x
        BY <3>3, CursorMoved
      <3>. QED
        BY <3>1, <3>4 DEF r, x
    <2>2. CASE ~Numbered(prev)
      <3>1. start.next_block \in Nat
        BY CursorTypes
      <3>2. Rewound(state, relevant, prev) = [state EXCEPT !.next_block = start.next_block]
        BY <1>2, <2>2 DEF Rewound
      <3>. DEFINE r == Rewound(state, relevant, prev)
                  x == start.next_block
      <3>3. x \in Nat /\ r = [state EXCEPT !.next_block = x]
        BY <3>1, <3>2
      <3>. HIDE DEF r, x
      <3>4. r \in SyncState /\ r.next_sequence = state.next_sequence /\ r.next_block = x
        BY <3>3, CursorMoved
      <3>. QED
        BY <3>1, <3>4 DEF r, x
    <2>. QED
      BY <2>1, <2>2
  <1>. QED
    BY <1>1, <1>2

(* update(): a rewind goes no further than the first log that is missing. *)
LEMMA UpdateStep ==
    ASSUME CursorsInv, Update
    PROVE  CursorsInv'
  <1>. USE DEF Update, chain
  <1>1. /\ start.next_block \in Nat /\ start.next_sequence \in Nat
        /\ forward.next_block \in Nat /\ forward.next_sequence \in Nat
        /\ backward.next_block \in Nat /\ backward.next_sequence \in Nat
        /\ tip \in Nat /\ Len(blocks) \in Nat /\ OnChain = 0 .. Len(blocks) - 1
        /\ \A s \in OnChain : BlockOf(s) \in Nat /\ BlockOf(s) > 0 /\ BlockOf(s) <= tip
    BY CursorTypes
  <1>2. forward \in SyncState /\ backward \in SyncState
    BY DEF CursorsInv, TypeOK
  <1>. DEFINE before == SaturatingSub(forward.next_sequence, 1)
              after == backward.next_sequence + 1
  <1>3. /\ forward' \in SyncState /\ forward'.next_sequence = forward.next_sequence
        /\ \/ forward'.next_block = forward.next_block
           \/ forward'.next_block = start.next_block
           \/ forward'.next_block = BlockOf(before) /\ before \in OnChain
    <2>1. CASE direction = "forward"
      <3>1. forward' = RewoundForward
        BY <2>1
      <3>. QED
        BY <1>2, <3>1, RewoundIs DEF RewoundForward
    <2>2. CASE direction # "forward"
      BY <1>2, <2>2
    <2>. QED
      BY <2>1, <2>2
  <1>4. /\ backward' \in SyncState /\ backward'.next_sequence = backward.next_sequence
        /\ \/ backward'.next_block = backward.next_block
           \/ backward'.next_block = start.next_block
           \/ backward'.next_block = BlockOf(after) /\ after \in OnChain
    <2>1. CASE direction # "forward"
      <3>1. backward' = RewoundBackward
        BY <2>1
      <3>. QED
        BY <1>2, <3>1, RewoundIs DEF RewoundBackward
    <2>2. CASE direction = "forward"
      BY <1>2, <2>2
    <2>. QED
      BY <2>1, <2>2
  <1>5. TypeOK'
    BY <1>3, <1>4 DEF CursorsInv, TypeOK
  <1>6. ChainOrdered' /\ StartMark' /\ OnChain' = OnChain
    BY ChainKept DEF CursorsInv
  <1>7. \A s : (Stored(s)' <=> Stored(s)) /\ BlockOf(s)' = BlockOf(s)
    BY DEF Stored, BlockOf
  <1>8. CursorBounds'
    <2>1. start.next_block <= tip
      BY DEF CursorsInv, StartMark
    <2>2. forward'.next_block <= tip + 1
      BY <1>1, <1>3, <2>1 DEF CursorsInv, CursorBounds
    <2>3. start.next_sequence > 0 => start.next_block > 0
      <3>1. 0 \in OnChain \/ start.next_sequence = 0
        BY <1>1 DEF CursorsInv, StartMark
      <3>. QED
        BY <1>1, <3>1 DEF CursorsInv, StartMark
    <2>4. (start.next_sequence > 0 /\ mode = "sequence") => backward'.next_block > 0
      BY <1>1, <1>4, <2>3 DEF CursorsInv, CursorBounds
    <2>. QED
      BY <1>3, <1>4, <2>2, <2>4 DEF CursorsInv, CursorBounds
  <1>9. StoreProgress'
    <2>1. writing = NotWriting
      BY DEF CursorsInv, StoreProgress
    <2>. QED
      BY <1>6, <2>1 DEF CursorsInv, StoreProgress
  <1>10. ForwardCovered' /\ BackwardCovered'
    BY <1>3, <1>4, <1>7, PassedIsStored DEF ForwardCovered, BackwardCovered, Covered
  <1>11. NothingBehind'
    <2>. SUFFICES ASSUME mode = "block", drops = 0, NEW s \in OnChain, ~Stored(s)
                  PROVE  IF s >= start.next_sequence
                         THEN BlockOf(s) >= forward'.next_block
                         ELSE BlockOf(s) <= backward'.next_block /\ ~synced
      BY <1>6, <1>7 DEF NothingBehind
    <2>1. s \in Nat /\ BlockOf(s) \in Nat
      BY <1>1
    <2>2. CASE s >= start.next_sequence
      <3>1. /\ s >= forward.next_sequence /\ BlockOf(s) >= forward.next_block
            /\ BlockOf(s) > start.next_block
        BY <2>2, AheadOf
      <3>2. before \in OnChain => BlockOf(before) <= BlockOf(s)
        <4>1. before <= s
          BY <1>1, <2>1, <3>1 DEF SaturatingSub
        <4>. QED
          BY <4>1 DEF CursorsInv, ChainOrdered
      <3>. HIDE DEF before
      <3>. QED
        BY <1>1, <1>3, <2>1, <2>2, <3>1, <3>2
    <2>3. CASE ~(s >= start.next_sequence)
      <3>1. /\ s <= backward.next_sequence /\ BlockOf(s) <= backward.next_block
            /\ ~synced /\ BlockOf(s) <= start.next_block
        BY <2>3, AheadOf
      <3>2. after \in OnChain => BlockOf(s) <= BlockOf(after)
        <4>1. s <= after
          BY <1>1, <2>1, <3>1
        <4>. QED
          BY <4>1 DEF CursorsInv, ChainOrdered
      <3>. HIDE DEF after
      <3>. QED
        BY <1>1, <1>4, <2>1, <2>3, <3>1, <3>2
    <2>. QED
      BY <2>2, <2>3
  <1>12. SyncedToZero'
    BY <1>7 DEF CursorsInv, SyncedToZero
  <1>. QED
    BY <1>5, <1>6, <1>8, <1>9, <1>10, <1>11, <1>12 DEF CursorsInv

(* A crash loses the cursors and what is in hand. *)
LEMMA CrashStep ==
    ASSUME CursorsInv, Crash
    PROVE  CursorsInv'
  <1>. USE DEF Crash, chain, cursors
  <1>1. TypeOK'
    BY ContractSyncAssumption DEF CursorsInv, TypeOK, Fault
  <1>2. ChainOrdered' /\ StartMark' /\ OnChain' = OnChain
    BY ChainKept DEF CursorsInv
  <1>3. StoreProgress'
    BY <1>2 DEF CursorsInv, StoreProgress
  <1>. QED
    BY <1>1, <1>2, <1>3 DEF CursorsInv, CursorBounds, ForwardCovered, BackwardCovered,
                            NothingBehind, SyncedToZero

LEMMA CursorsKept == CursorsInv /\ [Next]_vars => CursorsInv'
  <1>. SUFFICES ASSUME CursorsInv, [Next]_vars PROVE CursorsInv'
    OBVIOUS
  <1>1. ASSUME NEW t \in 0 .. MaxTip, Start(t) \/ ForwardIdle(t) \/ ForwardRange(t)
        PROVE  CursorsInv'
    BY <1>1, StartStep, ForwardIdleStep, ForwardBlockRangeStep, ForwardSequenceRangeStep
       DEF ForwardRange
  <1>2. CASE ForwardSkip \/ BackwardDone \/ BackwardSkip \/ BackwardIdle \/ BackwardError
    BY <1>2, ForwardSkipStep, BackwardDoneStep, BackwardSkipStep, BackwardRestStep
  <1>3. CASE BackwardRange
    BY <1>3, BackwardBlockRangeStep, BackwardSequenceRangeStep DEF BackwardRange
  <1>4. ASSUME NEW found \in SUBSET Sequence, Fetch(found) PROVE CursorsInv'
    BY <1>4, FetchStep
  <1>5. ASSUME NEW s \in Sequence, StoreNext(s) PROVE CursorsInv'
    BY <1>5, StoreNextStep
  <1>6. CASE StoreWrite \/ Update \/ Crash
    BY <1>6, StoreWriteStep, UpdateStep, CrashStep
  <1>7. ASSUME NEW n \in 0 .. MaxLogs, Mine(n) PROVE CursorsInv'
    BY <1>7, MineStep
  <1>8. CASE UNCHANGED vars
    BY <1>8
       DEF vars, chain, cursors, query, CursorsInv, TypeOK, ChainOrdered, StartMark,
           CursorBounds, StoreProgress, ForwardCovered, BackwardCovered, NothingBehind,
           SyncedToZero, Covered, Stored, InHand, InRange, OnChain, BlockOf
  <1>. QED
    BY <1>1, <1>2, <1>3, <1>4, <1>5, <1>6, <1>7, <1>8 DEF Next, Sync

(* store_message: the message is there before its nonce points to it. *)
LEMMA MessageOrderKept == CursorsInv /\ MessageOrder /\ [Next]_vars => MessageOrder'
  <1>. SUFFICES ASSUME CursorsInv, MessageOrder, [Next]_vars, Kind = "message"
                PROVE  table'["record"] \subseteq table'["byId"]
    BY DEF MessageOrder
  <1>1. CASE StoreWrite
    <2>1. /\ WriteOrder[1] = "byId" /\ WriteOrder[2] = "record" /\ WriteOrder[3] = "block"
          /\ Len(WriteOrder) = 3
      BY DEF WriteOrder
    <2>2. /\ writing \in [log : Sequence, at : 1 .. 3]
          /\ \A i \in 1 .. writing.at - 1 : writing.log \in table[WriteOrder[i]]
          /\ table \in [Tables -> SUBSET Sequence]
      BY <1>1, <2>1 DEF CursorsInv, TypeOK, StoreProgress, StoreWrite
    <2>. DEFINE x == writing.log
                i == writing.at
    <2>3. /\ i \in {1, 2, 3} /\ (i = 2 => x \in table["byId"])
          /\ table' = [table EXCEPT ![WriteOrder[i]] = @ \cup {x}]
      BY <1>1, <2>1, <2>2 DEF StoreWrite
    <2>. HIDE DEF x, i
    <2>4. CASE i = 1
      BY <2>1, <2>2, <2>3, <2>4 DEF MessageOrder, Tables
    <2>5. CASE i = 2
      BY <2>1, <2>2, <2>3, <2>5 DEF MessageOrder, Tables
    <2>6. CASE i = 3
      BY <2>1, <2>2, <2>3, <2>6 DEF MessageOrder, Tables
    <2>. QED
      BY <2>3, <2>4, <2>5, <2>6
  <1>2. CASE ~StoreWrite
    <2>1. UNCHANGED table
      BY <1>2 DEF Next, Sync, vars, Start, ForwardIdle, ForwardRange, ForwardSkip,
                  BackwardDone, BackwardSkip, BackwardIdle, BackwardRange, BackwardError,
                  Fetch, StoreNext, Update, Mine, Crash
    <2>. QED
      BY <2>1 DEF MessageOrder
  <1>. QED
    BY <1>1, <1>2

-----------------------------------------------------------------------------
(* Covered is a way to be stored or in hand. *)
LEMMA CursorsInvMeans == CursorsInv => ForwardContiguous /\ BackwardContiguous
  BY DEF CursorsInv, ForwardCovered, BackwardCovered, Covered, ForwardContiguous,
         BackwardContiguous

(* What the two cursors promise, of messages and of insertions: what they  *)
(* have passed is stored or in hand, no log that is missing is behind      *)
(* them, and a backward cursor that stops has everything.                  *)
CursorsSound ==
    /\ TypeOK /\ ForwardContiguous /\ BackwardContiguous
    /\ NothingBehind /\ SyncedToZero

(* ForwardBackwardSequenceSyncCursor: neither a crash, an error, a stale   *)
(* tip nor a rewind makes a cursor pass over a log, whatever is indexed.   *)
THEOREM CursorsAreSound == Spec => []CursorsSound
  <1>1. Init => CursorsInv
    BY InitInv DEF IInv
  <1>2. CursorsInv /\ [Next]_vars => CursorsInv'
    BY CursorsKept
  <1>3. CursorsInv => CursorsSound
    BY CursorsInvMeans DEF CursorsInv, CursorsSound
  <1>. QED
    BY <1>1, <1>2, <1>3, PTL DEF Spec

(* ContractSync of dispatched messages: in addition what is found by nonce *)
(* is found by id, because store_message writes message_by_id first.  Of   *)
(* insertions this does not hold (run sync_leaf_index).                   *)
THEOREM SyncIsSound ==
    ASSUME Kind = "message"
    PROVE  Spec => []SyncSound
  <1>1. Init => IInv
    BY InitInv
  <1>2. IInv /\ [Next]_vars => IInv'
    BY CursorsKept, MessageOrderKept DEF IInv
  <1>3. IInv => SyncSound
    <2>. SUFFICES ASSUME IInv PROVE SyncSound
      OBVIOUS
    <2>1. RecordComplete
      BY DEF IInv, CursorsInv, StoreProgress, MessageOrder, RecordComplete
    <2>. QED
      BY <2>1, CursorsInvMeans DEF IInv, CursorsInv, SyncSound
  <1>. QED
    BY <1>1, <1>2, <1>3, PTL DEF Spec

=============================================================================
