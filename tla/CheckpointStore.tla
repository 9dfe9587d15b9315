-------------------------- MODULE CheckpointStore --------------------------
(***************************************************************************)
(* What an honest validator promises to the readers of its checkpoint      *)
(* store (hyperlane-base/src/traits/checkpoint_syncer.rs): a checkpoint it *)
(* publishes is that of a final state of the merkle tree hook, and its     *)
(* latest index names a published checkpoint.  It promises neither an      *)
(* order of publication nor a latest index that only grows.                *)
(*                                                                         *)
(* A merkle tree is the sequence of its leaves, and its root that sequence *)
(* too, since the hash has no collisions.                                  *)
(***************************************************************************)
EXTENDS Naturals, Sequences

CONSTANTS
    Honest,       \* the validators that run the validator agent
    MaxLeaves     \* bound: leaves of the hook

VARIABLES
    hook,         \* the leaves of the hook that are final
    store,        \* store[v]: signed checkpoints by index
    latest        \* latest[v]: the latest index, <<>> before the first is written

storeVars == <<hook, store, latest>>

(* CheckpointWithMessageId of the hook with i + 1 leaves. *)
CheckpointOf(tree, i) ==
    [index |-> i, root |-> SubSeq(tree, 1, i + 1), message_id |-> tree[i + 1]]

StoreInit ==
    /\ hook = <<>>
    /\ store = [v \in Honest |-> <<>>]
    /\ latest = [v \in Honest |-> <<>>]

\* A message is dispatched and its insertion becomes final.
Insert ==
    /\ Len(hook) < MaxLeaves
    /\ hook' = Append(hook, Len(hook) + 1)
    /\ UNCHANGED <<store, latest>>

Published(v, checkpoint) ==
    store' = [store EXCEPT ![v] =
        [i \in DOMAIN @ \cup {checkpoint.index} |->
            IF i = checkpoint.index THEN checkpoint ELSE @[i]]]

Publish(v, i) ==
    /\ Published(v, CheckpointOf(hook, i))
    /\ UNCHANGED <<hook, latest>>

Point(v, i) ==
    /\ i \in DOMAIN store[v]
    /\ latest' = [latest EXCEPT ![v] = <<i>>]
    /\ UNCHANGED <<hook, store>>

StoreNext ==
    \/ Insert
    \/ \E v \in Honest : \E i \in 0..(Len(hook) - 1) : Publish(v, i) \/ Point(v, i)

StoreSpec == StoreInit /\ [][StoreNext]_storeVars

(* What a reader of the stores may rely on: a checkpoint that can be       *)
(* fetched is that of a final state of the hook, so that honest validators *)
(* never sign different checkpoints for one index, and the latest index    *)
(* names a checkpoint that can be fetched.                                 *)
StoreSound ==
    \A v \in Honest :
        /\ \A i \in DOMAIN store[v] :
            i \in 0..(Len(hook) - 1) /\ store[v][i] = CheckpointOf(hook, i)
        /\ latest[v] # <<>> => latest[v][1] \in DOMAIN store[v]
============================================================================
