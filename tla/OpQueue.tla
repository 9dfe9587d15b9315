------------------------------ MODULE OpQueue ------------------------------
(***************************************************************************)
(* The prepare queue of the SerialSubmitter as it is: a BinaryHeap of      *)
(* Reverse(operation), ordered by Ord for DynPendingOperation.  The        *)
(* receive task pushes new operations in the order of each origin's        *)
(* nonces; the prepare task pops the root, and an operation that fails is  *)
(* pushed back with the time of its next attempt.                          *)
(*                                                                         *)
(* Positions are 1 .. Len(heap); the children of i are 2i and 2i + 1.      *)
(***************************************************************************)
EXTENDS Integers, Sequences

CONSTANTS
    QueueOrigins,   \* the origin chains
    QueueLength,    \* messages of each origin
    Id,             \* [origin, nonce] -> the rank of the message's id (a hash)
    MaxTime,        \* bound on the instants at which a retry can be due
    MaxQueueRetries \* bound on the number of failed attempts

QueuedMessage == QueueOrigins \X (0 .. QueueLength - 1)

(* next_attempt_after: Nothing for an untried operation, else an instant *)
Nothing == 0
Op == [message : QueuedMessage, next : 0 .. MaxTime]

ASSUME OpQueueAssumption ==
    /\ QueueLength \in Nat /\ MaxTime \in Nat /\ MaxQueueRetries \in Nat
    /\ Id \in [QueuedMessage -> Nat]
    /\ \A m, k \in QueuedMessage : Id[m] = Id[k] => m = k

VARIABLES
    heap,       \* the BinaryHeap, as a sequence
    received,   \* number of messages of each origin pushed so far
    retried     \* number of failed attempts so far

queueVars == <<heap, received, retried>>

-----------------------------------------------------------------------------
(* Ord for DynPendingOperation: is a strictly before b?                    *)

Untried(a) == a.next = Nothing

Less(a, b) ==
    LET m == a.message  k == b.message IN
    \/ ~Untried(a) /\ ~Untried(b) /\ a.next < b.next
    \/ Untried(a) /\ ~Untried(b)
    \/ /\ Untried(a) /\ Untried(b)
       /\ IF m[1] = k[1] THEN m[2] < k[2] ELSE Id[m] < Id[k]

-----------------------------------------------------------------------------
(* std::collections::BinaryHeap                                            *)

(* position x climbs to in sift_up from position i *)
Climb(h, x, i) ==
    LET up[p \in 1 .. i] ==
            IF p = 1 \/ ~Less(x, h[p \div 2]) THEN p ELSE up[p \div 2]
    IN  up[i]

(* the positions from i up to the root *)
Ancestors(i) ==
    LET path[p \in 0 .. i] == IF p = 0 THEN {} ELSE {p} \cup path[p \div 2]
    IN  path[i]

(* sift_up: the elements above x on its path move down by one *)
SiftUp(h, x, i) ==
    LET top == Climb(h, x, i) IN
    [p \in DOMAIN h |->
        IF p = top THEN x
        ELSE IF p \in Ancestors(i) /\ p > top THEN h[p \div 2]
        ELSE h[p]]

Push(h, x) == SiftUp(Append(h, x), x, Len(h) + 1)

(* the child the hole moves to; the right one unless it is greater *)
SmallerChild(h, p) ==
    IF 2 * p = Len(h) \/ Less(h[2 * p], h[2 * p + 1]) THEN 2 * p ELSE 2 * p + 1

(* sift_down_to_bottom: the hole at the root goes all the way down, each   *)
(* smaller child moves up by one, and the element climbs back from there   *)
SiftDownToBottom(h) ==
    LET x == h[1]
        n == Len(h)
        down[p \in 1 .. n] == IF 2 * p > n THEN p ELSE down[SmallerChild(h, p)]
        bottom == down[1]
        path == Ancestors(bottom)
        moved == [p \in 1 .. n |->
                    IF p \in path /\ p # bottom THEN h[SmallerChild(h, p)]
                    ELSE h[p]]
    IN  SiftUp(moved, x, bottom)

(* a bug to detect: the element moved to the root stays at the end too *)
PopKeepsLast(h) ==
    LET n == Len(h) IN
    IF n = 1 THEN <<>>
    ELSE SiftDownToBottom([p \in 1 .. n |-> IF p = 1 THEN h[n] ELSE h[p]])

(* the last element replaces the root *)
Pop(h) ==
    LET n == Len(h) IN
    IF n = 1 THEN <<>>
    ELSE SiftDownToBottom([p \in 1 .. n - 1 |-> IF p = 1 THEN h[n] ELSE h[p]])

-----------------------------------------------------------------------------
Init_Queue ==
    /\ heap = <<>>
    /\ received = [o \in QueueOrigins |-> 0]
    /\ retried = 0

(* receive_task pushes the next message of origin o *)
PushNext(o) ==
    /\ received[o] < QueueLength
    /\ heap' = Push(heap, [message |-> <<o, received[o]>>, next |-> Nothing])
    /\ received' = [received EXCEPT ![o] = @ + 1]
    /\ UNCHANGED retried

(* prepare_task pops an operation and passes it on *)
PopSuccess ==
    /\ heap # <<>>
    /\ heap' = Pop(heap)
    /\ UNCHANGED <<received, retried>>

(* prepare_task pops an operation and pushes it back with a retry time *)
PopReprepare ==
    /\ heap # <<>> /\ retried < MaxQueueRetries
    /\ \E t \in 1 .. MaxTime :
        heap' = Push(Pop(heap), [message |-> heap[1].message, next |-> t])
    /\ retried' = retried + 1
    /\ UNCHANGED received

Next_Queue == (\E o \in QueueOrigins : PushNext(o)) \/ PopSuccess \/ PopReprepare

QueueSpec == Init_Queue /\ [][Next_Queue]_queueVars

-----------------------------------------------------------------------------
(* Properties                                                              *)

(* The type invariant: the heap is a sequence of operations. *)
QueueTypeOK ==
    /\ heap \in Seq(Op)
    /\ received \in [QueueOrigins -> 0 .. QueueLength]
    /\ retried \in 0 .. MaxQueueRetries

(* Pushing and popping neither loses nor duplicates an operation: the heap *)
(* holds each message at most once.                                        *)
HoldsEachOnce ==
    \A i, j \in DOMAIN heap : heap[i].message = heap[j].message => i = j

(* Objective 1 of the SerialSubmitter: "we should attempt processing       *)
(* operations (num_retries=0) before ones that have been failing for a     *)
(* while".  The operation popped next is untried if any is, and otherwise  *)
(* the one whose retry is due first.  Holds for any number of origins.     *)
UntriedFirst ==
    \A i \in DOMAIN heap :
        /\ Untried(heap[i]) => Untried(heap[1])
        /\ ~Untried(heap[1]) => heap[1].next <= heap[i].next

(* "Should execute in order of nonce for the same origin": an untried      *)
(* operation is popped only if no untried operation of its origin with a   *)
(* lower nonce is in the queue.                                            *)
NonceOrder ==
    \A i \in DOMAIN heap :
        /\ Untried(heap[1]) /\ Untried(heap[i])
        /\ heap[1].message[1] = heap[i].message[1]
        => heap[1].message[2] <= heap[i].message[2]

(* The heap of one origin works as the queue the submitter relies on.      *)
QueueSound == QueueTypeOK /\ HoldsEachOnce /\ UntriedFirst /\ NonceOrder

=============================================================================
