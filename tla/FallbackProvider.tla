--------------------------- MODULE FallbackProvider ---------------------------
(***************************************************************************)
(* The RPC clients below the Ethereum adapter: FallbackProvider of          *)
(* hyperlane-core with EthereumFallbackProvider::request on top of it, and  *)
(* RetryingProvider for a chain with one URL. Concurrent requests work from *)
(* snapshots of one shared list of priorities while nodes stall and fail.   *)
(***************************************************************************)
EXTENDS Naturals, Sequences, FiniteSets

CONSTANTS ProviderCount,     \* number of URLs of the chain
          RpcCallers,        \* tasks that make requests at the same time
          FailingCallers,    \* bound: the tasks whose requests may fail
          ProviderMaxHeight, \* bound: blocks of the chain
          MaxRequests        \* RetryingProvider: max_requests

ASSUME ProviderAssumption ==
    ProviderCount \in Nat \ {0, 1} /\ MaxRequests \in Nat \ {0} /\ ProviderMaxHeight \in Nat

VARIABLES connection,   \* the client that ConnectionConf selects
          head,         \* head[p]: the block number that the node of provider p reports
          priorities,   \* PrioritizedProviders.priorities, shared by all requests
          request       \* request[c]: the request that task c is in

providerVars == <<connection, head, priorities, request>>

Providers == 1 .. ProviderCount
------------------------------------------------------------------------------
(* How the client reads the answer of a node.                               *)

SendMethods == {"eth_sendRawTransaction", "eth_sendTransaction"}
Methods == {"eth_call", "eth_estimateGas", "eth_feeHistory", "eth_sendRawTransaction"}
AnswerKinds == {"ok", "reqwest", "rate_limit", "revert", "unsupported", "known"}
CategorizeClientResponse(m, kind) ==
    CASE kind = "ok" -> "IsOk"
      [] kind = "rate_limit" -> "RetryableErr"   \* only the back-off is longer
      [] kind = "reqwest" -> "RetryableErr"
      [] \/ m = "eth_estimateGas"
         \/ m = "eth_feeHistory" /\ kind = "unsupported"
         \/ m \in SendMethods \cup {"eth_call"} /\ kind = "revert"
         \/ m \in SendMethods /\ kind \in {"known", "nonce", "underpriced", "funds"} ->
                "NonRetryableErr"
      [] OTHER -> "RetryableErr"
------------------------------------------------------------------------------
(* FallbackProvider                                                         *)

\* take_priorities_snapshot
Snapshot == priorities
\* retain: the entries of the other providers, in the order they have.
WithoutProvider(s, p) ==
    LET kept == {i \in DOMAIN s : s[i].index # p}
    IN  [n \in 1 .. Cardinality(kept) |->
            s[CHOOSE i \in kept : Cardinality({j \in kept : j <= i}) = n]]
\* A faulty variant: the first entry is taken to be the one that stalled.
DeprioritizeByPosition(e) ==
    Append(Tail(priorities), e)
\* deprioritize_provider: the entry is the one of the caller's snapshot.
DeprioritizeProvider(e) == Append(WithoutProvider(priorities, e.index), e)
\* update_last_seen_block
UpdateLastSeenBlock(p, h) ==
    [i \in DOMAIN priorities |->
        IF priorities[i].index = p THEN [index |-> p, height |-> h, old |-> FALSE]
        ELSE priorities[i]]

\* A faulty variant: a provider counts as stalled only when its height went down.
HandleStalledProviderStrict(e, h) ==
    IF h < e.height THEN DeprioritizeProvider(e) ELSE UpdateLastSeenBlock(e.index, h)

\* handle_stalled_provider, once the current height h of the provider is known.
\* A failing eth_blockNumber counts as the height that is already recorded.
HandleStalledProvider(e, h) ==
    IF h <= e.height THEN DeprioritizeProvider(e) ELSE UpdateLastSeenBlock(e.index, h)

NoRequest == [pc |-> "idle", snapshot |-> << >>, errors |-> 0,
         tried |-> {}, category |-> "none", seen |-> 0, result |-> "none"]

\* FallbackProviderBuilder.build: the order of the URLs is the first order of the priorities.
Build == [p \in Providers |-> [index |-> p, height |-> 0, old |-> FALSE]]

\* build_with_connection_conf: one client for a list of URLs, one for a single URL (the first).
Init_Providers ==
    /\ connection \in {"HttpFallback", "Http"}
    /\ head = [p \in Providers |-> 0]
    /\ priorities = Build
    /\ request = [c \in RpcCallers |-> NoRequest]

\* The part of the snapshot that is left; its head is the provider being asked.
CurrentProvider(c) == Head(request[c].snapshot)

StartRequest(c) ==
    /\ request[c].pc \in {"idle", "done"}
    /\ request' = [request EXCEPT ![c] = [NoRequest EXCEPT !.pc = "pass"]]
    /\ UNCHANGED <<connection, head, priorities>>

\* A pass of the loop of EthereumFallbackProvider::request. RetryingProvider has one provider.
StartPass(c) ==
    /\ request[c].pc = "pass"
    /\ request' = [request EXCEPT
                        ![c].snapshot = IF connection = "Http" THEN SubSeq(Build, 1, 1) ELSE Snapshot,
                        ![c].pc = "ask"]
    /\ UNCHANGED <<connection, head, priorities>>

Ask(c) ==
    /\ request[c].pc = "ask"
    /\ \E m \in Methods, kind \in (IF c \in FailingCallers THEN AnswerKinds ELSE {"ok"}) :
        request' = [request EXCEPT ![c].category = CategorizeClientResponse(m, kind),
                                   ![c].tried = @ \cup {CurrentProvider(c).index},
                                   ![c].pc = IF connection = "Http" THEN "match" ELSE "check"]
    /\ UNCHANGED <<connection, head, priorities>>

\* The age is the one of the snapshot; the eth_blockNumber request may fail.
CheckStalled(c) ==
    /\ request[c].pc = "check"
    /\ IF ~CurrentProvider(c).old
       THEN request' = [request EXCEPT ![c].pc = "match"]
       ELSE \E h \in {head[CurrentProvider(c).index], CurrentProvider(c).height} :
                request' = [request EXCEPT ![c].seen = h, ![c].pc = "stalled"]
    /\ UNCHANGED <<connection, head, priorities>>

Stalled(c) ==
    /\ request[c].pc = "stalled"
    /\ priorities' = HandleStalledProvider(CurrentProvider(c), request[c].seen)
    /\ request' = [request EXCEPT ![c].pc = "match", ![c].seen = 0]
    /\ UNCHANGED <<connection, head>>

EndRequest(c, r) == [NoRequest EXCEPT !.pc = "done", !.result = r]
AllFailed(c, n) == [EndRequest(c, "all_failed") EXCEPT !.errors = n, !.tried = request[c].tried]

\* RetryingProvider::request_with_retry after the n-th failed attempt.
RequestWithRetry(c, n) ==
    IF n < MaxRequests THEN [request[c] EXCEPT !.errors = n, !.pc = "ask", !.category = "none"]
    ELSE EndRequest(c, "max_requests")

\* EthereumFallbackProvider::request after its n-th error: the next provider of the
\* snapshot, another pass while there are at most three errors, or all failed.
RequestWithFallback(c, n) ==
    CASE Len(request[c].snapshot) > 1 ->
            [request[c] EXCEPT !.errors = n, !.snapshot = Tail(@), !.pc = "ask",
             !.category = "none"]
      [] Len(request[c].snapshot) = 1 /\ n <= 3 ->
            [request[c] EXCEPT !.errors = n, !.pc = "pass", !.snapshot = << >>, !.category = "none"]
      [] OTHER -> AllFailed(c, n)

MatchAnswer(c) ==
    /\ request[c].pc = "match"
    /\ request' = [request EXCEPT ![c] =
            CASE request[c].category = "IsOk" -> EndRequest(c, "ok")
              [] request[c].category = "NonRetryableErr" -> EndRequest(c, "err")
              [] OTHER -> IF connection = "Http" THEN RequestWithRetry(c, request[c].errors + 1)
                                                 ELSE RequestWithFallback(c, request[c].errors + 1)]
    /\ UNCHANGED <<connection, head, priorities>>
------------------------------------------------------------------------------
(* The environment.                                                         *)

HeadAdvances(p) ==
    /\ head[p] < ProviderMaxHeight
    /\ head' = [head EXCEPT ![p] = @ + 1]
    /\ UNCHANGED <<connection, priorities, request>>

\* More than max_block_time passes: all entries recorded before, and their copies, are old.
Aged(s) == [i \in DOMAIN s |-> [s[i] EXCEPT !.old = TRUE]]
Elapse ==
    /\ \E i \in DOMAIN priorities : ~priorities[i].old
    /\ priorities' = Aged(priorities)
    /\ request' = [c \in RpcCallers |-> [request[c] EXCEPT !.snapshot = Aged(@)]]
    /\ UNCHANGED <<connection, head>>

RequestStep(c) == StartPass(c) \/ Ask(c) \/ CheckStalled(c) \/ Stalled(c) \/ MatchAnswer(c)

Next_Providers ==
    \/ \E c \in RpcCallers : StartRequest(c) \/ RequestStep(c)
    \/ \E p \in Providers : HeadAdvances(p)
    \/ Elapse

ProvidersSpec == Init_Providers /\ [][Next_Providers]_providerVars

------------------------------------------------------------------------------
(* Properties.                                                              *)

\* The shared list always has every provider once, whatever stale copies the
\* concurrent requests push back into it.
PrioritiesComplete ==
    /\ Len(priorities) = ProviderCount
    /\ {priorities[i].index : i \in DOMAIN priorities} = Providers

\* A recorded height is one that the provider with this index has reported.
RecordedHeightsReached ==
    \A i \in DOMAIN priorities : priorities[i].height <= head[priorities[i].index]

\* A request gives up only after every provider of the chain was asked, and at least
\* four times in all, although the order changes under it.
AllProvidersAsked ==
    \A c \in RpcCallers : request[c].result = "all_failed" =>
        request[c].tried = Providers /\ request[c].errors >= 4

\* The priorities that concurrent requests share stay sound (rpc_clients/fallback.rs).
FallbackSound == PrioritiesComplete /\ RecordedHeightsReached /\ AllProvidersAsked

\* A provider whose node has stopped does not stay the first one while requests are made
\* (handle_stalled_provider).
StalledProviderYields ==
    \A p \in Providers :
        connection = "HttpFallback" /\ priorities[1].index = p /\ head[p] = ProviderMaxHeight
            ~> priorities[1].index # p
==============================================================================
