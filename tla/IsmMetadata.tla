---------------------------- MODULE IsmMetadata ----------------------------
(***************************************************************************)
(* How the relayer assembles the metadata of nested ISMs                   *)
(* (agents/relayer/src/msg/metadata): the recursion over routing and       *)
(* aggregation ISMs, with what the builders of the leaves returned given.  *)
(* Metadata is a sequence of tokens; the result of a builder is Err,       *)
(* Missing for Ok(None), Some(metadata), or BuildPanicked.                 *)
(***************************************************************************)
EXTENDS Naturals, Sequences, FiniteSets, SequencesExt

CONSTANTS
    Ism,          \* Ism[a]: the module type of address a and its parameters
    MaxDepth,     \* max_depth
    Gas           \* Gas[a]: what verifying with a costs

Err == <<"err">>
Missing == <<"none">>
BuildPanicked == <<"panic">>
Some(metadata) == <<"some", metadata>>

RangeSize == 8    \* 2 * METADATA_RANGE_SIZE

(* AggregationIsmMetadataBuilder::format_metadata: a table of (start, end) *)
(* pairs, zero for a module without metadata, and the metadatas after it.  *)
FormatAggregation(metas, count) ==
    FoldLeft(LAMBDA buffer, meta :
                LET start == RangeSize * count + Len(buffer.body)
                IN  [ranges |-> [buffer.ranges EXCEPT ![meta.index] =
                                    <<start, start + Len(meta.metadata)>>],
                     body |-> buffer.body \o meta.metadata],
             [ranges |-> [i \in 0..(count - 1) |-> <<0, 0>>], body |-> <<>>],
             metas)

(* The cheapest n metadatas, in the order of their modules. *)
NCheapestMetas(metas, n) ==
    LET byGas == SortSeq(metas, LAMBDA x, y :
                    x.gas < y.gas \/ (x.gas = y.gas /\ x.index < y.index))
    IN  SortSeq(SubSeq(byGas, 1, n), LAMBDA x, y : x.index < y.index)

(* What a contract finds in aggregated metadata for module i. *)
HasMetadata(buffer, i) == buffer.ranges[i][1] > 0

MetadataAt(buffer, i) ==
    LET offset == RangeSize * Cardinality(DOMAIN buffer.ranges)
    IN  SubSeq(buffer.body, buffer.ranges[i][1] - offset + 1, buffer.ranges[i][2] - offset)

(* The verification of the ISM contracts, accepted being the pairs of ISM   *)
(* and metadata that the ISMs which are not nested accept.                 *)
RECURSIVE VerifyIsm(_, _, _)
VerifyIsm(a, metadata, accepted) ==
    CASE Ism[a].type = "routing" -> VerifyIsm(Ism[a].route, metadata, accepted)
      [] Ism[a].type = "aggregation" ->
            LET present == {i \in 0..(Len(Ism[a].modules) - 1) : HasMetadata(metadata[1], i)}
            IN  /\ Len(metadata) = 1
                /\ Cardinality(present) = Ism[a].threshold
                /\ \A i \in present :
                    VerifyIsm(Ism[a].modules[i + 1], MetadataAt(metadata[1], i), accepted)
      [] OTHER -> <<a, metadata>> \in accepted

(* AggregationIsmMetadataBuilder::cheapest_valid_metas, results being what *)
(* the builders of the modules returned.  A module whose builder failed or *)
(* whose verification does is left out.  The builders run in one task: a   *)
(* panic of one is the panic of all.                                       *)
CheapestValidMetas(a, results, accepted) ==
    LET modules == Ism[a].modules
        valid == {i \in 1..Len(modules) :
                    results[i][1] = "some" /\ VerifyIsm(modules[i], results[i][2], accepted)}
        metas == [k \in 1..Cardinality(valid) |->
                    LET i == SetToSortSeq(valid, <)[k]
                    IN  [index |-> i - 1, metadata |-> results[i][2], gas |-> Gas[modules[i]]]]
    IN  IF BuildPanicked \in ToSet(results) THEN BuildPanicked
        ELSE IF Cardinality(valid) < Ism[a].threshold THEN Missing
        ELSE Some(<<FormatAggregation(NCheapestMetas(metas, Ism[a].threshold), Len(modules))>>)

(* build_ism_and_metadata, with the builders of routing and aggregation    *)
(* ISMs, which call it again.                                              *)
RECURSIVE BuildMetadata(_, _, _, _)
BuildMetadata(a, depth, leaf, accepted) ==
    IF depth + 1 > MaxDepth THEN Err
    ELSE CASE Ism[a].type = "routing" ->
                BuildMetadata(Ism[a].route, depth + 1, leaf, accepted)
           [] Ism[a].type = "aggregation" ->
                CheapestValidMetas(a,
                    [i \in 1..Len(Ism[a].modules) |->
                        BuildMetadata(Ism[a].modules[i], depth + 1, leaf, accepted)],
                    accepted)
           [] Ism[a].type = "null" -> Some(<<>>)
           [] Ism[a].type \in {"merkleRootMultisig", "messageIdMultisig", "ccipRead"} -> leaf[a]
           [] OTHER -> Err

(* CcipReadIsmMetadataBuilder::build: what the contract and then one URL   *)
(* after another answered.  The data of an answer is cut after its second  *)
(* character, which panics when it has less, and decoded.                  *)
CcipReadMetadata(lookup, answers) ==
    LET decided == {i \in 1..Len(answers) : answers[i] # "badJson"}
        first == CHOOSE i \in decided : \A j \in decided : i <= j
    IN  CASE lookup = "noRevert" \/ lookup = "noData" -> Missing
          [] lookup = "badData" -> Err
          [] decided = {} -> Missing
          [] answers[first] \in {"unreachable", "badHex"} -> Err
          [] answers[first] = "short" -> BuildPanicked
          [] OTHER -> Some(<<answers[first]>>)
============================================================================
