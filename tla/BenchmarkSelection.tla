------------------------- MODULE BenchmarkSelection -------------------------
(***************************************************************************)
(* The staged stratified selection of benchmark documents: length strata,  *)
(* cumulative quotas, the nested selection they give, and the checks the   *)
(* manifest repeats (crates/rag-pipeline/src/benchmark_selection.rs and    *)
(* the policy derivation in crates/rag-builder/src/portable.rs).           *)
(*                                                                         *)
(* candidates is a function from document ids to                           *)
(* [body, primary]; Bytes[body] is the length of the text, and             *)
(* SelectionKey[id] the order of the selection digest of a document, a     *)
(* hash whose only property in use is that it is a fixed total order.      *)
(***************************************************************************)
EXTENDS Projection

CONSTANTS
    BenchmarkSizes,    \* STANDARD_BENCHMARK_SIZES
    Bytes,             \* text length of every body
    SelectionKey       \* order of the selection digests of document ids

ASSUME BenchmarkAssumption ==
    \A s \in DOMAIN BenchmarkSizes : BenchmarkSizes[s] \in Nat \ {0}

LargestSize == Last(BenchmarkSizes)

SumOver(f) == FoldFunction(+, 0, f)

-----------------------------------------------------------------------------
(* Length strata from the percentiles of the candidate lengths.  A stratum *)
(* is [min, max]; the last one has no upper bound.                         *)

Unbounded == -1

Lengths(candidates) ==
    LET ids == Ordered(DOMAIN candidates,
                            LAMBDA a, b : \/ Bytes[candidates[a].body] < Bytes[candidates[b].body]
                                          \/ /\ Bytes[candidates[a].body] = Bytes[candidates[b].body]
                                             /\ a < b)
    IN  [k \in 1..Len(ids) |-> Bytes[candidates[ids[k]].body]]

UpperBounds(lengths) ==
    LET last == Len(lengths) - 1
        maximum == Last(lengths)
        percentiles == {lengths[(last * percent) \div 100 + 1] : percent \in {50, 90, 95, 99}}
    IN  {upper \in percentiles : upper < maximum} \union {maximum - 1}

LengthStrata(candidates) ==
    LET lengths == Lengths(candidates)
        uppers == Ascending(UpperBounds(lengths))
        lower(k) == IF k = 1 THEN 0 ELSE uppers[k - 1] + 1
    IN  IF Len(lengths) < LargestSize
            THEN Err("too few documents")
            ELSE IF Last(lengths) = 0
            THEN Err("semantic text is empty")
            ELSE Ok([k \in 1..(Len(uppers) + 1) |->
                        [min |-> lower(k),
                         max |-> IF k <= Len(uppers) THEN uppers[k] ELSE Unbounded]])

InStratum(stratum, bytes) ==
    /\ bytes >= stratum.min
    /\ stratum.max = Unbounded \/ bytes <= stratum.max

FindStratum(strata, bytes) ==
    IF \E k \in DOMAIN strata : InStratum(strata[k], bytes)
        THEN Min({k \in DOMAIN strata : InStratum(strata[k], bytes)})
        ELSE 0

ValidStrata(strata) ==
    /\ strata # <<>>
    /\ strata[1].min = 0
    /\ \A k \in DOMAIN strata :
          IF k = Len(strata)
              THEN strata[k].max = Unbounded
              ELSE /\ strata[k].max >= strata[k].min
                   /\ strata[k + 1].min = strata[k].max + 1

-----------------------------------------------------------------------------
(* Quotas: cells are <<relation, stratum>>, and every round gives one      *)
(* document to each relation that has capacity, in its least allocated     *)
(* stratum.                                                                *)

Cells(relations, strata) == (1..Len(relations)) \X (1..Len(strata))

CellOf(candidate, relations, strata) ==
    <<CHOOSE r \in 1..Len(relations) : relations[r] = candidate.primary,
      FindStratum(strata, Bytes[candidate.body])>>

Capacities(candidates, relations, strata) ==
    [cell \in Cells(relations, strata) |->
        Cardinality({id \in DOMAIN candidates :
                        CellOf(candidates[id], relations, strata) = cell})]

ChosenCell(allocated, capacities, r) ==
    LET open == {cell \in DOMAIN capacities : cell[1] = r /\ allocated[cell] < capacities[cell]}
        least == {cell \in open : \A other \in open : allocated[cell] <= allocated[other]}
    IN  IF open = {} THEN <<>> ELSE CHOOSE cell \in least : \A other \in least : cell[2] <= other[2]

\* Turns go round the relations until the target size is reached; a round
\* without progress leaves the quota short, which is the error of the code.
AllocateTarget(allocated, capacities, size, relations) ==
    Loop(LAMBDA given, turn :
             LET cell == ChosenCell(given, capacities, ((turn - 1) % Len(relations)) + 1)
             IN  IF SumOver(given) = size \/ cell = <<>>
                     THEN given
                     ELSE [given EXCEPT ![cell] = @ + 1],
         allocated, [turn \in 1..(size * Len(relations)) |-> turn])

NothingAllocated(capacities) == [cell \in DOMAIN capacities |-> 0]

SelectionPolicy(candidates, relations, strata) ==
    LET capacities == Capacities(candidates, relations, strata)
        upTo[t \in 0..Len(BenchmarkSizes)] ==
            IF t = 0
                THEN NothingAllocated(capacities)
                ELSE AllocateTarget(upTo[t - 1], capacities, BenchmarkSizes[t], relations)
        targets == [t \in 1..Len(BenchmarkSizes) |-> upTo[t]]
    IN  IF SumOver(capacities) < LargestSize
            THEN Err("too few documents")
            ELSE IF \E t \in DOMAIN targets : SumOver(targets[t]) # BenchmarkSizes[t]
            THEN Err("quota exceeds capacity")
            ELSE Ok([strata |-> strata, targets |-> targets])

\* BenchmarkSelectionPolicy::validate
ValidPolicy(policy, relations) ==
    /\ ValidStrata(policy.strata)
    /\ Len(policy.targets) = Len(BenchmarkSizes)
    /\ \A t \in DOMAIN policy.targets :
          /\ DOMAIN policy.targets[t] = Cells(relations, policy.strata)
          /\ SumOver(policy.targets[t]) = BenchmarkSizes[t]
          /\ t > 1 => \A cell \in DOMAIN policy.targets[t] :
                          policy.targets[t][cell] >= policy.targets[t - 1][cell]

-----------------------------------------------------------------------------
(* The selection.  Every cell is ordered by the selection key; a target    *)
(* adds the next documents of each cell, ordered by key among themselves.  *)

ByKey(ids) == Ordered(ids, LAMBDA a, b : SelectionKey[a] < SelectionKey[b])

CellMembers(candidates, relations, strata, cell) ==
    ByKey({id \in DOMAIN candidates : CellOf(candidates[id], relations, strata) = cell})

Additions(policy, relations, candidates, t) ==
    LET start(cell) == IF t = 1 THEN 1 ELSE policy.targets[t - 1][cell] + 1
    IN  UNION {LET members == CellMembers(candidates, relations, policy.strata, cell)
               IN  {members[k] : k \in start(cell)..policy.targets[t][cell]} :
               cell \in DOMAIN policy.targets[t]}

QuotasFit(policy, relations, candidates) ==
    \A t \in DOMAIN policy.targets : \A cell \in DOMAIN policy.targets[t] :
        policy.targets[t][cell] <= Len(CellMembers(candidates, relations, policy.strata, cell))

ValidCandidate(candidate, relations) ==
    /\ Bytes[candidate.body] > 0
    /\ candidate.primary \in Range(relations)

SelectDocuments(policy, relations, candidates) ==
    LET selection == FlattenSeq([t \in DOMAIN policy.targets |->
                                    ByKey(Additions(policy, relations, candidates, t))])
        prefix(t) == SumOver([k \in 1..t |->
                        Cardinality(Additions(policy, relations, candidates, k))])
    IN  CASE ~ValidPolicy(policy, relations) -> Err("policy")
          [] Cardinality(DOMAIN candidates) < LargestSize -> Err("candidate capacity")
          [] \E id \in DOMAIN candidates : ~ValidCandidate(candidates[id], relations) ->
                Err("candidate fields")
          [] ~QuotasFit(policy, relations, candidates) -> Err("stratum capacity")
          [] \E t \in DOMAIN policy.targets : prefix(t) # BenchmarkSizes[t] ->
                Err("target selection count")
          [] OTHER -> Ok(selection)

-----------------------------------------------------------------------------
(* The manifest's own checks, repeated before publication.                 *)

RankOf(selection) ==
    [id \in Range(selection) |-> (CHOOSE k \in DOMAIN selection : selection[k] = id) - 1]

ValidSelectionRows(selection) ==
    /\ IsInjective(selection)
    /\ \A t \in DOMAIN BenchmarkSizes :
          LET first == IF t = 1 THEN 1 ELSE BenchmarkSizes[t - 1] + 1
          IN  \A k \in first..(BenchmarkSizes[t] - 1) :
                  SelectionKey[selection[k]] < SelectionKey[selection[k + 1]]

PrefixQuotas(selection, policy, relations, candidates) ==
    \A t \in DOMAIN policy.targets : \A cell \in DOMAIN policy.targets[t] :
        policy.targets[t][cell] =
            Cardinality({k \in 1..BenchmarkSizes[t] :
                            CellOf(candidates[selection[k]], relations, policy.strata) = cell})

\* bind_benchmark_prepared_corpus: the documents of the corpus are the prefix.
BoundCorpus(selection, size, documents) ==
    /\ Len(documents) = size
    /\ {<<documents[d].id, documents[d].body>> : d \in DOMAIN documents} =
          {<<selection[k].id, selection[k].body>> : k \in 1..size}

ValidManifest(selection, policy, relations, candidates) ==
    /\ Len(selection) = LargestSize
    /\ Cardinality(DOMAIN candidates) >= LargestSize
    /\ ValidPolicy(policy, relations)
    /\ ValidSelectionRows(selection)
    /\ PrefixQuotas(selection, policy, relations, candidates)
    /\ SelectDocuments(policy, relations, candidates) = Ok(selection)

=============================================================================
