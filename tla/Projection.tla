----------------------------- MODULE Projection -----------------------------
(***************************************************************************)
(* What one admitted row group of a snapshot projects to, and how partial  *)
(* results are joined: the pure half of census, prepare and                *)
(* prepare-benchmark (crates/rag-builder/src/portable.rs).                 *)
(*                                                                         *)
(* A source row is abstracted to the outcome its projection has:           *)
(*   "structured"  no semantic document (or not a command, for M45),       *)
(*   "invalid"     the projection, the digest or the event time fails,     *)
(*   "document"    a document id and a body; the body stands for the       *)
(*                 digest, text and facets the code compares together.     *)
(* A fallible computation returns Ok(value) or Err(reason) (Common).       *)
(***************************************************************************)
EXTENDS Common

CONSTANTS
    BatchRows,              \* rows of one decoded Arrow batch
    MinParallelBatchRows,   \* MIN_PARALLEL_BATCH_ROWS
    MinBatchRangeRows       \* MIN_BATCH_RANGE_ROWS

ASSUME ProjectionAssumption ==
    /\ BatchRows \in Nat \ {0}
    /\ MinParallelBatchRows \in Nat
    /\ MinBatchRangeRows \in Nat \ {0}

-----------------------------------------------------------------------------
(* The row ranges of a batch are projected in parallel and merged in       *)
(* source order.  Projections are pure, so the first error in source order *)
(* is the one returned whatever the schedule was.                          *)

RangeRows(rows, workers) ==
    IF workers > 1 /\ rows >= MinParallelBatchRows
        THEN Larger(CeilDiv(rows, 2 * workers), MinBatchRangeRows)
        ELSE rows

\* A range is its offset in the row group and its rows.
BatchRanges(rows, offset, workers) ==
    LET size == RangeRows(Len(rows), workers)
    IN  [k \in 1..Len(Chunks(rows, size)) |->
            [offset |-> offset + (k - 1) * size, rows |-> Chunks(rows, size)[k]]]

\* Ranges of every batch of a row group, in source order.
GroupRanges(group, workers) ==
    LET batches == Chunks(group, BatchRows)
    IN  FlattenSeq([b \in 1..Len(batches) |->
                        BatchRanges(batches[b], (b - 1) * BatchRows, workers)])

\* map_batch_ranges_in_source_order: every range is projected, and what the
\* ranges give is merged up to the first error of either.
MapRanges(Project(_), Merge(_, _), base, group, workers) ==
    TryFold(LAMBDA total, range :
                LET partial == Project(range)
                IN  IF partial.ok THEN Merge(total, partial.value) ELSE partial,
            base, GroupRanges(group, workers))

-----------------------------------------------------------------------------
(* Document accumulators.                                                  *)

Accumulator(body, relation) ==
    [body |-> body, count |-> 1, primary |-> relation, relations |-> {relation}]

MergeAccumulators(existing, other) ==
    IF existing.body # other.body
        THEN Err("inconsistent document")
        ELSE Ok([existing EXCEPT !.count = @ + other.count,
                                 !.primary = Smaller(@, other.primary),
                                 !.relations = @ \union other.relations])

AddDocument(documents, id, accumulated) ==
    IF id \notin DOMAIN documents
        THEN Ok(documents @@ (id :> accumulated))
        ELSE LET merged == MergeAccumulators(documents[id], accumulated)
             IN  IF merged.ok THEN Ok([documents EXCEPT ![id] = merged.value]) ELSE merged

MergeDocuments(documents, partial) ==
    TryFold(LAMBDA all, id : AddDocument(all, id, partial[id]),
            documents, Ascending(DOMAIN partial))

-----------------------------------------------------------------------------
(* prepare: documents and occurrences of a row group.                      *)

NoDocuments == [id \in {} |-> 0]

EmptyPrepared == [rows |-> 0, documents |-> NoDocuments, occurrences |-> <<>>]

Occurrence(id, relation, sourceRow) ==
    [document |-> id, relation |-> relation, source_row |-> sourceRow]

ProjectPreparedRow(partial, row, relation, firstRow) ==
    LET counted == [partial EXCEPT !.rows = @ + 1]
        added == AddDocument(partial.documents, row.id, Accumulator(row.body, relation))
    IN  CASE row.outcome = "invalid" -> Err("projection")
          [] row.outcome = "structured" -> Ok(counted)
          [] row.outcome = "document" /\ ~added.ok -> added
          [] row.outcome = "document" /\ added.ok ->
                Ok([counted EXCEPT
                        !.documents = added.value,
                        !.occurrences = Append(@, Occurrence(row.id, relation,
                                                             firstRow + partial.rows))])

MergePreparedProjection(total, partial) ==
    LET documents == MergeDocuments(total.documents, partial.documents)
    IN  IF documents.ok
            THEN Ok([rows |-> total.rows + partial.rows,
                     documents |-> documents.value,
                     occurrences |-> total.occurrences \o partial.occurrences])
            ELSE documents

ProjectPreparedRowGroup(group, relation, firstRow, workers) ==
    MapRanges(LAMBDA range :
                  TryFold(LAMBDA partial, row :
                              ProjectPreparedRow(partial, row, relation, firstRow + range.offset),
                          EmptyPrepared, range.rows),
              MergePreparedProjection, EmptyPrepared, group, workers)

-----------------------------------------------------------------------------
(* census: counts and document digests of a row group.                     *)

EmptyCensus == [rows |-> 0, semantic |-> 0, structured |-> 0, documents |-> NoDocuments]

\* Mutant: a document that returns with another body is taken as it is.
MergeCensusDocument_Unchecked(documents, id, body) == Ok(documents @@ (id :> body))

MergeCensusDocument(documents, id, body) ==
    IF id \in DOMAIN documents /\ documents[id] # body
        THEN Err("inconsistent document")
        ELSE Ok(documents @@ (id :> body))

MergeCensusDocuments(documents, partial) ==
    TryFold(LAMBDA all, id : MergeCensusDocument(all, id, partial[id]),
            documents, Ascending(DOMAIN partial))

CensusRow(partial, row) ==
    LET counted == [partial EXCEPT !.rows = @ + 1]
        added == MergeCensusDocument(partial.documents, row.id, row.body)
    IN  CASE row.outcome = "invalid" -> Err("projection")
          [] row.outcome = "structured" -> Ok([counted EXCEPT !.structured = @ + 1])
          [] row.outcome = "document" /\ ~added.ok -> added
          [] row.outcome = "document" /\ added.ok ->
                Ok([counted EXCEPT !.semantic = @ + 1, !.documents = added.value])

MergeCensus(total, partial) ==
    LET documents == MergeCensusDocuments(total.documents, partial.documents)
    IN  IF partial.rows # partial.semantic + partial.structured
            THEN Err("rows do not close")
            ELSE IF ~documents.ok
            THEN documents
            ELSE Ok([rows |-> total.rows + partial.rows,
                     semantic |-> total.semantic + partial.semantic,
                     structured |-> total.structured + partial.structured,
                     documents |-> documents.value])

CensusRowGroup(group, workers) ==
    MapRanges(LAMBDA range : TryFold(CensusRow, EmptyCensus, range.rows),
              MergeCensus, EmptyCensus, group, workers)

-----------------------------------------------------------------------------
(* prepare-benchmark: candidates in the first pass, selected occurrences   *)
(* in the second.                                                          *)

EmptyCandidates == [rows |-> 0, candidates |-> NoDocuments]

MergeCandidate(candidates, id, candidate, limit) ==
    CASE id \in DOMAIN candidates /\ candidates[id].body # candidate.body ->
            Err("inconsistent document")
      [] id \in DOMAIN candidates /\ candidates[id].body = candidate.body -> Ok(candidates)
      [] id \notin DOMAIN candidates /\ Cardinality(DOMAIN candidates) >= limit ->
            Err("candidate limit")
      [] OTHER -> Ok(candidates @@ (id :> candidate))

MergeCandidates(candidates, partial, limit) ==
    TryFold(LAMBDA all, id : MergeCandidate(all, id, partial[id], limit),
            candidates, Ascending(DOMAIN partial))

CandidateRow(partial, row, relation, limit) ==
    LET counted == [partial EXCEPT !.rows = @ + 1]
        added == MergeCandidate(partial.candidates, row.id,
                                [body |-> row.body, primary |-> relation], limit)
    IN  CASE row.outcome = "invalid" -> Err("projection")
          [] row.outcome = "structured" -> Ok(counted)
          [] row.outcome = "document" /\ ~added.ok -> added
          [] row.outcome = "document" /\ added.ok ->
                Ok([counted EXCEPT !.candidates = added.value])

CandidateRowGroup(group, relation, workers, limit) ==
    MapRanges(LAMBDA range :
                  TryFold(LAMBDA partial, row : CandidateRow(partial, row, relation, limit),
                          EmptyCandidates, range.rows),
              LAMBDA total, partial :
                  LET merged == MergeCandidates(total.candidates, partial.candidates, limit)
                  IN  IF merged.ok
                          THEN Ok([rows |-> total.rows + partial.rows,
                                   candidates |-> merged.value])
                          ELSE merged,
              EmptyCandidates, group, workers)

EmptySelected == [rows |-> 0, selected |-> <<>>]

\* ranks is the selection rank of every selected document.
SelectedRow(partial, row, relation, firstRow, ranks) ==
    LET counted == [partial EXCEPT !.rows = @ + 1]
    IN  CASE row.outcome = "invalid" -> Err("projection")
          [] row.outcome = "structured" -> Ok(counted)
          [] row.outcome = "document" /\ row.id \notin DOMAIN ranks -> Ok(counted)
          [] row.outcome = "document" /\ row.id \in DOMAIN ranks ->
                Ok([counted EXCEPT !.selected =
                        Append(@, [rank |-> ranks[row.id], body |-> row.body,
                                   occurrence |-> Occurrence(row.id, relation,
                                                             firstRow + partial.rows)])])

OccurrenceRowGroup(group, relation, firstRow, ranks, workers) ==
    MapRanges(LAMBDA range :
                  TryFold(LAMBDA partial, row :
                              SelectedRow(partial, row, relation, firstRow + range.offset, ranks),
                          EmptySelected, range.rows),
              LAMBDA total, partial :
                  Ok([rows |-> total.rows + partial.rows,
                      selected |-> total.selected \o partial.selected]),
              EmptySelected, group, workers)

=============================================================================
