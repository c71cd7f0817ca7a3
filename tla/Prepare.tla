------------------------------ MODULE Prepare ------------------------------
(***************************************************************************)
(* census, prepare, prepare-commands and prepare-benchmark                 *)
(* (crates/rag-builder/src/portable.rs).                                   *)
(*                                                                         *)
(* All of them scan the relations of a snapshot in waves of at most        *)
(* Workers row groups: the groups of a wave are projected in parallel and  *)
(* merged in source order.  prepare then merges its sorted document runs;  *)
(* prepare-benchmark scans twice, first for candidates and then for the    *)
(* occurrences of the selected documents.  A corpus is written in a        *)
(* private sibling directory and published by one rename; a rival process  *)
(* may create the destination at any time.                                 *)
(*                                                                         *)
(* The snapshot is admitted before the scan (its row counts are those of   *)
(* its footers), so source[r] is the sequence of row groups of relation r, *)
(* each a sequence of rows, and relation names are numbers in name order.  *)
(***************************************************************************)
EXTENDS BenchmarkSelection

CONSTANTS
    Sources,             \* the snapshots considered
    Metric,              \* ocsf_ext_livefire_system_metric
    Requests,            \* the relation lists given on the command line
    Workers,
    DocumentRunRows,     \* documents buffered before a sorted run is spilled
    DocumentShardRows,
    OccurrenceShardRows,
    MaxCandidates,       \* MAX_BENCHMARK_CANDIDATES
    Kind                 \* document kind of every body

ASSUME PrepareAssumption ==
    /\ Workers \in Nat \ {0}
    /\ DocumentRunRows \in Nat \ {0}
    /\ DocumentShardRows \in Nat \ {0}
    /\ OccurrenceShardRows \in Nat \ {0}

VARIABLES
    command,      \* "census", "prepare" or "benchmark"
    source,       \* the admitted snapshot
    requested,    \* the relation list of the command
    phase,
    relation,     \* position in the relation scope
    wave,         \* first row group of the current wave
    partials,     \* finished projections of the wave, by row group
    cursor,       \* next row group of the wave to merge
    fold,         \* what the running pass has accumulated
    heads,        \* position in every document run during the final merge
    selection,    \* the benchmark policy and the selected document ids
    result,       \* the report or the content of the corpus
    staging,      \* the private directory exists
    destination   \* "absent", "rival", or "published" (then it holds result)

vars == <<command, source, requested, phase, relation, wave, partials, cursor, fold,
          heads, selection, result, staging, destination>>

None == <<>>

Relations == DOMAIN source

\* Sorted and deduplicated; an empty list is every relation for a census.
Included ==
    IF command = "census" /\ requested = <<>>
        THEN Ascending(Relations) ELSE Ascending(Range(requested))

ScopeValid ==
    /\ Included # <<>>
    /\ Range(Included) \subseteq Relations
    /\ command # "census" => Metric \notin Range(Included)

Current == Included[relation]

\* The metric relation is classified from its schema and never read.
Groups == IF relation > Len(Included) \/ Current = Metric THEN <<>> ELSE source[Current]

RowsOf(r) == Len(FlattenSeq(source[r]))

FirstRow(r, g) == Len(FlattenSeq(SubSeq(source[r], 1, g - 1)))

Wave == wave..Smaller(wave + Workers - 1, Len(Groups))

BatchWorkers == IF Cardinality(Wave) < Workers THEN Workers ELSE 1

Ranks == RankOf(selection.ids)

-----------------------------------------------------------------------------
(* Sorted document runs: a bounded buffer spilled as sorted runs.          *)

NoRuns == [buffered |-> NoDocuments, parts |-> <<>>]

SortedRun(documents) ==
    LET ids == Ascending(DOMAIN documents)
    IN  [k \in 1..Len(ids) |-> [id |-> ids[k], accumulated |-> documents[ids[k]]]]

FlushRun(runs) ==
    IF runs.buffered = NoDocuments
        THEN runs
        ELSE [buffered |-> NoDocuments, parts |-> Append(runs.parts, SortedRun(runs.buffered))]

AddToRuns(runs, id, accumulated) ==
    LET full == Cardinality(DOMAIN runs.buffered) = DocumentRunRows
        room == IF id \notin DOMAIN runs.buffered /\ full THEN FlushRun(runs) ELSE runs
        added == AddDocument(room.buffered, id, accumulated)
    IN  IF added.ok THEN Ok([room EXCEPT !.buffered = added.value]) ELSE added

AddAllToRuns(runs, documents) ==
    TryFold(LAMBDA all, id : AddToRuns(all, id, documents[id]),
            runs, Ascending(DOMAIN documents))

-----------------------------------------------------------------------------
(* Occurrence shards: full ones as soon as there are rows, the rest at the *)
(* end of a relation.                                                      *)

FlushOccurrenceShards(state, rel, remainder) ==
    LET full == Len(state.buffer) \div OccurrenceShardRows
        cut == IF remainder THEN Len(state.buffer) ELSE full * OccurrenceShardRows
        written == Chunks(SubSeq(state.buffer, 1, cut), OccurrenceShardRows)
    IN  [state EXCEPT
            !.buffer = SubSeq(@, cut + 1, Len(@)),
            !.shards = @ \o [k \in 1..Len(written) |->
                                [relation |-> rel, part |-> state.part + k - 1,
                                 rows |-> written[k]]],
            !.part = @ + Len(written)]

NoShards == [buffer |-> <<>>, shards |-> <<>>, part |-> 0]

\* Global ordinals replace the relation-local ones in the end.
NumberShards(shards) ==
    [k \in 1..Len(shards) |-> [ordinal |-> k - 1, relation |-> shards[k].relation,
                               rows |-> shards[k].rows]]

-----------------------------------------------------------------------------
(* The four passes: what they start from, how a partial result is merged,  *)
(* and what the end of a relation adds.                                    *)

PrepareStart == [rows |-> 0, runs |-> NoRuns, out |-> NoShards,
                 searchable |-> [r \in {} |-> 0]]

MergePreparedGroup(f, partial) ==
    LET runs == AddAllToRuns(f.runs, partial.documents)
        buffered == [f.out EXCEPT !.buffer = @ \o partial.occurrences]
    IN  IF runs.ok
            THEN Ok([f EXCEPT !.rows = @ + partial.rows, !.runs = runs.value,
                              !.out = FlushOccurrenceShards(buffered, Current, FALSE)])
            ELSE runs

EndPreparedRelation(f) ==
    LET count == f.out.part * OccurrenceShardRows + Len(f.out.buffer)
        flushed == FlushOccurrenceShards(f.out, Current, TRUE)
    IN  IF f.rows # RowsOf(Current)
            THEN Err("rows do not close")
            ELSE Ok([f EXCEPT !.rows = 0, !.out = [flushed EXCEPT !.part = 0],
                              !.searchable = @ @@ (Current :> count)])

CensusStart == [part |-> EmptyCensus, documents |-> NoDocuments,
                kinds |-> [k \in Range(Kind) |-> 0], relations |-> [r \in {} |-> 0]]

CensusDocument(f, id, body) ==
    LET added == MergeCensusDocument(f.documents, id, body)
    IN  IF ~added.ok
            THEN added
            ELSE IF id \in DOMAIN f.documents
            THEN Ok(f)
            ELSE Ok([f EXCEPT !.documents = added.value, !.kinds[Kind[body]] = @ + 1])

MergeCensusGroup(f, partial) ==
    LET totals == TryFold(LAMBDA all, id : CensusDocument(all, id, partial.documents[id]),
                          f, Ascending(DOMAIN partial.documents))
        merged == MergeCensus(f.part, partial)
    IN  IF ~totals.ok
            THEN totals
            ELSE IF merged.ok THEN Ok([totals.value EXCEPT !.part = merged.value]) ELSE merged

EndCensusRelation(f) ==
    LET part == IF Current = Metric
                    THEN [EmptyCensus EXCEPT !.rows = RowsOf(Metric), !.structured = RowsOf(Metric)]
                    ELSE f.part
    IN  IF part.rows # RowsOf(Current) \/ part.rows # part.semantic + part.structured
            THEN Err("rows do not close")
            ELSE Ok([f EXCEPT !.part = EmptyCensus, !.relations = @ @@ (Current :> part)])

CandidateStart == [rows |-> 0, candidates |-> NoDocuments]

MergeCandidateGroup(f, partial) ==
    LET merged == MergeCandidates(f.candidates, partial.candidates, MaxCandidates)
    IN  IF merged.ok
            THEN Ok([rows |-> f.rows + partial.rows, candidates |-> merged.value])
            ELSE merged

EndCandidateRelation(f) ==
    IF f.rows # RowsOf(Current) THEN Err("rows do not close") ELSE Ok([f EXCEPT !.rows = 0])

Stages == DOMAIN BenchmarkSizes

\* Mutant: off by one at the end of a prefix.
InPrefix_Inclusive(rank, s) == rank <= BenchmarkSizes[s]

InPrefix(rank, s) ==
    rank < BenchmarkSizes[s]

OccurrenceStart ==
    [rows |-> 0, documents |-> NoDocuments,
     stages |-> [s \in Stages |-> [out |-> NoShards, counts |-> [r \in Range(Included) |-> 0]]]]

\* One selected occurrence goes to every corpus whose prefix holds its rank.
MergeSelectedOccurrence(f, selected) ==
    LET id == selection.ids[selected.rank + 1]
        added == AddDocument(f.documents, selected.occurrence.document,
                             Accumulator(selected.body, Current))
        stored(stage) ==
            [out |-> FlushOccurrenceShards(
                        [stage.out EXCEPT !.buffer = Append(@, selected.occurrence)],
                        Current, FALSE),
             counts |-> [stage.counts EXCEPT ![Current] = @ + 1]]
    IN  IF selected.occurrence.document # id
           \/ selected.body # selection.candidates[id].body
            THEN Err("inconsistent document")
            ELSE IF ~added.ok
            THEN added
            ELSE Ok([f EXCEPT
                        !.documents = added.value,
                        !.stages = [s \in Stages |->
                                        IF InPrefix(selected.rank, s)
                                            THEN stored(f.stages[s]) ELSE f.stages[s]]])

MergeOccurrenceGroup(f, partial) ==
    TryFold(MergeSelectedOccurrence, [f EXCEPT !.rows = @ + partial.rows], partial.selected)

EndOccurrenceRelation(f) ==
    IF f.rows # RowsOf(Current)
        THEN Err("rows do not close")
        ELSE Ok([f EXCEPT !.rows = 0,
                          !.stages = [s \in Stages |->
                            [@[s] EXCEPT !.out =
                                [FlushOccurrenceShards(@, Current, TRUE) EXCEPT !.part = 0]]]])

Project(g) ==
    LET group == Groups[g]
    IN  CASE command = "prepare" ->
                ProjectPreparedRowGroup(group, Current, FirstRow(Current, g), BatchWorkers)
          [] command = "census" -> CensusRowGroup(group, BatchWorkers)
          [] command = "benchmark" /\ selection = None ->
                CandidateRowGroup(group, Current, BatchWorkers, MaxCandidates)
          [] command = "benchmark" /\ selection # None ->
                OccurrenceRowGroup(group, Current, FirstRow(Current, g), Ranks, BatchWorkers)

Merge(f, partial) ==
    CASE command = "prepare" -> MergePreparedGroup(f, partial)
      [] command = "census" -> MergeCensusGroup(f, partial)
      [] command = "benchmark" /\ selection = None -> MergeCandidateGroup(f, partial)
      [] command = "benchmark" /\ selection # None -> MergeOccurrenceGroup(f, partial)

CloseRelation(f) ==
    CASE command = "prepare" -> EndPreparedRelation(f)
      [] command = "census" -> EndCensusRelation(f)
      [] command = "benchmark" /\ selection = None -> EndCandidateRelation(f)
      [] command = "benchmark" /\ selection # None -> EndOccurrenceRelation(f)

Start(c) == CASE c = "prepare" -> PrepareStart
              [] c = "census" -> CensusStart
              [] c = "benchmark" -> CandidateStart

-----------------------------------------------------------------------------
Init ==
    /\ command \in {"census", "prepare", "benchmark"}
    /\ source \in Sources
    /\ requested \in Requests
    /\ phase = "open"
    /\ relation = 1
    /\ wave = 1
    /\ partials = [g \in {} |-> None]
    /\ cursor = 1
    /\ fold = Start(command)
    /\ heads = None
    /\ selection = None
    /\ result = None
    /\ staging = FALSE
    /\ destination = "absent"

\* An error returns from the command; dropping AtomicDirectory removes what
\* was staged.
Fail ==
    /\ phase' = "failed"
    /\ staging' = FALSE
    /\ UNCHANGED <<command, source, requested, relation, wave, partials, cursor, fold, heads,
                   selection, result, destination>>

\* AtomicDirectory::new of prepare; census and the candidate pass stage nothing.
Open ==
    /\ phase = "open"
    /\ IF ~ScopeValid \/ (command = "prepare" /\ destination # "absent")
           THEN Fail
           ELSE /\ phase' = "scan"
                /\ staging' = (command = "prepare")
                /\ UNCHANGED <<command, source, requested, relation, wave, partials, cursor, fold,
                               heads, selection, result, destination>>

Scanning == phase = "scan" /\ relation <= Len(Included)

\* A worker of the pool finishes the projection of one group of the wave.
ProjectGroup(g) ==
    /\ Scanning
    /\ g \in Wave \ DOMAIN partials
    /\ partials' = partials @@ (g :> Project(g))
    /\ UNCHANGED <<command, source, requested, phase, relation, wave, cursor, fold, heads,
                   selection, result, staging, destination>>

WaveProjected == Wave # {} /\ Wave \subseteq DOMAIN partials

\* Mutant: results taken in the reverse of source order.
NextToMerge_Reversed == Max(Wave) + wave - cursor

\* The next group to merge: results are taken in source order.
NextToMerge ==
    cursor

MergeGroup ==
    /\ Scanning
    /\ WaveProjected
    /\ LET partial == partials[NextToMerge]
           merged == IF partial.ok THEN Merge(fold, partial.value) ELSE partial
           last == cursor = Max(Wave)
       IN  IF ~merged.ok
               THEN Fail
               ELSE /\ fold' = merged.value
                    /\ cursor' = cursor + 1
                    /\ wave' = IF last THEN cursor + 1 ELSE wave
                    /\ partials' = IF last THEN [g \in {} |-> None] ELSE partials
                    /\ UNCHANGED <<command, source, requested, phase, relation, heads, selection,
                                   result, staging, destination>>

EndRelation ==
    /\ Scanning
    /\ wave > Len(Groups)
    /\ LET closed == CloseRelation(fold)
       IN  IF ~closed.ok
               THEN Fail
               ELSE /\ fold' = closed.value
                    /\ relation' = relation + 1
                    /\ wave' = 1
                    /\ cursor' = 1
                    /\ UNCHANGED <<command, source, requested, phase, partials, heads, selection,
                                   result, staging, destination>>

Scanned == phase = "scan" /\ relation > Len(Included)

-----------------------------------------------------------------------------
(* prepare: merge of the sorted document runs.                             *)

BeginMerge ==
    /\ Scanned
    /\ command = "prepare"
    /\ IF fold.runs = NoRuns
           THEN Fail
           ELSE /\ phase' = "merge"
                /\ fold' = [fold EXCEPT !.runs = FlushRun(@)]
                /\ heads' = [p \in DOMAIN fold'.runs.parts |-> 1]
                /\ result' = <<>>
                /\ UNCHANGED <<command, source, requested, relation, wave, partials, cursor,
                               selection, staging, destination>>

Parts == fold.runs.parts

Unread(p) == heads[p] <= Len(Parts[p])

HeadRow(p) == Parts[p][heads[p]]

LeastId == Min({HeadRow(p).id : p \in {q \in DOMAIN heads : Unread(q)}})

\* Mutant: only the first run that holds the document is taken.
Holders_FirstOnly == <<Min({p \in DOMAIN heads : Unread(p) /\ HeadRow(p).id = LeastId})>>

\* The runs whose next row is the least document, in run order.
Holders ==
    Ascending({p \in DOMAIN heads : Unread(p) /\ HeadRow(p).id = LeastId})

DocumentRow(ordinal, id, accumulated) ==
    [ordinal |-> ordinal, id |-> id, body |-> accumulated.body,
     primary |-> accumulated.primary, relations |-> accumulated.relations,
     count |-> accumulated.count]

\* Pops one document from the heap with all its duplicates and visits it.
MergeNext ==
    /\ phase = "merge"
    /\ \E p \in DOMAIN heads : Unread(p)
    /\ LET holders == Holders
           merged == TryFold(LAMBDA all, p : MergeAccumulators(all, HeadRow(p).accumulated),
                             HeadRow(holders[1]).accumulated, Tail(holders))
           ordered == result = <<>> \/ Last(result).id < LeastId
       IN  IF ~merged.ok \/ ~ordered
               THEN Fail
               ELSE /\ result' = Append(result, DocumentRow(Len(result), LeastId, merged.value))
                    /\ heads' = [p \in DOMAIN heads |->
                                    IF p \in Range(holders) THEN heads[p] + 1 ELSE heads[p]]
                    /\ UNCHANGED <<command, source, requested, phase, relation, wave, partials, cursor,
                                   fold, selection, staging, destination>>

DocumentShards(documents) ==
    LET written == Chunks(documents, DocumentShardRows)
    IN  [k \in 1..Len(written) |->
            [ordinal |-> k - 1, first |-> written[k][1].id, last |-> Last(written[k]).id,
             rows |-> written[k]]]

Accounting(selected) ==
    [r \in Relations |->
        IF r \in DOMAIN selected
            THEN [source |-> RowsOf(r), selected |-> selected[r],
                  excluded |-> RowsOf(r) - selected[r]]
            ELSE [source |-> RowsOf(r), selected |-> 0, excluded |-> RowsOf(r)]]

Corpus(documents, shards, selected) ==
    [documents |-> DocumentShards(documents), occurrences |-> NumberShards(shards),
     document_count |-> Len(documents), occurrence_count |-> SumOver(selected),
     accounting |-> Accounting(selected)]

\* validate_streamed_prepared_documents / validate_prepared_documents over
\* what was written.
ValidDocuments(corpus) ==
    LET rows == FlattenSeq([k \in DOMAIN corpus.documents |-> corpus.documents[k].rows])
    IN  /\ \A k \in DOMAIN corpus.documents :
              /\ corpus.documents[k].ordinal = k - 1
              /\ corpus.documents[k].rows # <<>>
              /\ corpus.documents[k].first = corpus.documents[k].rows[1].id
              /\ corpus.documents[k].last = Last(corpus.documents[k].rows).id
        /\ \A k \in DOMAIN rows : rows[k].ordinal = k - 1
        /\ \A k \in 2..Len(rows) : rows[k - 1].id < rows[k].id
        /\ Len(rows) = corpus.document_count

\* PreparedCorpusManifest::validate: the occurrence rows and the accounting
\* close.
ValidAccounting(corpus) ==
    /\ corpus.occurrence_count = SumOver([r \in Relations |-> corpus.accounting[r].selected])
    /\ corpus.occurrence_count =
          SumOver([k \in DOMAIN corpus.occurrences |-> Len(corpus.occurrences[k].rows)])
    /\ \A r \in Relations :
          corpus.accounting[r].selected + corpus.accounting[r].excluded =
              corpus.accounting[r].source

Seal ==
    /\ phase = "merge"
    /\ \A p \in DOMAIN heads : ~Unread(p)
    /\ LET corpus == Corpus(result, fold.out.shards, fold.searchable)
       IN  IF ValidDocuments(corpus) /\ ValidAccounting(corpus)
               THEN /\ phase' = "publish"
                    /\ result' = corpus
                    /\ UNCHANGED <<command, source, requested, relation, wave, partials, cursor, fold,
                                   heads, selection, staging, destination>>
               ELSE Fail

\* publish is a rename, which refuses a destination that holds files.
Publish ==
    /\ phase = "publish"
    /\ IF destination # "absent"
           THEN Fail
           ELSE /\ phase' = "done"
                /\ destination' = "published"
                /\ staging' = FALSE
                /\ UNCHANGED <<command, source, requested, relation, wave, partials, cursor, fold,
                               heads, selection, result>>

-----------------------------------------------------------------------------
(* census: the report is printed.                                          *)

Report ==
    /\ Scanned
    /\ command = "census"
    /\ LET total(field) == SumOver([r \in DOMAIN fold.relations |-> fold.relations[r][field]])
       IN  IF total("rows") # total("semantic") + total("structured")
               THEN Fail
               ELSE /\ phase' = "done"
                    /\ result' = [rows |-> total("rows"), semantic |-> total("semantic"),
                                  structured |-> total("structured"),
                                  documents |-> Ascending(DOMAIN fold.documents),
                                  kinds |-> fold.kinds, relations |-> fold.relations]
                    /\ UNCHANGED <<command, source, requested, relation, wave, partials, cursor, fold,
                                   heads, selection, staging, destination>>

-----------------------------------------------------------------------------
(* prepare-benchmark: selection between the passes, corpora at the end.    *)

Select ==
    /\ Scanned
    /\ command = "benchmark"
    /\ selection = None
    /\ LET candidates == fold.candidates
           strata == LengthStrata(candidates)
           policy == IF strata.ok
                         THEN SelectionPolicy(candidates, Included, strata.value) ELSE strata
           ids == IF policy.ok
                      THEN SelectDocuments(policy.value, Included, candidates) ELSE policy
       IN  IF ~ids.ok \/ destination # "absent"
               THEN Fail
               ELSE /\ selection' = [policy |-> policy.value, ids |-> ids.value,
                                     candidates |-> candidates]
                    /\ fold' = OccurrenceStart
                    /\ relation' = 1
                    /\ staging' = TRUE
                    /\ UNCHANGED <<command, source, requested, phase, wave, partials, cursor, heads,
                                   result, destination>>

StageDocuments(s) ==
    LET ids == Ascending({id \in DOMAIN fold.documents :
                            Ranks[id] < BenchmarkSizes[s]})
    IN  [k \in 1..Len(ids) |-> DocumentRow(k - 1, ids[k], fold.documents[ids[k]])]

StageCorpus(s) ==
    Corpus(StageDocuments(s), fold.stages[s].out.shards, fold.stages[s].counts)

SelectedRows == [k \in DOMAIN selection.ids |->
                    [id |-> selection.ids[k], body |-> selection.candidates[selection.ids[k]].body]]

WriteCorpora ==
    /\ Scanned
    /\ command = "benchmark"
    /\ selection # None
    /\ LET corpora == [s \in Stages |-> StageCorpus(s)]
           valid ==
              /\ Cardinality(DOMAIN fold.documents) = LargestSize
              /\ \A s \in Stages :
                    /\ ValidDocuments(corpora[s])
                    /\ ValidAccounting(corpora[s])
                    /\ BoundCorpus(SelectedRows, BenchmarkSizes[s], StageDocuments(s))
              /\ ValidManifest(selection.ids, selection.policy, Included, selection.candidates)
       IN  IF valid
               THEN /\ phase' = "publish"
                    /\ result' = corpora
                    /\ UNCHANGED <<command, source, requested, relation, wave, partials, cursor, fold,
                                   heads, selection, staging, destination>>
               ELSE Fail

Rival ==
    /\ command # "census"
    /\ phase \notin {"done", "failed"}
    /\ destination = "absent"
    /\ destination' = "rival"
    /\ UNCHANGED <<command, source, requested, phase, relation, wave, partials, cursor, fold, heads,
                   selection, result, staging>>

Ended == phase \in {"done", "failed"} /\ UNCHANGED vars

Step ==
    \/ Open
    \/ phase = "scan" /\ \E g \in Wave : ProjectGroup(g)
    \/ MergeGroup
    \/ EndRelation
    \/ BeginMerge
    \/ MergeNext
    \/ Seal
    \/ Publish
    \/ Report
    \/ Select
    \/ WriteCorpora

Next == Step \/ Rival \/ Ended

Spec == Init /\ [][Next]_vars /\ WF_vars(Step)

-----------------------------------------------------------------------------
(* What the commands must produce, stated over the whole source at once.   *)

\* Every row of the scope in source order, with where it lies.
ScopeRows(scope) ==
    FlattenSeq([i \in 1..Len(scope) |->
        LET rows == FlattenSeq(source[scope[i]])
        IN  [k \in 1..Len(rows) |-> [row |-> rows[k], relation |-> scope[i], at |-> k - 1]]])

Read == SelectSeq(ScopeRows(Included), LAMBDA x : x.relation # Metric)

Searchable == SelectSeq(Read, LAMBDA x : x.row.outcome = "document")

Hits(id) == {k \in DOMAIN Searchable : Searchable[k].row.id = id}

SearchableIds == {Searchable[k].row.id : k \in DOMAIN Searchable}

Coherent ==
    /\ \A k \in DOMAIN Read : Read[k].row.outcome # "invalid"
    /\ \A id \in SearchableIds :
          Cardinality({Searchable[k].row.body : k \in Hits(id)}) = 1

ExpectedRow(ordinal, id) ==
    LET relations == {Searchable[k].relation : k \in Hits(id)}
    IN  [ordinal |-> ordinal, id |-> id, body |-> Searchable[Min(Hits(id))].row.body,
         primary |-> Min(relations), relations |-> relations, count |-> Cardinality(Hits(id))]

ExpectedDocuments(ids) == [k \in 1..Cardinality(ids) |-> ExpectedRow(k - 1, Ascending(ids)[k])]

ExpectedOccurrences(ids) ==
    LET kept == SelectSeq(Searchable, LAMBDA x : x.row.id \in ids)
    IN  [k \in 1..Len(kept) |-> Occurrence(kept[k].row.id, kept[k].relation, kept[k].at)]

CorpusOf(corpus, ids) ==
    /\ FlattenSeq([k \in DOMAIN corpus.documents |-> corpus.documents[k].rows]) =
          ExpectedDocuments(ids)
    /\ FlattenSeq([k \in DOMAIN corpus.occurrences |-> corpus.occurrences[k].rows]) =
          ExpectedOccurrences(ids)
    /\ \A k \in DOMAIN corpus.occurrences :
          \A o \in Range(corpus.occurrences[k].rows) : o.relation = corpus.occurrences[k].relation
    /\ corpus.occurrence_count = Len(ExpectedOccurrences(ids))

\* A published prepared corpus is the corpus of the whole source: every
\* document once, in id order, with the count, relations and primary relation
\* of all its occurrences wherever row groups, batch ranges and spilled runs
\* cut it, and the occurrences in source order; a source with a contradiction
\* is never published.
PreparedExact ==
    command = "prepare" /\ destination = "published" =>
        Coherent /\ CorpusOf(result, SearchableIds)

\* A census report counts what preparation of the same rows finds, whatever
\* the order in which workers finish.
CensusExact ==
    command = "census" /\ phase = "done" =>
        /\ Coherent
        /\ result.rows = Len(ScopeRows(Included))
        /\ result.semantic = Len(Searchable)
        /\ result.documents = Ascending(SearchableIds)
        /\ \A k \in DOMAIN result.kinds :
              result.kinds[k] = Cardinality({id \in SearchableIds :
                                    Kind[Searchable[Min(Hits(id))].row.body] = k})
        /\ \A r \in Range(Included) :
              DOMAIN result.relations[r].documents =
                  {Searchable[k].row.id : k \in {j \in DOMAIN Searchable : Searchable[j].relation = r}}

\* The published benchmark corpora are nested, each is exactly the corpus of
\* its prefix of the selection with every occurrence of the selected
\* documents, and a longest document is in the largest one.
BenchmarkExact ==
    command = "benchmark" /\ destination = "published" =>
        LET members(s) == {selection.ids[k] : k \in 1..BenchmarkSizes[s]}
            size(id) == Bytes[Searchable[Min(Hits(id))].row.body]
        IN  /\ Coherent
            /\ \A s \in Stages :
                  /\ Cardinality(members(s)) = BenchmarkSizes[s]
                  /\ CorpusOf(result[s], members(s))
            /\ \E id \in members(Len(BenchmarkSizes)) :
                  \A other \in SearchableIds : size(id) >= size(other)

\* A command is refused only for a reason in its input: the checks a command
\* repeats on what it wrote itself never reject a sound source.
RefusedForCause ==
    phase = "failed" =>
        \/ destination = "rival"
        \/ ~ScopeValid
        \/ ~Coherent
        \/ command = "prepare" /\ SearchableIds = {}
        \/ /\ command = "benchmark"
           /\ \/ Cardinality(SearchableIds) \notin LargestSize..MaxCandidates
              \/ \E id \in SearchableIds : Bytes[Searchable[Min(Hits(id))].row.body] = 0

=============================================================================
