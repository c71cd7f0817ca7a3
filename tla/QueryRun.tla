------------------------------ MODULE QueryRun ------------------------------
(***************************************************************************)
(* Queries over a catalogue and over one index (rag-builder/src/           *)
(* catalogue.rs and main.rs): single searches, the batch run that answers  *)
(* a file of requests and publishes a directory, benchmarks and overlap    *)
(* reports.                                                                *)
(*                                                                         *)
(* Artifacts may be replaced between commands, the requests file may be    *)
(* edited at any time, the embedding service may fail or answer another    *)
(* vector each time, and a batch run may be killed.  The search inside     *)
(* one index is a parameter: FastIndex models it.                          *)
(***************************************************************************)
EXTENDS Catalogue, SealedVectors

CONSTANTS
    SearchIndex(_, _, _, _, _, _, _),
        \* the documents an index returns for a mode, a query, a vector,
        \* relations, top_n and excluded documents, best first
    ModelAnswers(_),     \* what the embedding service may answer to a composed query
    Original,            \* path -> the artifact first found there
    Menus,               \* name -> what may happen in one behaviour:
                         \*   variants: path -> the artifacts that may be put there
                         \*   foreign: catalogue files made elsewhere
                         \*   files: what the requests file may hold
                         \*   sets: [of, profile, model, vectors], the profile and the
                         \*     execution that sealed vectors come from
                         \*   and the options of every command
    MaxChanges,          \* bound: artifacts replaced
    MaxEdits,            \* bound: edits of the requests file
    MaxRequests          \* MAX_BATCH_QUERY_REQUESTS

ASSUME QueryRunAssumption ==
    /\ {MaxChanges, MaxEdits, MaxRequests} \subseteq Nat
    /\ \A path \in DOMAIN Original : ArtifactParsed(Original[path])
    /\ \A name \in DOMAIN Menus :
          /\ \A path \in DOMAIN Menus[name].variants :
                \A artifact \in Menus[name].variants[path] : ArtifactParsed(artifact)
          /\ \A file \in Menus[name].foreign : CatalogueParsed(file)
          /\ \A options \in Menus[name].builds :
                /\ Len(options.datasets) \in Nat
                /\ \A k \in 1..Len(options.datasets), r \in Roles :
                      options.datasets[k][r] \in DOMAIN Original

VARIABLES
    menu,        \* the name of this behaviour's menu
    disk,        \* path -> artifact
    catalogue,   \* the catalogue file
    requests,    \* the requests file, a sequence of requests
    sealed,      \* the sealed query-vector set
    job,         \* the command in progress
    run,         \* the published batch run
    reply,       \* what the last command printed
    changes, edits

vars == << menu, disk, catalogue, requests, sealed, job, run, reply, changes, edits >>

Nothing == [kind |-> "nothing"]

Idle == job = Nothing /\ reply = Nothing

RankMergeK == 60

-----------------------------------------------------------------------------
(* One query: its vector, and the ranked hits of every index merged.       *)

\* The vector of a composed query, from the service's answer.
EmbedQuery(profile, answer) ==
    IF answer.ok /\ answer.model = profile.model /\ Len(answer.vectors) = 1
    THEN AdaptModelVector(profile, answer.vectors[1])
    ELSE Err("embedding")

ReciprocalRankScore(rank) == 1000000 \div (RankMergeK + rank)

\* Mutant: equal ranks are left in the order of the catalogue.
RankCatalogueHits_Position(hits, topN) ==
    LET kept == SubSeq(SortSeq(hits, LAMBDA a, b : a.score > b.score), 1, Smaller(topN, Len(hits)))
    IN  [k \in DOMAIN kept |-> [rank |-> k] @@ kept[k]]

RankCatalogueHits(hits, topN) ==
    LET Before(a, b) ==
            \/ a.score > b.score
            \/ a.score = b.score /\ a.sha < b.sha
            \/ a.score = b.score /\ a.sha = b.sha /\ a.document < b.document
        kept == SubSeq(SortSeq(hits, Before), 1, Smaller(topN, Len(hits)))
    IN  [k \in DOMAIN kept |-> [rank |-> k] @@ kept[k]]

\* found[k]: what the k-th index returned
MergeHits(admitted, found, topN) ==
    LET HitsOf(k) ==
            LET entry == admitted.catalogue.datasets[k]
            IN  [r \in DOMAIN found[k] |->
                    [dataset |-> entry.dataset.id, sha |-> entry.sha, index |-> entry.ids["index"],
                     index_rank |-> r, score |-> ReciprocalRankScore(r), document |-> found[k][r]]]
    IN  RankCatalogueHits(
            Loop(LAMBDA hits, k : hits \o HitsOf(k), <<>>, [k \in DOMAIN found |-> k]), topN)

SearchAdmittedCatalogue(admitted, request, vector) ==
    MergeHits(admitted,
        [k \in DOMAIN admitted.indexes |->
            SearchIndex(admitted.indexes[k], request.mode, request.query, vector,
                        Range(request.relations), request.topN, {})],
        request.topN)

\* The seed is excluded in its own dataset only, before the indexes cut.
SimilarAdmittedCatalogue(admitted, options) ==
    LET datasets == admitted.catalogue.datasets
        seeds == {k \in DOMAIN datasets : datasets[k].dataset.id = options.dataset}
        seed == CHOOSE k \in seeds : TRUE
        rows == admitted.indexes[seed].rows
        Excluded(k) ==
            IF options.exclude /\ datasets[k].sha = datasets[seed].sha
            THEN {options.document} ELSE {}
    IN  IF seeds # {} /\ options.document \in DOMAIN rows
        THEN Ok(MergeHits(admitted,
                [k \in DOMAIN admitted.indexes |->
                    SearchIndex(admitted.indexes[k], "dense", "", rows[options.document].vector,
                                Range(options.relations), options.topN, Excluded(k))],
                options.topN))
        ELSE Err("seed")

\* validate_catalogue_search_options
OptionsValid(options) ==
    /\ options.topN \in 1..MaxTopN
    /\ options.workers > 0

\* require_search_permission
Permitted(admitted, allowTestOnly) ==
    admitted.catalogue.mode = "test_only" => allowTestOnly

ProfileOf(admitted) == admitted.indexes[1].profile

Hits(kind, question, indexes, vector, hits) ==
    [kind |-> kind, question |-> question, indexes |-> indexes, vector |-> vector, hits |-> hits]

-----------------------------------------------------------------------------
(* Commands on catalogues.  A refused command prints an error and changes  *)
(* nothing; that is a stuttering step, and left out.                       *)

\* catalogue build: the file is written, replacing an earlier one, before
\* it is admitted.
Build(options) ==
    /\ Idle
    /\ BuildCatalogue(options, disk).ok
    /\ catalogue' = BuildCatalogue(options, disk).value
    /\ job' = [kind |-> "built"]
    /\ UNCHANGED << menu, disk, requests, sealed, run, reply, changes, edits >>

AdmitBuilt ==
    /\ job.kind = "built"
    /\ job' = Nothing
    /\ reply' = IF AdmitCatalogue(catalogue, disk).ok
                THEN [kind |-> "admitted", admitted |-> AdmitCatalogue(catalogue, disk).value]
                ELSE Nothing
    /\ UNCHANGED << menu, disk, catalogue, requests, sealed, run, changes, edits >>

ValidateCatalogue ==
    /\ Idle /\ catalogue # Nothing
    /\ AdmitCatalogue(catalogue, disk).ok
    /\ reply' = [kind |-> "admitted", admitted |-> AdmitCatalogue(catalogue, disk).value]
    /\ UNCHANGED << menu, disk, catalogue, requests, sealed, job, run, changes, edits >>

\* options: [request, workers, allow]
SearchCatalogue(options) ==
    /\ Idle /\ catalogue # Nothing
    /\ LET admission == AdmitCatalogueForQuery(catalogue, disk)
           admitted == admission.value
           request == options.request
       IN  /\ admission.ok
           /\ Permitted(admitted, options.allow)
           /\ OptionsValid([topN |-> request.topN, workers |-> options.workers])
           /\ \E answer \in IF Semantic(request)
                            THEN ModelAnswers(TryComposeQuery(ProfileOf(admitted), request.query))
                            ELSE {[ok |-> TRUE, model |-> ProfileOf(admitted).model, vectors |-> << <<>> >>]} :
                LET vector == IF Semantic(request) THEN EmbedQuery(ProfileOf(admitted), answer)
                              ELSE Ok(<<>>)
                IN  /\ vector.ok
                    /\ reply' = Hits("search", options, admitted, vector.value,
                                     SearchAdmittedCatalogue(admitted, request, vector.value))
    /\ UNCHANGED << menu, disk, catalogue, requests, sealed, job, run, changes, edits >>

\* options: [dataset, document, topN, relations, exclude, workers, allow]
SimilarCatalogue(options) ==
    /\ Idle /\ catalogue # Nothing
    /\ LET admission == AdmitCatalogueForQuery(catalogue, disk)
           admitted == admission.value
       IN  /\ admission.ok
           /\ Permitted(admitted, options.allow)
           /\ OptionsValid(options)
           /\ SimilarAdmittedCatalogue(admitted, options).ok
           /\ reply' = Hits("similar", options, admitted, <<>>,
                            SimilarAdmittedCatalogue(admitted, options).value)
    /\ UNCHANGED << menu, disk, catalogue, requests, sealed, job, run, changes, edits >>

-----------------------------------------------------------------------------
(* Sealed query vectors, written for the requests file as it is.           *)

WriteSealed(execution) ==
    /\ Idle /\ sealed = Nothing
    /\ LET profile == execution.of
           planned == UniqueQueries(requests)
       IN  \E answers \in [1..Len(planned) -> execution.vectors] :
            LET inputs == [k \in DOMAIN planned |->
                    [id |-> planned[k].id, query |-> planned[k].query,
                     composed |-> TryComposeQuery(profile, planned[k].query),
                     vector |-> answers[k]]]
                set == WriteQueryVectorSet(requests, execution, profile, inputs)
            IN  set.ok /\ sealed' = set.value
    /\ UNCHANGED << menu, disk, catalogue, requests, job, run, reply, changes, edits >>

-----------------------------------------------------------------------------
(* catalogue batch-search                                                  *)

\* What every reader of a batch file asks of it.
BatchPlanValid(plan) ==
    /\ plan # <<>> /\ Len(plan) <= MaxRequests
    /\ \A k \in DOMAIN plan : RowValid(plan[k])
    /\ \A k, l \in DOMAIN plan : k # l /\ plan[k].id = plan[l].id =>
          /\ plan[k].mode # plan[l].mode
          /\ plan[k].query = plan[l].query
          /\ plan[k].topN = plan[l].topN
          /\ plan[k].relations = plan[l].relations

AnySemantic(plan) == \E k \in DOMAIN plan : Semantic(plan[k])

\* options: [endpoint, set, workers, allow]; the file is read once, here.
ReadPlan(options) ==
    /\ Idle /\ catalogue # Nothing
    /\ BatchPlanValid(requests)
    /\ job' = [kind |-> "batch", pc |-> "admit", options |-> options, plan |-> requests]
    /\ UNCHANGED << menu, disk, catalogue, requests, sealed, run, reply, changes, edits >>

Fail ==
    /\ job' = Nothing
    /\ UNCHANGED run

\* Exactly one source of vectors when a request needs one, else none.
SourceGiven(options, plan) ==
    IF AnySemantic(plan) THEN options.endpoint # options.set
    ELSE ~ options.endpoint /\ ~ options.set

AdmitBatch ==
    /\ job.kind = "batch" /\ job.pc = "admit"
    /\ LET admission == AdmitCatalogueForQuery(catalogue, disk)
       IN  IF /\ admission.ok
              /\ SourceGiven(job.options, job.plan)
              /\ job.options.set =>
                    sealed # Nothing /\ OpenSealed(sealed, ProfileOf(admission.value), requests)
           THEN /\ job' = [kind |-> "batch", pc |-> "stage", options |-> job.options,
                            plan |-> job.plan, admitted |-> admission.value,
                            set |-> IF job.options.set THEN sealed ELSE Nothing]
                /\ UNCHANGED run
           ELSE Fail
    /\ UNCHANGED << menu, disk, catalogue, requests, sealed, reply, changes, edits >>

ValidateBatchRequests(admitted, plan) ==
    /\ BatchPlanValid(plan)
    /\ \A k \in DOMAIN plan :
          Range(plan[k].relations) \subseteq Relations(admitted.catalogue.datasets)

\* The file must still be the one that was read; the run must be new.
Stage ==
    /\ job.kind = "batch" /\ job.pc = "stage"
    /\ IF /\ Permitted(job.admitted, job.options.allow)
          /\ ValidateBatchRequests(job.admitted, job.plan)
          /\ requests = job.plan
          /\ job.options.workers > 0
          /\ run = Nothing
       THEN job' = [job EXCEPT !.pc = "copy"] /\ UNCHANGED run
       ELSE Fail
    /\ UNCHANGED << menu, disk, catalogue, requests, sealed, reply, changes, edits >>

CopyRequests ==
    /\ job.kind = "batch" /\ job.pc = "copy"
    /\ job' = [kind |-> "batch", pc |-> "answer", options |-> job.options, plan |-> job.plan,
                admitted |-> job.admitted, set |-> job.set, copied |-> requests,
                cache |-> << >>, calls |-> 0, model |-> "", results |-> <<>>]
    /\ UNCHANGED << menu, disk, catalogue, requests, sealed, run, reply, changes, edits >>

ResultLine(request, hits) ==
    [request |-> request, catalogue |-> job.admitted.catalogue, hits |-> hits]

Answered(request, vector) ==
    Append(job.results, ResultLine(request, SearchAdmittedCatalogue(job.admitted, request, vector)))

NextRequest == job.plan[Len(job.results) + 1]

Answering == job.kind = "batch" /\ job.pc = "answer" /\ Len(job.results) < Len(job.plan)

AnswerLexical ==
    /\ Answering /\ ~ Semantic(NextRequest)
    /\ job' = [job EXCEPT !.results = Answered(NextRequest, <<>>)]
    /\ UNCHANGED << menu, disk, catalogue, requests, sealed, run, reply, changes, edits >>

Composed(request) == TryComposeQuery(ProfileOf(job.admitted), request.query)

\* Two sealed ids of one composed query must have one vector.
AnswerSealed ==
    /\ Answering /\ Semantic(NextRequest) /\ job.set # Nothing
    /\ LET key == Composed(NextRequest)
           vector == VectorForRequest(job.set, NextRequest, key)
       IN  IF vector.ok /\ (key \in DOMAIN job.cache => job.cache[key] = vector.value)
           THEN /\ job' = [job EXCEPT
                        !.cache = (key :> vector.value) @@ @,
                        !.model = job.set.manifest.model,
                        !.results = Answered(NextRequest, vector.value)]
                /\ UNCHANGED run
           ELSE Fail
    /\ UNCHANGED << menu, disk, catalogue, requests, sealed, reply, changes, edits >>

\* A composed query is embedded once, whatever ids ask for it.
AnswerEndpoint ==
    /\ Answering /\ Semantic(NextRequest) /\ job.set = Nothing
    /\ LET key == Composed(NextRequest)
       IN  IF key \in DOMAIN job.cache
           THEN /\ job' = [job EXCEPT !.results = Answered(NextRequest, job.cache[key])]
                /\ UNCHANGED run
           ELSE \E answer \in ModelAnswers(key) :
                LET vector == EmbedQuery(ProfileOf(job.admitted), answer)
                IN  IF vector.ok
                    THEN /\ job' = [job EXCEPT
                                !.cache = (key :> vector.value) @@ @,
                                !.calls = @ + 1,
                                !.model = answer.model,
                                !.results = Answered(NextRequest, vector.value)]
                         /\ UNCHANGED run
                    ELSE Fail
    /\ UNCHANGED << menu, disk, catalogue, requests, sealed, reply, changes, edits >>

Shape(request) == << request.mode, request.topN, request.relations >>

BatchManifest ==
    LET shapes == {Shape(r) : r \in Range(job.plan)}
    IN  [profile |-> job.admitted.catalogue.profile,
         request_count |-> Len(job.plan), result_count |-> Len(job.results),
         modes |-> {r.mode : r \in Range(job.plan)},
         top_n |-> {r.topN : r \in Range(job.plan)},
         filters |-> {r.relations : r \in Range(job.plan)},
         shapes |-> [s \in shapes |-> Cardinality({k \in DOMAIN job.plan : Shape(job.plan[k]) = s})],
         status |-> IF job.set # Nothing /\ DOMAIN job.cache # {} THEN "sealed_query_vector_set"
                    ELSE IF job.calls = 0 THEN "not_used_all_lexical" ELSE "used",
         configured |-> ProfileOf(job.admitted).model,
         returned |-> job.model, calls |-> job.calls, set |-> job.set # Nothing,
         vectors |-> job.cache]

ValidateBatchManifest(manifest) ==
    LET semantic == manifest.modes \cap {"dense", "fused"} # {}
        endpoint == /\ manifest.status = "used" /\ ~ manifest.set
                    /\ manifest.calls = Cardinality(DOMAIN manifest.vectors) /\ manifest.calls > 0
        fromSet == /\ manifest.status = "sealed_query_vector_set" /\ manifest.set
                   /\ manifest.calls = 0 /\ DOMAIN manifest.vectors # {}
    IN  /\ manifest.request_count > 0
        /\ manifest.request_count = manifest.result_count
        /\ SumOf(MapSeq(LAMBDA s : manifest.shapes[s], SetToSeq(DOMAIN manifest.shapes)))
              = manifest.request_count
        /\ semantic = ((endpoint \/ fromSet) /\ manifest.returned = manifest.configured)
        /\ ~ semantic =>
              /\ manifest.status = "not_used_all_lexical" /\ ~ manifest.set
              /\ manifest.calls = 0 /\ manifest.returned = "" /\ DOMAIN manifest.vectors = {}

\* Mutant: the rows of the copy are counted, its digest is not compared.
CopiedAsRead_Rows == Len(job.copied) = Len(job.plan)

\* The copy must be the file that was validated.
CopiedAsRead ==
    job.copied = job.plan

Publish ==
    /\ job.kind = "batch" /\ job.pc = "answer" /\ Len(job.results) = Len(job.plan)
    /\ IF CopiedAsRead /\ ValidateBatchManifest(BatchManifest)
       THEN /\ run' = [kind |-> "run", requests |-> job.copied, results |-> job.results,
                       manifest |-> BatchManifest, admitted |-> job.admitted,
                       allow |-> job.options.allow]
            /\ job' = Nothing
       ELSE Fail
    /\ UNCHANGED << menu, disk, catalogue, requests, sealed, reply, changes, edits >>

\* The staging directory of a killed run stays under its own name.
Kill ==
    /\ job # Nothing
    /\ Fail
    /\ UNCHANGED << menu, disk, catalogue, requests, sealed, reply, changes, edits >>

-----------------------------------------------------------------------------
(* Commands on one index.                                                  *)

Search(index, request, vector) ==
    SearchIndex(index, request.mode, request.query, vector, Range(request.relations), request.topN, {})

\* query: [path, request, endpoint, set, timed]; an id comes with a set.
QueryIndex(query) ==
    /\ Idle
    /\ LET index == disk[query.path]
           request == query.request
           composed == TryComposeQuery(index.profile, request.query)
       IN  /\ OpenIndex(index, FALSE)
           /\ Semantic(request) = (query.endpoint # query.set)
           /\ query.set => ~ query.timed
           /\ \E vector \in
                   IF query.set
                   THEN {IF sealed # Nothing /\ OpenSealed(sealed, index.profile, sealed.manifest.plan)
                         THEN VectorForRequest(sealed, request, composed) ELSE Err("sealed")}
                   ELSE IF Semantic(request)
                   THEN {EmbedQuery(index.profile, answer) : answer \in ModelAnswers(composed)}
                   ELSE {Ok(<<>>)} :
                /\ vector.ok
                /\ reply' = Hits("query", query, index, vector.value,
                                 Search(index, request, vector.value))
    /\ UNCHANGED << menu, disk, catalogue, requests, sealed, job, run, changes, edits >>

\* query-batch prints a line per request as it goes and stops at an error:
\* answers holds what the service says to the k-th request.
QueryIndexBatch(path) ==
    /\ Idle
    /\ LET index == disk[path]
           VectorOf(request, answer) ==
               IF Semantic(request) THEN EmbedQuery(index.profile, answer) ELSE Ok(<<>>)
       IN  /\ OpenIndex(index, FALSE)
           /\ BatchPlanValid(requests)
           /\ \E answers \in [DOMAIN requests ->
                    UNION {ModelAnswers(TryComposeQuery(index.profile, r.query)) : r \in Range(requests)}] :
                /\ \A k \in DOMAIN requests :
                      answers[k] \in ModelAnswers(TryComposeQuery(index.profile, requests[k].query))
                /\ LET failed == {k \in DOMAIN requests : ~ VectorOf(requests[k], answers[k]).ok}
                       printed == IF failed = {} THEN Len(requests) ELSE Min(failed) - 1
                   IN  reply' = [kind |-> "lines", index |-> index, ok |-> failed = {},
                                 plan |-> requests,
                                 lines |-> [k \in 1..printed |->
                                    [request |-> requests[k],
                                     vector |-> VectorOf(requests[k], answers[k]).value,
                                     hits |-> Search(index, requests[k],
                                                VectorOf(requests[k], answers[k]).value)]]]
    /\ UNCHANGED << menu, disk, catalogue, requests, sealed, job, run, changes, edits >>

-----------------------------------------------------------------------------
(* benchmark-query: timed calls whose answers must all be the same.        *)

LatencyPercentile(sorted, percentile) ==
    sorted[Larger(1, CeilDiv(Len(sorted) * percentile, 100))]

SummarizeLatencies(values) ==
    LET sorted == SortSeq(values, <)
    IN  [samples |-> Len(values), min |-> sorted[1], p50 |-> LatencyPercentile(sorted, 50),
         p95 |-> LatencyPercentile(sorted, 95), max |-> sorted[Len(sorted)]]

\* options: [path, request, warmups, repeats, ends]; the service answers the
\* warmups, the timed calls and the end-to-end calls in turn.
BenchmarkQuery(options) ==
    /\ Idle
    /\ LET index == disk[options.path]
           request == options.request
           calls == options.warmups + options.repeats + options.ends
           composed == TryComposeQuery(index.profile, request.query)
           Fused(vector) == Search(index, [request EXCEPT !.mode = "fused"], vector)
       IN  /\ OpenIndex(index, FALSE)
           /\ request.topN \in 1..MaxTopN /\ options.repeats > 0
           /\ \E answers \in [1..calls -> ModelAnswers(composed)] :
                LET vector == [k \in 1..calls |-> EmbedQuery(index.profile, answers[k])]
                    timed == options.warmups + 1..options.warmups + options.repeats
                    ends == options.warmups + options.repeats + 1..calls
                    last == vector[options.warmups + options.repeats].value
                IN  /\ \A k \in 1..calls : vector[k].ok
                    /\ \A k, l \in timed : vector[k].value = vector[l].value
                    /\ \A k, l \in ends : Fused(vector[k].value) = Fused(vector[l].value)
                    /\ reply' = [kind |-> "benchmark", options |-> options, index |-> index,
                                 calls |-> calls, vector |-> last,
                                 observed |-> [k \in 1..options.repeats |-> answers[options.warmups + k]],
                                 latency |-> SummarizeLatencies(
                                    [k \in 1..options.repeats |-> answers[options.warmups + k].micros]),
                                 dense |-> Search(index, [request EXCEPT !.mode = "dense"], last),
                                 fused |-> Fused(last),
                                 lexical |-> Search(index, [request EXCEPT !.mode = "lexical"], <<>>)]
    /\ UNCHANGED << menu, disk, catalogue, requests, sealed, job, run, changes, edits >>

-----------------------------------------------------------------------------
(* compare-index-overlap: one answer of the model, adapted to both.        *)

ReducedPair(full, reduced) ==
    /\ reduced.parent # 0
    /\ reduced.parent_profile = full.component
    /\ reduced.parent = full.dims
    /\ full.parent = 0
    /\ full.model = reduced.model
    /\ full.instruction = reduced.instruction

\* Fractions are pairs of a numerator and a denominator; 1 is << 1, 1 >>.
TopKOverlap(full, reduced) ==
    LET shared == Cardinality(Range(full) \cap Range(reduced))
        union == Cardinality(Range(full) \cup Range(reduced))
    IN  [full |-> full, reduced |-> reduced, shared |-> shared,
         of_full |-> IF full = <<>> THEN << 1, 1 >> ELSE << shared, Len(full) >>,
         jaccard |-> IF union = 0 THEN << 1, 1 >> ELSE << shared, union >>]

\* options: [full, reduced, request]
CompareIndexOverlap(options) ==
    /\ Idle
    /\ LET full == disk[options.full]
           reduced == disk[options.reduced]
           Top(index, mode, vector) == Search(index, [options.request EXCEPT !.mode = mode], vector)
       IN  /\ OpenIndex(full, FALSE) /\ OpenIndex(reduced, FALSE)
           /\ ReducedPair(full.profile, reduced.profile)
           /\ options.request.topN \in 1..MaxTopN
           /\ \E answer \in ModelAnswers(TryComposeQuery(full.profile, options.request.query)) :
                LET wide == EmbedQuery(full.profile, answer)
                    narrow == EmbedQuery(reduced.profile, answer)
                IN  /\ wide.ok /\ narrow.ok
                    /\ reply' = [kind |-> "overlap", options |-> options, full |-> full,
                                 reduced |-> reduced, answer |-> answer,
                                 dense |-> TopKOverlap(Top(full, "dense", wide.value),
                                                       Top(reduced, "dense", narrow.value)),
                                 fused |-> TopKOverlap(Top(full, "fused", wide.value),
                                                       Top(reduced, "fused", narrow.value))]
    /\ UNCHANGED << menu, disk, catalogue, requests, sealed, job, run, changes, edits >>

-----------------------------------------------------------------------------
(* What happens around the commands.                                       *)

\* An artifact is rebuilt or replaced while no command has it open.
Replace(path) ==
    /\ reply = Nothing /\ job.kind \in {"nothing", "built"}
    /\ changes < MaxChanges
    /\ \E artifact \in Menus[menu].variants[path] \ {disk[path]} : disk' = [disk EXCEPT ![path] = artifact]
    /\ changes' = changes + 1
    /\ UNCHANGED << menu, catalogue, requests, sealed, job, run, reply, edits >>

ReceiveCatalogue(file) ==
    /\ Idle /\ catalogue = Nothing
    /\ catalogue' = file
    /\ UNCHANGED << menu, disk, requests, sealed, job, run, reply, changes, edits >>

EditRequests(file) ==
    /\ reply = Nothing /\ edits < MaxEdits /\ file # requests
    /\ requests' = file
    /\ edits' = edits + 1
    /\ UNCHANGED << menu, disk, catalogue, sealed, job, run, reply, changes >>

Read ==
    /\ reply # Nothing
    /\ reply' = Nothing
    /\ UNCHANGED << menu, disk, catalogue, requests, sealed, job, run, changes, edits >>

Init ==
    /\ disk = Original
    /\ menu \in DOMAIN Menus /\ requests \in Menus[menu].files
    /\ catalogue = Nothing /\ sealed = Nothing /\ job = Nothing /\ run = Nothing /\ reply = Nothing
    /\ changes = 0 /\ edits = 0

Next ==
    \/ \E options \in Menus[menu].builds : Build(options)
    \/ AdmitBuilt
    \/ ValidateCatalogue
    \/ \E options \in Menus[menu].searches : SearchCatalogue(options)
    \/ \E options \in Menus[menu].similars : SimilarCatalogue(options)
    \/ \E execution \in Menus[menu].sets : WriteSealed(execution)
    \/ \E options \in Menus[menu].batches : ReadPlan(options)
    \/ AdmitBatch
    \/ Stage
    \/ CopyRequests
    \/ AnswerLexical
    \/ AnswerSealed
    \/ AnswerEndpoint
    \/ Publish
    \/ Kill
    \/ \E query \in Menus[menu].queries : QueryIndex(query)
    \/ \E path \in Menus[menu].lines : QueryIndexBatch(path)
    \/ \E options \in Menus[menu].benchmarks : BenchmarkQuery(options)
    \/ \E options \in Menus[menu].comparisons : CompareIndexOverlap(options)
    \/ \E path \in DOMAIN Menus[menu].variants : Replace(path)
    \/ \E file \in Menus[menu].foreign : ReceiveCatalogue(file)
    \/ \E file \in Menus[menu].files : EditRequests(file)
    \/ Read

Spec == Init /\ [][Next]_vars

-----------------------------------------------------------------------------
(* Properties                                                              *)

\* hits are the topN best of what the indexes found, by the rank in the own
\* index, then the dataset's digest, then the document.
BestOf(hits, admitted, Found(_), topN) ==
    LET datasets == admitted.catalogue.datasets
        candidates == UNION {{<< k, r >> : r \in DOMAIN Found(k)} : k \in DOMAIN datasets}
        Sha(c) == datasets[c[1]].dataset.sha
        Document(c) == Found(c[1])[c[2]]
        Before(c, d) ==
            \/ c[2] < d[2]
            \/ c[2] = d[2] /\ Sha(c) < Sha(d)
            \/ c[2] = d[2] /\ Sha(c) = Sha(d) /\ Document(c) < Document(d)
    IN  /\ Len(hits) = Smaller(topN, Cardinality(candidates))
        /\ \A p \in DOMAIN hits : \E c \in candidates :
              /\ hits[p].rank = p
              /\ hits[p].document = Document(c)
              /\ hits[p].dataset = datasets[c[1]].dataset.id
              /\ hits[p].index = datasets[c[1]].ids["index"]
              /\ Cardinality({d \in candidates : Before(d, c)}) = p - 1

\* The vectors the service may have meant for a query under a profile.
Possible(profile, composed) ==
    {EmbedQuery(profile, answer).value : answer \in {a \in ModelAnswers(composed) : EmbedQuery(profile, a).ok}}

(* publish_batch_search_run_inner: a published run answers, in order, the  *)
(* requests of its own copy of the file; every semantic request of one     *)
(* composed query is ranked by one vector, obtained by one model call or   *)
(* from the sealed set, of the profile's model; and every list of hits is  *)
(* the exact merge over the admitted indexes.                              *)
RunsExact ==
    run # Nothing =>
        LET profile == run.admitted.indexes[1].profile
            semantic == {TryComposeQuery(profile, r.query) : r \in {q \in Range(run.requests) : Semantic(q)}}
        IN  /\ Len(run.results) = Len(run.requests)
            /\ \A k \in DOMAIN run.requests :
                  /\ run.results[k].request = run.requests[k]
                  /\ LET request == run.requests[k]
                         key == TryComposeQuery(profile, request.query)
                         vector == IF Semantic(request) THEN run.manifest.vectors[key] ELSE <<>>
                         Found(d) == SearchIndex(run.admitted.indexes[d], request.mode, request.query,
                                        vector, Range(request.relations), request.topN, {})
                     IN  BestOf(run.results[k].hits, run.admitted, Found, request.topN)
            /\ DOMAIN run.manifest.vectors = semantic
            /\ run.manifest.calls = IF run.manifest.set THEN 0 ELSE Cardinality(semantic)
            /\ ~ run.manifest.set =>
                  \A key \in semantic : run.manifest.vectors[key] \in Possible(profile, key)
            /\ semantic # {} => run.manifest.returned = profile.model
            /\ run.admitted.catalogue.mode = "test_only" => run.allow

(* Every printed answer is exact: searches and similarity over a catalogue *)
(* (the seed is left out of its own dataset and of no other), queries and  *)
(* batches of one index, of which an error prints only whole lines; a      *)
(* benchmark measured one vector, and its percentiles are nearest ranks;   *)
(* an overlap compares one answer of the model under both profiles.        *)
AnswersExact ==
    /\ reply.kind = "search" =>
        LET request == reply.question.request
            Found(d) == SearchIndex(reply.indexes.indexes[d], request.mode, request.query, reply.vector,
                                    Range(request.relations), request.topN, {})
        IN  BestOf(reply.hits, reply.indexes, Found, request.topN)
    /\ reply.kind = "similar" =>
        LET q == reply.question
            seeds == {k \in DOMAIN reply.indexes.indexes :
                        reply.indexes.catalogue.datasets[k].dataset.id = q.dataset}
            Found(d) == SearchIndex(reply.indexes.indexes[d], "dense", "",
                reply.indexes.indexes[CHOOSE k \in seeds : TRUE].rows[q.document].vector,
                Range(q.relations), q.topN, IF q.exclude /\ d \in seeds THEN {q.document} ELSE {})
        IN  /\ BestOf(reply.hits, reply.indexes, Found, q.topN)
            /\ \A p \in DOMAIN reply.hits : q.exclude =>
                  << reply.hits[p].dataset, reply.hits[p].document >> # << q.dataset, q.document >>
    /\ reply.kind = "lines" =>
        /\ reply.ok => Len(reply.lines) = Len(reply.plan)
        /\ \A k \in DOMAIN reply.lines : reply.lines[k].request = reply.plan[k]
    /\ reply.kind = "benchmark" =>
        LET n == reply.options.repeats
            AtMost(v) == Cardinality({k \in 1..n : reply.observed[k].micros <= v})
            NearestRank(v, percent) ==
                /\ \E k \in 1..n : reply.observed[k].micros = v
                /\ AtMost(v) * 100 >= n * percent
                /\ \A k \in 1..n : reply.observed[k].micros < v =>
                      AtMost(reply.observed[k].micros) * 100 < n * percent
        IN  /\ \A k \in 1..n :
                  EmbedQuery(reply.index.profile, reply.observed[k]) = Ok(reply.vector)
            /\ NearestRank(reply.latency.p50, 50)
            /\ NearestRank(reply.latency.p95, 95)
            /\ AtMost(reply.latency.max) = n /\ reply.latency.min <= reply.latency.p50
            /\ reply.calls = reply.options.warmups + n + reply.options.ends
    /\ reply.kind = "overlap" =>
        /\ reply.reduced.profile.parent_profile = reply.full.profile.component
        /\ Len(reply.answer.vectors[1]) = reply.full.profile.dims
        /\ \A part \in {reply.dense, reply.fused} :
              part.shared = Len(part.full) + Len(part.reduced)
                            - Cardinality(Range(part.full) \cup Range(part.reduced))

(* admit_catalogue and admit_catalogue_for_query: what is searched holds   *)
(* each dataset once, the index that was recorded with its parents, one    *)
(* embedding profile, every shared relation allowed for all who share it,  *)
(* and test-only indexes in test-only catalogues alone; a full admission   *)
(* found those very parents on disk.                                       *)
Chained(admitted) ==
    LET datasets == admitted.catalogue.datasets
    IN  /\ Len(admitted.indexes) = Len(datasets)
        /\ \A k \in DOMAIN datasets :
              /\ admitted.indexes[k].id = datasets[k].ids["index"]
              /\ admitted.indexes[k].provenance =
                    [dataset |-> datasets[k].dataset.sha, prepared |-> datasets[k].ids["prepared"],
                     plan |-> datasets[k].ids["plan"], results |-> datasets[k].ids["results"]]
              /\ admitted.indexes[k].test_only = (admitted.catalogue.mode = "test_only")
              /\ admitted.indexes[k].profile = admitted.indexes[1].profile
        /\ \A k, l \in DOMAIN datasets : k # l =>
              /\ datasets[k].dataset.id # datasets[l].dataset.id
              /\ \A r \in Range(datasets[k].dataset.relations) \cap Range(datasets[l].dataset.relations) :
                    \E a \in Range(admitted.catalogue.allowances) :
                        /\ a.relation = r
                        /\ {datasets[k].dataset.id, datasets[l].dataset.id} \subseteq Range(a.datasets)

AdmittedChain ==
    /\ reply.kind \in {"search", "similar"} =>
          /\ Chained(reply.indexes)
          /\ reply.indexes.catalogue.mode = "test_only" => reply.question.allow
    /\ run # Nothing => Chained(run.admitted)
    /\ reply.kind = "admitted" =>
          /\ Chained(reply.admitted)
          /\ \A k \in DOMAIN reply.admitted.indexes : \A r \in Roles :
                LET entry == reply.admitted.catalogue.datasets[k]
                IN  disk[entry.paths[r]].id = entry.ids[r]

-----------------------------------------------------------------------------
(* The inductive invariant behind AdmittedChain: what was parsed, and the  *)
(* admission that a command in progress holds.                             *)

Parsed ==
    /\ menu \in DOMAIN Menus
    /\ DOMAIN disk = DOMAIN Original
    /\ \A path \in DOMAIN disk : ArtifactParsed(disk[path])
    /\ catalogue # Nothing \/ job # Nothing => CatalogueParsed(catalogue)

Holding ==
    job.kind = "batch" /\ job.pc # "admit" =>
        "admitted" \in DOMAIN job /\ Chained(job.admitted)

IndInv == Parsed /\ Holding /\ AdmittedChain
=============================================================================
