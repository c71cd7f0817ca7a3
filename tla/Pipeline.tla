------------------------------ MODULE Pipeline ------------------------------
(***************************************************************************)
(* The artifact chain of the command line (rag-builder/src/portable.rs):   *)
(* plan-embeddings, embed and embed-tei, test-embed, finalize-embeddings,  *)
(* derive-embeddings, assemble, and the cloud bundle built from a plan.    *)
(*                                                                         *)
(* An operator keeps the directories of several plans side by side.  A     *)
(* command is given a prepared corpus, a plan, a profile and a results     *)
(* directory, not necessarily those that belong together, and files may    *)
(* be copied by hand from one results directory into another.  Commands    *)
(* run one at a time; how one task's files come about, and what a crash    *)
(* leaves behind, is the subject of TaskRecovery.                          *)
(***************************************************************************)
EXTENDS Bundle, EmbeddingResults

CONSTANTS
    Corpora,         \* the prepared corpora on disk
    Requests,        \* plan commands: [corpus, profile, tokenizer, file, limits]
    Areas,           \* working areas, each with a plan and a results directory
    Executions,      \* embedding runs: [version, provenance, observed, executions]
    DerivedDims,     \* dimensions a derivation may ask for
    WorkerCounts,
    MaxCopies        \* bound: files copied by hand

ASSUME PipelineAssumption ==
    /\ WorkerCounts \subseteq Nat
    /\ MaxCopies \in Nat
    /\ FullDims \in Nat /\ DerivedDims \subseteq Nat

\* A component digest identifies a corpus.
ASSUME CorporaAssumption ==
    /\ \A corpus \in Corpora :
          corpus.documents \in Seq(Seq(UNION {Range(object) : object \in Range(corpus.documents)}))
    /\ \A corpus, other \in Corpora : corpus.id = other.id => corpus = other

\* A name stands for a profile file: it identifies one.
ASSUME RequestsAssumption ==
    /\ \A request \in Requests :
          /\ request.corpus \in Corpora
          /\ request.limits \in [tokens : Nat, documents : Nat]
          /\ \A row \in Range(Documents(request.corpus)) :
                Tokens[request.tokenizer.artifact][FormatInput(request.profile, row)] \in Nat
          /\ LET p == request.profile
             IN  p = [name |-> p.name, executable |-> p.executable, model |-> p.model,
                      tokenizer |-> p.tokenizer, max_tokens |-> p.max_tokens,
                      format |-> p.format, dims |-> p.dims, runtime |-> p.runtime,
                      parent |-> p.parent]
    /\ \A one, other \in Requests :
          one.profile.name = other.profile.name => one.profile = other.profile

VARIABLES
    area,        \* plan and results directory of each working area
    product,     \* what the last command published, if anything
    copies

pipeline_vars == <<area, product, copies>>

Plans == {area[a].plan : a \in Areas} \ {None}

Profiles == {request.profile : request \in Requests} \union {plan.profile : plan \in Plans}

EmptyArea == [plan |-> None, results |-> EmptyResults]

PipelineInit ==
    /\ area = [a \in Areas |-> EmptyArea]
    /\ product = None
    /\ copies = 0

Publishes(kind, value) ==
    /\ product' = [kind |-> kind, value |-> value]
    /\ UNCHANGED <<area, copies>>

\* A command that fails before it publishes anything leaves no trace.
Refuse ==
    product' = None /\ UNCHANGED <<area, copies>>

SetArea(a, value) ==
    /\ area' = [area EXCEPT ![a] = value]
    /\ product' = None
    /\ UNCHANGED copies

SetResults(a, results) == SetArea(a, [area[a] EXCEPT !.results = results])

-----------------------------------------------------------------------------
(* plan-embeddings: the plan is built, built again and compared, and       *)
(* published with its counts in a new directory.                           *)

PublishPlan(a, request) ==
    LET built == BuildPlan(request.corpus, request.profile, request.tokenizer,
                           request.file, request.limits)
    IN  IF built.ok /\ PlanIsExact(built.value, request.corpus, request.file)
            THEN SetArea(a, [area[a] EXCEPT !.plan = built.value])
            ELSE Refuse

PlanEmbeddings(a, request) ==
    /\ area[a].plan = None
    /\ request.profile.executable = "none"
    /\ PublishPlan(a, request)

\* An embedding policy also names the executable tokenizer.
TeiTokenizerMatches(request) ==
    /\ request.tokenizer.artifact = request.profile.executable
    /\ request.file.id = request.profile.executable
    /\ TokenizerForProfile(request.tokenizer, request.profile)

PlanEmbeddingsTei(a, request) ==
    /\ area[a].plan = None
    /\ request.profile.executable # "none"
    /\ IF TeiTokenizerMatches(request) THEN PublishPlan(a, request) ELSE Refuse

-----------------------------------------------------------------------------
(* embed and embed-tei run the tasks in order; test-embed writes vectors   *)
(* that no model produced and finalizes them before they are published.    *)

CorpusOf(plan) == CHOOSE corpus \in Corpora : corpus.id = plan.prepared

ModelExecutor(run, profile) ==
    [implementation |-> run.provenance.worker_binary, runtime |-> profile.runtime,
     requests |-> 1, conformance |-> TRUE]

LocalExecutor(implementation, profile) ==
    [implementation |-> implementation, runtime |-> profile.runtime,
     requests |-> 0, conformance |-> FALSE]

\* The three files of task k.
TaskFiles(plan, k, part, executor, derivation, version, provenance, observed, execution) ==
    LET receipt == ReceiptOf(plan, plan.tasks[k], part, executor, derivation)
    IN  [part |-> part, receipt |-> receipt,
         report |-> ReportFor(plan, CorpusOf(plan).snapshot, k, receipt, version, provenance,
                              observed, execution)]

\* The files of a directory once those of some tasks are written.
WithTasks(files, plan, content) ==
    LET ks == DOMAIN content
        index(id) == CHOOSE k \in ks : TaskId(plan, plan.tasks[k]) = id
        written == {FilePath(kind, TaskId(plan, plan.tasks[k])) : kind \in FileKinds, k \in ks}
    IN  [path \in written \union DOMAIN files |->
            IF path \in written THEN content[index(path.task)][path.kind] ELSE files[path]]

\* A worker reports under the identity it was sealed with for this plan.
ProvenanceFor(run, plan) ==
    IF run.version = 2
        THEN [profile |-> ProfileDigest(plan.profile), model |-> plan.profile.model,
              runtime |-> plan.profile.runtime, worker_binary |-> run.provenance.worker_binary,
              accelerator |-> run.provenance.accelerator]
        ELSE run.provenance

\* The files a run leaves for the task at index k.
Embedded(plan, run, k) ==
    LET rows == TaskRows(CorpusOf(plan), plan.tasks[k])
        part == PartOf(plan.tasks[k], plan.profile,
                       MapSeq(LAMBDA row : ModelVector(plan.profile, row), rows))
    IN  TaskFiles(plan, k, part, ModelExecutor(run, plan.profile), None, run.version,
                  ProvenanceFor(run, plan), run.observed, run.executions[k])

\* The tasks that have no receipt yet.
PendingTasks(a) ==
    {k \in 1..Len(area[a].plan.tasks) :
        FilePath("receipt", TaskId(area[a].plan, area[a].plan.tasks[k]))
            \notin DOMAIN area[a].results.files}

\* validate_tei_worker_context: the accelerator seen is the policy's.
WorkerContextValid(run) == run.version = 2 => run.observed = run.provenance.accelerator

\* A receipt of a worker by the name that marks vectors no model produced
\* is not written: it does not validate.
Embed(a, run) ==
    /\ area[a].plan # None
    /\ area[a].plan.profile.dims = FullDims
    /\ WorkerContextValid(run)
    /\ run.provenance.worker_binary # TestExecutor
    /\ PendingTasks(a) # {}
    /\ SetResults(a, [area[a].results EXCEPT !.files =
                          WithTasks(@, area[a].plan,
                                    [k \in PendingTasks(a) |-> Embedded(area[a].plan, run, k)])])

-----------------------------------------------------------------------------
(* finalize-embeddings works in place: the profile copy, the summary and   *)
(* the manifest are written one after the other and stay if a later check  *)
(* fails.                                                                  *)

\* The profile given is the one the plan was made for, in every field.
ProfileBinds(plan, profile) == profile = plan.profile

InputsBind(plan, corpus, profile) ==
    ProfileBinds(plan, profile) /\ PlanBinds(plan, corpus)

SetOf(results, plan) ==
    ResultSetOf(plan, ReceiptsIn(results, plan), None,
                plan.tasks # <<>> /\ TestOnly(ReceiptsIn(results, plan)[1]))

\* What finalizing leaves in the directory, and whether it succeeds.
Finalized(results, plan, corpus, profile) ==
    LET copied == [results EXCEPT !.profile = profile]
        set == SetOf(results, plan)
        summary == RunSummary(plan, set.receipts, ReportsIn(results, plan), plan.counts)
        summarized == [copied EXCEPT !.summary = summary.value]
        sealed == [summarized EXCEPT !.manifest = set]
    IN  IF results.profile \notin {None, profile} \/ ~InputsBind(plan, corpus, profile)
            THEN [results |-> results, ok |-> FALSE]
        ELSE IF ~Complete(results, plan, corpus, profile)
            THEN [results |-> copied, ok |-> FALSE]
        ELSE IF ~ResultSetValid(set, plan, set.receipts) \/ ~summary.ok
            THEN [results |-> copied, ok |-> FALSE]
        ELSE IF results.summary \notin {None, summary.value}
            THEN [results |-> copied, ok |-> FALSE]
        ELSE IF results.manifest \notin {None, set}
            THEN [results |-> summarized, ok |-> FALSE]
        ELSE [results |-> sealed, ok |-> Covers(sealed, plan, TRUE)]

FinalizeEmbeddings(a, b, corpus, profile) ==
    /\ area[b].plan # None
    /\ SetResults(a, Finalized(area[a].results, area[b].plan, corpus, profile).results)

TestResults(plan, corpus) ==
    LET part(k) == PartOf(plan.tasks[k], plan.profile,
                          MapSeq(LAMBDA row : TestVector(plan.profile, row),
                                 TaskRows(corpus, plan.tasks[k])))
        content == [k \in 1..Len(plan.tasks) |->
                       TaskFiles(plan, k, part(k), LocalExecutor(TestExecutor, plan.profile),
                                 None, 1, [worker_binary |-> TestExecutor], None, None)]
    IN  [EmptyResults EXCEPT !.files = WithTasks(@, plan, content)]

TestEmbed(a, corpus, profile) ==
    /\ area[a].plan # None
    /\ area[a].results = EmptyResults
    /\ LET plan == area[a].plan
           finalized == Finalized(TestResults(plan, corpus), plan, corpus, profile)
       IN  IF InputsBind(plan, corpus, profile) /\ profile.dims = FullDims /\ finalized.ok
               THEN SetResults(a, finalized.results)
               ELSE Refuse

-----------------------------------------------------------------------------
(* Admission of a finalized directory: by assemble, derive-embeddings and  *)
(* the catalogue.                                                          *)

ResultsAdmitted(results, plan, corpus, profile) ==
    LET receipts == ReceiptsIn(results, plan)
        summary == RunSummary(plan, receipts, ReportsIn(results, plan), plan.counts)
    IN  /\ results.profile = profile
        /\ Covers(results, plan, TRUE)
        /\ InputsBind(plan, corpus, profile)
        /\ Complete(results, plan, corpus, profile)
        /\ ResultSetValid(results.manifest, plan, receipts)
        /\ summary.ok
        /\ results.summary = summary.value

\* derive-embeddings: a smaller profile, plan and results in a new area.
DerivedProfile(profile, dims) ==
    [profile EXCEPT !.dims = dims, !.parent = profile.name]

DerivedResults(results, source, plan) ==
    LET set == results.manifest
        receipt(k) == ReceiptsIn(results, source)[k]
        part(k) == PartOf(plan.tasks[k], plan.profile,
                          MapSeq(LAMBDA v : ReducedVector(v, plan.profile.dims),
                                 receipt(k).vector.vectors))
        derivation == [parent_set |-> set, parent_dims |-> source.profile.dims]
        content == [k \in 1..Len(plan.tasks) |->
                       TaskFiles(plan, k, part(k), LocalExecutor(DerivedExecutor, plan.profile),
                                 derivation, 1, [worker_binary |-> DerivedExecutor], None, None)]
        staged == [EmptyResults EXCEPT !.files = WithTasks(@, plan, content),
                                       !.profile = plan.profile]
        receipts == ReceiptsIn(staged, plan)
        summary == RunSummary(plan, receipts, ReportsIn(staged, plan), plan.counts)
    IN  [staged EXCEPT !.manifest = ResultSetOf(plan, receipts, derivation, FALSE),
                       !.summary = IF summary.ok THEN summary.value ELSE None]

DeriveEmbeddings(a, b, corpus, profile, dims) ==
    /\ area[a].plan # None
    /\ area[b] = EmptyArea
    /\ LET source == area[a].plan
           results == area[a].results
           plan == DerivedPlan(source, DerivedProfile(profile, dims))
           derived == DerivedResults(results, source, plan.value)
       IN  IF /\ results.manifest # None
              /\ profile.dims = FullDims /\ profile.parent = "none"
              /\ InputsBind(source, corpus, profile)
              /\ Complete(results, source, corpus, profile)
              /\ ResultSetValid(results.manifest, source, ReceiptsIn(results, source))
              /\ ~results.manifest.test_only /\ results.manifest.derivation = None
              /\ plan.ok
              /\ ResultSetValid(derived.manifest, plan.value, ReceiptsIn(derived, plan.value))
              /\ Complete(derived, plan.value, corpus, plan.value.profile)
              /\ Covers(derived, plan.value, TRUE)
               THEN SetArea(b, [plan |-> plan.value, results |-> derived])
               ELSE Refuse

\* assemble: the vectors of the parts, in plan order, beside the documents.
IndexOf(results, plan, corpus) ==
    [corpus |-> corpus.id, profile |-> plan.profile,
     documents |-> Documents(corpus),
     occurrences |-> FlattenSeq(MapSeq(LAMBDA o : o.rows, corpus.occurrences)),
     vectors |-> FlattenSeq(MapSeq(LAMBDA id : results.files[FilePath("part", id)].vectors,
                                   TaskIds(plan))),
     test_only |-> results.manifest.test_only,
     provenance |-> [plan |-> plan, set |-> results.manifest]]

\* portable_dataset_accounting: source rows are indexed, structured or excluded.
AccountingCloses(corpus, indexed) ==
    indexed + corpus.structured_rows + corpus.excluded_rows = corpus.source_rows

Assemble(a, b, corpus, profile) ==
    /\ area[b].plan # None
    /\ LET plan == area[b].plan
           assembled == IndexOf(area[a].results, plan, corpus)
       IN  IF /\ ResultsAdmitted(area[a].results, plan, corpus, profile)
              /\ AccountingCloses(corpus, Len(assembled.occurrences))
               THEN Publishes("index", assembled)
               ELSE Refuse

-----------------------------------------------------------------------------
(* The cloud bundle of a plan.                                             *)

ExecutionIdentity(plan) ==
    [model |-> plan.profile.model, profile |-> plan.profile,
     worker_binary |-> "worker", image_build |-> "build"]

BundleFor(plan, corpus, workers) ==
    BuildBundle(corpus, plan, Artifacts(corpus, plan, "worker", "build", "queries"),
                ExecutionIdentity(plan), workers)

BundleBuild(a, corpus, workers) ==
    /\ area[a].plan # None
    /\ LET built == BundleFor(area[a].plan, corpus, workers)
       IN  IF built.ok THEN Publishes("bundle", built.value)
           ELSE Publishes("refusal", [plan |-> area[a].plan, corpus |-> corpus.id,
                                      workers |-> workers])

-----------------------------------------------------------------------------
\* Somebody copies a file of one results directory into another, over the file
\* of the same kind for a task that starts at the same document.
CopyFile(a, b, from, to) ==
    /\ copies < MaxCopies
    /\ copies' = copies + 1
    /\ area' = [area EXCEPT ![a].results.files[to] = area[b].results.files[from]]
    /\ product' = None

CopyAny ==
    \E a, b \in Areas :
        \E from \in DOMAIN area[b].results.files :
            \E to \in DOMAIN area[a].results.files :
                /\ a # b /\ to.kind = from.kind /\ to.task.start = from.task.start
                /\ CopyFile(a, b, from, to)

PipelineNext ==
    \/ \E a \in Areas, request \in Requests : PlanEmbeddings(a, request)
    \/ \E a \in Areas, request \in Requests : PlanEmbeddingsTei(a, request)
    \/ \E a \in Areas, run \in Executions : Embed(a, run)
    \/ \E a, b \in Areas, corpus \in Corpora, profile \in Profiles :
          FinalizeEmbeddings(a, b, corpus, profile)
    \/ \E a \in Areas, corpus \in Corpora, profile \in Profiles : TestEmbed(a, corpus, profile)
    \/ \E a, b \in Areas, corpus \in Corpora, profile \in Profiles, dims \in DerivedDims :
          DeriveEmbeddings(a, b, corpus, profile, dims)
    \/ \E a, b \in Areas, corpus \in Corpora, profile \in Profiles :
          Assemble(a, b, corpus, profile)
    \/ \E a \in Areas, corpus \in Corpora, workers \in WorkerCounts :
          BundleBuild(a, corpus, workers)
    \/ CopyAny

PipelineSpec == PipelineInit /\ [][PipelineNext]_pipeline_vars

-----------------------------------------------------------------------------
(* Properties.                                                             *)

\* What the vector of a document must be in an index.
ExpectedVector(i, row) ==
    IF i.test_only THEN TestVector(i.profile, row) ELSE ModelVector(i.profile, row)

(* An assembled index holds, for every document of one corpus and in its   *)
(* order, the vector that the index's own profile gives to that document,  *)
(* and is marked test-only exactly when no model produced the vectors:     *)
(* whatever directories and files the operator mixed up before             *)
(* (portable.rs assemble, derive_embeddings, finalize_embeddings).         *)
IndexHoldsItsCorpus ==
    product # None /\ product.kind = "index" =>
        LET index == product.value
        IN  /\ \E corpus \in Corpora :
                  index.corpus = corpus.id /\ index.documents = Documents(corpus)
            /\ index.vectors = MapSeq(LAMBDA row : ExpectedVector(index, row), index.documents)

(* The tasks of a plan are the corpus cut into consecutive pieces: their   *)
(* slices select exactly the rows of the corpus in order, every task obeys *)
(* both limits, and no task could have taken the next document             *)
(* (token_plan.rs build_token_balanced_plan_with_counts).                  *)
TasksPartitionCorpus ==
    \A plan \in Plans :
        LET corpus == CorpusOf(plan)
        IN  /\ FlattenSeq(MapSeq(LAMBDA task : TaskRows(corpus, task), plan.tasks))
                  = Documents(corpus)
            /\ \A k \in 1..Len(plan.tasks) :
                  /\ RowCount(plan.tasks[k]) <= plan.limits.documents
                  /\ TokenCount(plan.tasks[k]) <= plan.limits.tokens
                  /\ k < Len(plan.tasks) =>
                        \/ RowCount(plan.tasks[k]) = plan.limits.documents
                        \/ TokenCount(plan.tasks[k]) + plan.tasks[k + 1].counts[1]
                              > plan.limits.tokens

\* How far the first k tasks are from the share of w of n workers, times n.
Imbalance(plan, n, w, k) ==
    LET tokens(upTo) == SumOf(MapSeq(TokenCount, SubSeq(plan.tasks, 1, upTo)))
        excess == n * tokens(k) - w * tokens(Len(plan.tasks))
    IN  Larger(excess, -excess)

(* Whenever there are at least as many tasks as workers the bundle of a    *)
(* plan can be built, every worker gets a non-empty run of consecutive     *)
(* tasks, the runs cover the plan, and no boundary could be moved closer   *)
(* to the workers' share of the tokens without leaving a worker idle       *)
(* (cloud.rs token_balanced_boundaries).                                   *)
AssignmentsNearShare ==
    /\ product # None /\ product.kind = "refusal" =>
          LET refused == product.value
          IN  refused.corpus = refused.plan.prepared =>
                  refused.workers \notin 1..Smaller(MaxWorkers, Len(refused.plan.tasks))
    /\ product # None /\ product.kind = "bundle" =>
          LET plan == product.value.plan
              a == product.value.assignments
          IN  /\ FlattenSeq(MapSeq(LAMBDA assignment : assignment.tasks, a)) = TaskIds(plan)
              /\ \A w \in 1..Len(a) - 1 :
                    \A k \in a[w].task_start + 1..Len(plan.tasks) - (Len(a) - w) :
                        Imbalance(plan, Len(a), w, a[w].task_end)
                            <= Imbalance(plan, Len(a), w, k)

\* Milliseconds in which some task was running.
RunningTime(intervals) ==
    Cardinality(UNION {interval.started + 1..interval.finished : interval \in Range(intervals)})

(* A summary measures the time in which at least one task was running,     *)
(* however the tasks overlap, never more than the calendar span, and its   *)
(* length buckets count every document and token once                      *)
(* (portable.rs execution_time_bounds, length_bucket_throughput).          *)
SummaryMeasuresRun ==
    \A a \in Areas :
        LET summary == area[a].results.summary
            plan == CHOOSE p \in Plans : PlanDigest(p) = summary.plan
        IN  summary # None =>
                /\ summary.tokens = SumOf(MapSeq(LAMBDA b : b.tokens, summary.buckets))
                /\ plan.document_count
                      = SumOf(MapSeq(LAMBDA b : b.documents, summary.buckets))
                /\ (summary.measured /\ copies = 0) =>
                      LET intervals == MapSeq(LAMBDA report : report.execution,
                                              ReportsIn(area[a].results, plan))
                      IN  /\ RunningTime(intervals) > 0 =>
                                summary.active = RunningTime(intervals) * 1000
                          /\ summary.active <= summary.span
=============================================================================
