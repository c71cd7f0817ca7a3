# A TLA+ verification of livefire-rag

`livefire-rag` turns normalized OCSF Parquet data into an immutable search
index and answers queries over it. The modules in this directory model the
chain from the source rows to the ranked answer: preparation and benchmark
selection, token plans, the embedding computation with its restarts on the
operator's machine and on rented GPU Pods, the network volume between the two,
finalization and assembly, the index and its ranking, catalogues, batch runs and
the provider process. TLC checks the modules on small instances, and TLAPS
proves the central results of twelve of them for all values of the constants.

Source paths in this document are relative to the repository root; paths in
`PROJECT.json` carry a `src/` prefix.

## 1. Inventory

### How data flows

```
OCSF Parquet --census/prepare--> prepared corpus --plan-embeddings--> token plan
   token plan --embed | embed-tei | RunPod--> parts + receipts + reports
   parts --finalize-embeddings--> manifest --assemble--> index
   index --query | similar | catalogue | rag-provider--> ranked references

 operator's host                              RunPod
   rag runpod stage   --S3 PUT-->   network volume  <--hard links-- rag-runpod-worker
   rag runpod pod create --REST--> Pod lifecycle        (1 process per Pod, TEI child)
        polls marker and failure record on the volume, deletes the Pod
   rag runpod fetch   <--S3 GET--   network volume
```

There is no shared memory between processes. Components meet through files
(published by rename or hard link), through the objects of the network volume,
and through two HTTP services (the embedding server and the RunPod control
plane). Inside one process the only concurrency is batch tasks and part uploads
in a `JoinSet`, four parallel downloads, and parallel row-group projection.

### Components

| Component | State it keeps | Operations | What makes it correct | Modules |
|---|---|---|---|---|
| Preparation (`portable.rs`, `rag-ocsf`, `rag-projection`) | document buffer, sorted runs, merge heap | project in waves, merge, spill, publish | result independent of parallelism and of the buffer size; no sound source refused | `Projection`, `Prepare` |
| Benchmark selection (`benchmark_selection.rs`) | candidates, strata, quotas | select, bind, seal | nested, exact sizes, complete occurrences | `BenchmarkSelection`, `Prepare` |
| Token plan (`token_plan.rs`) | task list | greedy packing, slices, derived plans | every document exactly once, limits kept | `TokenPlan`, `Pipeline` |
| Bundle and assignments (`cloud.rs`) | bundle, assignments, markers, run report | build, validate, partition | every task in exactly one assignment, balance | `Bundle`, `Pipeline`, `VolumeFetch` |
| Embedding task executor (`rag-embedding/src/task.rs`, `shard.rs`) | batch counters, `JoinSet`, reorder buffer, staging file, output shard | spawn, retry, join, drain, finish, commit | rows in text order, bounded buffer, exact counters, publication without overwrite, termination | `EmbedTask`, `PublishOnce` |
| Task execution and recovery on the host (`portable.rs`) | part, receipt, report, their quarantine siblings, `summary.json`, `manifest.json` | `embed`, `embed-tei`, `recover-embedding-task`, `finalize-embeddings`, `derive-embeddings`, `assemble` | no completed task repeated, evidence kept, success means complete, a restart path, only matching artifacts assembled | `TaskRecovery`, `EmbeddingResults`, `Pipeline` |
| RunPod worker (`rag-runpod-worker/src/lib.rs`) | volume: parts, receipts, reports, query vectors, markers, `failed.json` | load, reuse, execute, publish, mark | markers sound and in order, recovery after a lost Pod | `RunpodWorker` |
| Model hydration (in `rag-runpod-worker/src/lib.rs`) | partial and complete model objects | resume a download, check the digest, link | no wrong model file, progress after an interruption | `ModelHydration` |
| Pod supervisor (`runpod_cli.rs`, `runpod_control.rs`) | the Pod, three receipts, clock, outcome | schedule, admit, stage the observation, poll, delete | no unrecorded Pod left running, bounded overrun of limits, return | `PodSupervisor` |
| Object staging and fetching (`runpod_s3.rs`, `runpod_cli.rs`) | remote objects, multipart uploads, private fetch directory | HEAD, conditional PUT, multipart, abort, GET, verify, rename | resume, no foreign object accepted, only a whole run verified | `VolumeStage`, `VolumeFetch` |
| Model conformance and policy seal (`runpod_conformance.rs`, `tei_profile.rs`) | candidates, results, sealed policy | build, stage, measure, fetch, seal | sealed only from two agreeing Pods of two runs | `Conformance` |
| Publication primitives (`rag-pipeline/src/lib.rs`) | staging files and directories | `atomic_write`, `AtomicDirectory` | all or nothing | last step of the commands in `Prepare`, `Pipeline`, `QueryRun`, `TaskRecovery` |
| Index (`rag-index`) | index directory: documents, occurrences, lexical form, vectors, manifest | assemble, publish, open, query | ranking as defined, ties deterministic, opened only as published | `Ranking`, `FastIndex` |
| Catalogue (`catalogue.rs`, `dataset_catalogue.rs`) | catalogue file, opened indexes, batch run directory | build, admit, search, similar, batch | whole chains only, merge independent of arrival, runs answer their own requests | `Catalogue`, `QueryRun` |
| Query vector sets (`query_vector_set.rs`) | vectors by request | write, open, look up | exact match only, ambiguous requests refused | `QueryVectorSet`, `SealedVectors` |
| Provider (`rag-provider`) | handshake flag, sessions | handshake, open, call, health, close | one binding per session id, only admitted indexes, deadlines and limits kept, every request answered | `Provider` |
| Command line (`main.rs`) | none of its own | query, batch-query, benchmark-query, overlap | printed answers exact | `QueryRun` |
| Storage challenge (`runpod_cli.rs`, `runpod_storage_challenge.rs`, `rag-runpod-worker`) | the keys below one prefix, a Pod, three receipts | claim the prefix, launch, upload the challenge, answer, watch, delete, verify | success only for a challenge that the own Pod read through the mount; one Pod per prefix | `StorageChallenge` |
| Contract types, reports, test kit, packaging, Python | | | | not modelled (section 8) |

### What is hard to test

`PROJECT.json` lists the hazards, each at its line. They fall into these groups.

1. Results that arrive in any order (batches, parts, row groups, datasets) and
   must be used in one order, under bounds on what may be in flight.
2. Three artifacts per task (part, receipt, report) that are written one after
   the other, so a kill leaves every prefix, and a kill during the repair of an
   earlier kill leaves more; published directories that are renamed entry by
   entry.
3. Two writers of one name: a rival executor, a Pod that could not be deleted and
   still runs beside its successor, two stagers, two assemblies.
4. Calls that take effect although their answer is lost, at the scheduler, at the
   deletion and in multipart uploads.
5. Limits: retry budgets, deletion budgets, the runtime and the cost watchdog,
   deadlines against two clocks.
6. Bounded external merging, cumulative quotas, greedy packing and balanced
   ranges, where an off-by-one loses or doubles a document or idles a worker.
7. Files that are sound by themselves and do not belong together: artifacts of
   another plan, profile, index or run, and a requests file that is edited while
   it is answered.

Two limits of the code are known and have no property, because no document
promises more: a run whose tasks were executed under two commits or batch sizes
has no homogeneous summary and cannot be finalized (`portable.rs:6095`), and
`catalogue build` replaces an earlier catalogue file before it admits the new one
(`catalogue.rs:271`; a file left by a refused build is refused by every later
admission, which `AdmittedChain` covers).

## 2. Modules and their correspondence to the code

Every definition that stands for code is listed in `PROJECT.json` under `map`
with its lines. Definitions introduced as *Mutant* or *Mutated form* are
deliberately wrong variants, which show that each property can fail; no
specification uses them.

How the modules build on one another:

```
Common <- Projection <- BenchmarkSelection <- Prepare <- MCPrepare
Common <- TokenPlan <- Bundle, EmbeddingResults <- Pipeline <- MCPipeline
Common <- Ranking <- FastIndex <- MCFastIndex, FastIndexProofs
Common <- Catalogue, SealedVectors (with QueryVectorSet) <- QueryRun
QueryRun <- MCQueryRun
QueryRun, Pipeline <- ArtifactProofs
EmbedTask (refines PublishOnce) <- EmbedTaskProofs
Provider (with QueryVectorSet) <- MCProvider, ProviderProofs
PodSupervisor, RunpodWorker <- PodProofs
RunpodWorker <- MCRunpodWorker
TaskRecovery <- TaskRecoveryProofs
TaskRecovery, RunpodWorker <- MCRecovery
ModelTree <- ModelHydration, MeasuredPolicy <- Conformance
ModelHydration, Conformance <- CandidateProofs
VolumeStage, VolumeFetch (over Bundle), StorageChallenge <- VolumeProofs
VolumeStage, VolumeFetch, ModelHydration, Conformance,
    StorageChallenge <- MCVolume
```

`ModelTree` and `MeasuredPolicy` hold the state in which the results of the modules
after them are read, and the property each promises of it (`TreeExact`,
`PolicyMeasured`); the module after them says how the results come about.
`MCVolume` extends them, `VolumeFetch` (`FetchedExact`) and `StorageChallenge`
(`ChallengeAnswered`), so that the run checks the very definitions that are proved.
Modules that one proof module extends together name their states and actions apart
(`SupervisorNext`, `ConformanceNext`, `ChallengeNext`, `FetchNext`, `PipelineNext`).

`Common` holds notation only: results that may be errors (`Ok`, `Err`), loops
that stop at the first error (`TryFold`), slices and chunks.

`MCRecovery` and `MCVolume` put several systems into one run. The systems of one
run share no state, so a behaviour is one of any of them: a variable chosen in the
initial state (`place`, `system`) says which.

### Projection, BenchmarkSelection and Prepare: from rows to prepared corpora

`source[r]` is the admitted snapshot: the row groups of every relation, each a
sequence of rows, a row being the outcome of its projection (structured, invalid,
or a document id with a body). `Open`, `ProjectGroup`, `MergeGroup` and
`EndRelation` are the scan in waves of `Workers` row groups, which is common to
`census`, `prepare` and `prepare-benchmark`; the groups of a wave finish in any
order. Inside a group, `MapRanges` cuts the decoded batches into ranges.
`BeginMerge` and `MergeNext` are the heap merge of the spilled document runs;
`Seal` builds the shards and repeats the manifest's checks; `Publish` renames;
`Report` ends a census; `Select` and `WriteCorpora` are the middle and the end of
`prepare-benchmark`. `Rival` is another process that takes the destination.

`BenchmarkSelection` has the length strata from percentiles, the cumulative
quotas, the nested selection and the checks on the manifest's rows. The digest by
which candidates are ordered is a fixed total order (`SelectionKey`).

### TokenPlan, Bundle, EmbeddingResults and Pipeline: the artifact chain

A digest is modelled by the content it is the digest of. `TokenPlan` has the
greedy packing and its inverse, the slices of document objects that a task
selects; `Bundle` the balanced ranges of workers, and the validation of bundles,
markers and run reports; `EmbeddingResults` what a results directory must hold to
be admitted (parts, receipts, reports, summary, manifest).

`Pipeline` is the operator with two working areas: `PlanEmbeddings`,
`PlanEmbeddingsTei`, `Embed`, `TestEmbed`, `FinalizeEmbeddings`,
`DeriveEmbeddings`, `Assemble` and `BundleBuild` are given a corpus, a plan, a
profile and a results directory that need not belong together, and `CopyAny`
copies a file of one results directory into another. A command that refuses
changes nothing. Commands run one at a time.

### EmbedTask: one call of `execute_embedding_task_reported`

`nextSpawn`, `nextWrite` and `active` are the loop's own counters; `phase[b]`
says where batch `b` is: unspawned, in its HTTP request, in a back-off,
returned, in the reorder buffer `completed`, or written. `attempts` and `answer`
belong to the batch tasks, `written` is the staging file, `output` the file at
the output path.

| Action | Code |
|---|---|
| `SpawnBatch`, `EndFeed` | the two spawning loops, whose common condition is `MaySpawn` |
| `Respond`, `TemporaryFailure`, `PermanentFailure`, `Retry` | one turn of the retry loop in `spawn_batch` |
| `Join` | `join_next` and its error returns |
| `DrainBatch`, `EndDrain` | the `completed.remove(&next_write)` loop: model check, vector validation, write, counters |
| `Finish`, `Link`, `Unlink`, `Verify` | the writer's `finish`, `AtomicFilePublication::commit` in its two halves, verification of the published shard |
| `IoError`, `Crash`, `RivalPublishes` | a failed file operation, a kill, another process that executes the same task |

An executor that fails drops its publication, which removes the staging file and
ignores a removal that fails (`Fail`): also when the failed operation was the removal
after the link, which leaves the shard published. So only a success says that no
staging file is left, and `DoneIsOwnResult` says that of it.

The vectors that the service returns for a row are one member of `Variants`: two
members are two byte strings for one text. The code compares only digests and
validity, so this is what the properties distinguish. The refusal of an empty
task and of options outside their ranges is the assumption `OptionsAssumption`.

`PublishOnce` is the abstract specification: a path that is filled at most once,
with a complete shard in text order, and never changes afterwards. The executor
refines it with `file <- output`.

### TaskRecovery: the files of one task under all commands

`file` and `held` map part, receipt and report to their contents and to those of
their quarantine siblings. A part is its bytes; a receipt is an identity and the
bytes it names; a report names a receipt and the execution identity. Receipts of
two executions always differ, since a receipt holds the elapsed time. A command
is a chain of steps with a kill possible between any two. `backend`, chosen from
`Backends` in the initial state, selects `embed` (`lmstudio`) or `embed-tei`
(`tei`), which differ in when a report is required for reuse. `Execute` is the
promise of `EmbedTask`: the part is linked, or the existing one has the same
bytes.

The steps are, for `embed`: `ValidateCompleted`, `ReuseTei`,
`QuarantineReceipt`, `QuarantineReport`, `PreparePart`, `Execute`,
`SealReceipt`, `WriteReceipt`, `EnsureReport`, `WriteReport`, and the three
`Complete...` steps that delete resolved quarantines; for the recovery command:
`Inspect`, three `SetAside...` steps and `RestoreFiles`; for finalize: check,
summary, manifest, coverage. `Damage` makes a file invalid while no command
runs. One command works on a task at a time.

### RunpodWorker: several Pods on one volume

The volume's files are functions of task or assignment; every Pod has its own
`pc`, launch arguments, current assignment and task. `Launch` starts at the first
assignment without a marker, as the operator's commands do, and may happen while
an earlier Pod still runs; `Restart` is the platform starting a container again
with its old arguments. `CheckMarker`, `Conformance`, `CheckQuery`,
`PublishQuery`, `CheckTask` (`reusable_output`), `Execute`, `PublishReceipt`,
`PublishReport` and `PublishMarker` are the steps of `execute_assignment` in
order. The error path of `run` publishes `failed.json`. `ServiceError` and
`Crash` are the faults. `MCRunpodWorker` adds the symmetry of Pods, attempts and
byte strings for the safety run; `MCRecovery` has one Pod at a time for liveness.

### PodSupervisor: `pod create`

Both the worker and the conformance form of the command. The host goes through
scheduling, the schedule receipt, admission, the launch receipt, the worker
observation, the watchdog loop, deletion with retries and the final receipt, with
one action per call or write. Every call takes between 0 and `MaxCall` ticks and
may fail; a failed schedule or delete call may have taken effect. The Pod starts,
exits or is terminated at any time; the worker publishes a marker or a failure
record at any time while it runs, and either may lie on the volume from an
earlier attempt. The price is abstracted to `CostLimit`, the tick at which the
total is spent. `Sleep` keeps the code's asymmetry: the runtime limit is compared
with a fresh clock, the cost limit with the clock at the top of the loop
(`observed`). `leak` is a history variable: the reasons why the host may have
left its Pod alive.

### VolumeStage: `runpod stage`

Several stagers work through the objects of their bundles, `bundle.json` last.
`pc`, `at` and `outcome` are the command and its loop; `next`, `sending` and
`done` are `next_part`, the attempts of the parts in the `JoinSet` and
`completed_parts`; `upload` is the multipart upload as the volume sees it and
`cleanup` what the command says of its abort. `CheckObject` and `VerifyStaged`
are the resume path (length first, then the ETag of the local bytes in the fixed
layout), `Precheck` and `PutSingle` the conditional request, `CreateUpload` to
`Confirm` the body of `put_multipart`, and `AbortUpload` is `multipart_failure`.
The `...Fails` actions are failed calls, with or without effect, and `Kill` ends
a stager anywhere. A content is an identity and a length, because `head_declared`
sees the length and the ETag tells the identity. `MCVolume` defines two bundles
with a common large model and different small objects. `BundleLast` relies on
stagers that agree on their large objects: completion of a multipart upload is
not conditional, and the HEAD after it compares the length only.

### ModelHydration: the worker downloads the model

Names are links to inodes, so a download that has the partial file open goes on
appending to it whatever happens to its name. `Start`, `Consider`, `Join` and
`Serve` are `hydrate_candidate_model_tree` with its `MaxDownloads` tasks and the
validation of the whole tree; `Open`, `Create`, `Request`, `Respond`, `Receive`,
`EndBody`, `Seal`, `Link`, `Unlink` and `Check` are the attempts of
`hydrate_model_object`. A response may be refused, break off, carry a wrong byte or
too many; `Kill` ends the worker anywhere. Every object has a partial file of its
own: its name is the stem of the object's name, and the 17 paths that
`tei_profile.rs:19` pins and `rag-runpod-worker/src/lib.rs:649` compares have
different stems. One worker process at a time works on a volume.

### VolumeFetch: `runpod fetch` and `verify`

`GetMarker`, `GetOutput`, `GetQueryVectors` and `Assemble` fill a private
directory, `DirectoryVerified` is the verification, `Reserve` and `Move` the
publication entry by entry. `Complete` is a worker that publishes its marker,
`Misplace` puts another marker at a worker's key, `Disturb` changes an object of the volume,
`Alter` a published file. A second fetcher works on the same directory.

### Conformance: measured candidates and the sealed policy

Every prefix of the volume holds a staged candidate, one measured output, and an
observation and a result per run id. `Stage`, `CreatePod`, `Measure`,
`PublishOutput`, `PublishResult` and `Restart` are the host's and the worker's
steps; `Seal` takes two fetched result directories, which may have been altered,
and a draft policy, to which it adds the measurement (`Sealed`). The engine may
compute different vectors on different Pods. The model files are exact, as
`ModelHydration` shows.

### StorageChallenge: `storage-challenge create`

`prefix` maps the keys below the run prefix to the command whose challenge they
hold or name: the challenge is random, response and failure records are bound to
it by digest, so this is all a reader can tell. `host` holds one record per
command and `pod` one per Pod with the worker in it. The host looks for every key
(`CheckUnused`), claims the prefix with the conditional upload of the bootstrap
file (`PutBootstrap`), schedules, writes its receipts, admits, uploads the
challenge (`PutChallenge`) and watches response, failure records and Pod in the
order of the code (`PollResponse`, `PollFailure`, one code at a time,
`PollStatus`); it deletes the Pod before it fetches. The worker is `WorkerStarts`,
`Probe`, `CheckContract`, `ReadChallenge` or `WaitFails`, and `PublishResponse`;
each error path publishes a record for the codes that have one, or fails to.
`MountShows` lets the mount show the challenge late and in part. The ten failure
codes are the four that arise in different places. A limit of the watchdog may be
reached in any round; its ticks are the subject of `PodSupervisor`, as are the
waits of admission.

`ChallengeAnswered` is what `docs/runpod-embedding.md` says of the command: the
challenge is never there before the Pod is admitted, and success means that the
worker read it. It adds that two commands with one prefix never have two Pods,
although both may find the prefix unused.

### Ranking and FastIndex: one index

`Ranking` has the tokenizer, both stored lexical forms, BM25 over each, dot
products, reciprocal rank fusion and the order of equal scores, with fixed-point
scores (`Ln` stands for `f64::ln`). `FastIndex` assembles an index from streams in
a staging directory (`Begin`, `Build`), publishes it by a rename (`Publish`),
opens it with all bindings of its files (`Open`) and answers queries (`Query`).
`Kill` ends an assembly, `CopyOver` puts a file of another index over one of a
closed index. An index directory is not changed while it is open.

### Catalogue, SealedVectors and QueryRun: queries

`Catalogue` says which catalogues are valid, how one is built and what admission
compares with the disk. `SealedVectors` writes and opens a query-vector set.
`QueryRun` is the command line: `Build` with `AdmitBuilt`, `ValidateCatalogue`,
`SearchCatalogue`, `SimilarCatalogue`, the batch run in its steps (`ReadPlan`,
`AdmitBatch`, `Stage`, `CopyRequests`, `AnswerLexical`, `AnswerSealed`,
`AnswerEndpoint`, `Publish`), and the commands on one index (`QueryIndex`,
`QueryIndexBatch`, `BenchmarkQuery`, `CompareIndexOverlap`). `Replace` exchanges an
artifact on disk, `ReceiveCatalogue` brings a catalogue made elsewhere,
`EditRequests` edits the requests file at any step, `Kill` ends a batch run. The
embedding service may fail or answer another vector each time. The search inside
one index is a parameter, since `FastIndex` models it.

### Provider and QueryVectorSet: one `rag-provider` process

`handshaken`, `nextSession` and `sessions` are the fields of `Provider`; `pc` and
`request` are the place of the one line in hand, because `serve` reads the next
line only after it has answered. A session is the proposal it was opened with,
together with what the mounted files said; a digest is a name, and the digest of a
file is its field `sha`.

| Action | Code |
|---|---|
| `Receive` | `handle`: the shape of the line and its deadline, which may have passed while the line waited |
| `Handshake`, `NotShaken`, `Health`, `Close` | the methods of these names and `require_handshake` |
| `BeginOpen`, `FinishOpen` | `open`: all checks (`Opens`, one operator per file), then the id and the insertion |
| `BeginCall` | `call` up to the search: limits, deadline, tool, candidates, the sealed vector |
| `Embedded`, `EmbedFails`, `EmbedTimeout` | `embed_bound_query` and the client's timeout |
| `Search`, `Enforce` | the index and `enforce_call_output` |
| `Tick`, `SetBack` | time, and a system clock that is set back (external) |

Time is counted in ticks. `left` is what remains to the deadline on the system
clock, `elapsed` what passed since `started` on the monotonic clock, `waited` the
age of the embedding request or the search, and `wall` is `effective_wall_ms`.
`due` and `granted` are history variables: `left` when the call began, and the
proposal that every id was given for. `QueryVectorSet` defines the valid query
plans, the order of their unique texts (the rows of the vector file) and the lookup
of a request: by the text, the text composed under the embedding profile
(`ComposeQuery`, that of the set on one side and that of the session's index on the
other) and the surface. Time filters are abstracted to their presence, which is what
the sealed lookup refuses; the composed digest that names a session's binding in
responses is left out.

## 3. Runs

| Run | Instance | What it shows |
|---|---|---|
| `embed_task` | 4 batches over 2 slots, 2 attempts, 2 byte strings, a rival publisher | `LoopNeverStarves`, `StatsExact`, `DoneIsOwnResult`, the refinement `PublishesOnce`, `Termination` |
| `task_recovery` | host: `embed` with 3 faults or `embed-tei` with 2 execution identities and 2 faults, 2 byte strings, one damaged file, all commands; volume: 1 Pod at a time, 2 assignments of 2 tasks, 1 attempt id, 2 byte strings, 3 faults | `NoCompletedTaskRepeated`, `NothingOverwritten`, `OkMeansComplete`, `QuarantineSparesComplete`, `HostConverges`, `PodsRecover` |
| `task_restart_tei` | `embed-tei`, 2 kills | `EveryTaskRestarts` is violated, finding 1 |
| `runpod_worker` | 2 Pods, 2 assignments of 1 task, 2 attempts, 2 byte strings, 1 fault | `MarkersSound` |
| `runpod_half_published` | 1 Pod, 2 assignments of 2 tasks, 1 fault | `Recovers` is violated, finding 2 |
| `pod_supervisor` | limits 7 and 6, poll interval 2, calls of 0 or 1 tick, 2 deletions, 3 errors | `OkMeansDone`, `NoSilentLeak`, `WatchdogBound`, `Returns` |
| `volume` | staging: 2 stagers with a common large model, 3 parts over 2 slots, 2 attempts per part, 4 faults; hydration: 3 files of 1 to 3 units, 2 at a time, 2 attempts, 2 faults; fetching: 2 fetchers, 2 workers, 3 tasks, 2 faults; conformance: 12 candidate templates, 5 drafts, 2 prefixes, 2 run ids, 3 containers, 2 outputs; challenge: 2 commands with one prefix, 2 containers per Pod, 2 deletions, 2 faults | `BundleLast`, `TreeExact`, `FetchedExact`, `PolicyMeasured`, `ChallengeAnswered`, `RerunsComplete` |
| `provider` | 2 sessions, deadlines of up to 3 ticks, a wall time of 2, searches of up to 2, a plan with a repeated and an ambiguous text, proposals that differ from a good one in one field | `SessionAdmitted`, `VectorOfQuery`, `AnsweredInTime`, `Answers` |
| `prepare` | small snapshots of two relations and a metric relation, 2 workers, runs of one document, shards of two rows, a rival at the destination | `PreparedExact`, `CensusExact`, `BenchmarkExact`, `RefusedForCause` |
| `pipeline` | 2 areas, 3 plannable and 3 refused requests, one file copied by hand | `IndexHoldsItsCorpus`, `TasksPartitionCorpus`, `AssignmentsNearShare`, `SummaryMeasuresRun` |
| `index` | 2 processes, 2 assemblies, 4 sound and 14 broken inputs, 3 documents with 6 occurrences, one copied file | `HitsExact`, `OpenedAsPublished`, `PublishedStays` |
| `catalogue` | 2 overlapping datasets, a test-only and a reduced index, 8 builds, 8 foreign catalogues, 5 request files, 6 model answers, 1 artifact replaced, 2 edits | `RunsExact`, `AnswersExact`, `AdmittedChain` |

Each property is stated in words above its definition. Where several systems
share a run, the MC module repeats or restates the property of each.

Why the bounds are enough:

- *embed_task.* With four batches over two slots, a slow first batch lets the
  others fill the reorder buffer to its limit while one is left to spawn. Two
  attempts give a first failure, a retry and a last failure. A short last batch
  does not occur in this instance; the safety results, which do not depend on
  these numbers, are proved for every row count and batch size (section 5).
- *task_recovery.* Two byte strings distinguish "same bytes" from "other bytes",
  the only distinction the code makes. Two kills are needed for a kill during the
  repair of a kill; `embed` is allowed a third fault. On the volume, two tasks per
  assignment leave one published and one open, and three faults allow a failed
  recovery of a recovery. A worker may embed the task of an orphan part with other
  bytes and is then refused, any number of times. A second attempt id would add
  nothing: with one Pod at a time no worker meets a marker of its own assignment
  under another id, since `Launch` starts behind the marked ones (`runpod_worker`
  has two).
- *runpod_worker.* Two Pods, because the volume operations involve one writer and
  one other; two assignments, because the order of markers needs two. Execution
  needs a free receipt identity; `MaxIds` is as large as the number that can be
  alive at once (one per task and one per Pod), so it never blocks a step.
- *pod_supervisor.* The runtime and the cost limit differ, the sums of calls and
  sleeps reach them from either parity, so the sleep is cut by each; three errors
  cover a failed poll followed by two failed deletions, the whole deletion budget.
- *volume.* Parts exceed the concurrency, so a part is spawned after another has
  completed, and parts complete out of order; four faults exhaust the attempts of
  a part, fail its abort and kill the next stage. The two stagers meet on a key
  with equal bytes (the model) and on keys with different ones. Hydration has more
  files than slots and files longer than one unit, so that a resume starts in the
  middle of one. Two fetchers race for one directory, two faults are a kill
  between two renames and a file changed afterwards, and the markers that may be
  misplaced differ from the right ones in one respect each. Two run ids and three
  containers are the fewest that allow both a policy and a container that is
  started twice. The accelerators are abstracted. Two challenge commands race for
  one prefix; two faults exhaust the deletions, or kill a host and fail its
  successor, and a second container meets the answer of the first.
- *provider.* The second session is opened with the first one open, closed or
  unknown. The deadline may lie before, at or after the wall time, and the search
  may end before, at or after either. For every field of the mounted files some
  proposal differs in that field alone.
- *prepare.* With a buffer of one document every document is spilled, so the heap
  merges as many runs as there are documents; the two row groups of relation 1 are
  a full wave, the one of relation 2 is a short wave, which cuts its batch into
  ranges.
- *pipeline.* Two areas are the fewest in which plans, profiles and results can be
  exchanged. The copied file is one whose name exists in the other directory: same
  kind, task starting at the same document. One of the workers sees another
  accelerator than its policy's and is refused (`WorkerContextValid`). `WorkerCounts` holds no worker, as
  many as allowed, and one too many.
- *index.* The instance has equal scores, documents with several occurrences of
  which only one matches, more occurrences than the evidence limit of 2 and more
  documents than some `top_n`. Every broken input breaks one check. The file that
  is copied comes from an index of the same documents with one later event, or
  from a diagnostic one, so that most of its files have the bytes of the index
  they replace. Times lie below the largest storable one: the code clamps larger
  bounds to it (`rag-index/src/lib.rs:2521`), which no real event meets.
- *catalogue.* The overlap of two datasets, with and without an allowance, gives
  equal ranks and documents in two indexes. Two edits can change the requests file
  before and after its copy.

`CHECK_DEADLOCK FALSE` is set where the system really may stop: the recovery and
worker runs, whose work may be complete with nothing left to do, the supervisor,
and the runs `volume`, `pipeline`, `index` and `catalogue`, whose bounded commands
end.

## 4. Fairness

- `EmbedTask`: weak fairness of the loop and of each batch task. The runtime polls
  both, and the HTTP client's timeout turns a silent service into a failed
  request. Crashes, I/O errors and the rival are never required.
- `MCRecovery`, on the host: a command that is not killed takes its next step
  (weak), and the operator keeps running `embed` and the quarantine action (strong,
  because another command may be running each time). The service does not for ever
  answer with other bytes than a part already published. `RestoringSpec`, for
  finding 1, even assumes that the restore action is run again and again.
- `MCRecovery`, on the volume: a worker that is not stopped runs on, and the
  operator launches a Pod again while assignments are left (strong, because the last
  Pod may still be there). A Pod that embeds the task of an orphan part with
  other bytes is refused; the service gives the part's bytes again in the end
  (`Reembeds`, strong). That is an assumption about the service, not about the code,
  and `PodsRecover` needs it: without it TLC finds the behaviour in which every Pod
  embeds the task with the other bytes and none commits. Faults are bounded
  by `MaxPodFaults` and never required.
- `PodSupervisor`: calls return and sleeps end (the clients carry timeouts).
  Nothing is assumed of the Pod, the worker or the platform.
- `MCVolume`: a stager that is not killed takes its next step, and a stage that
  failed is run again; likewise a worker that downloads, whose attempts get a sound
  answer once the bounded faults are spent. That commands are run again is the
  operator's part.
- `Provider`: the process runs on, a search ends and time passes. Nothing is
  assumed of the embedding service, which may stay silent, or of the host.

The other runs state safety only.

## 5. Proofs

### EmbedTaskProofs

From `OptionsAssumption` and `AnswerAssumption`, for every number of rows, batch
size, slot count and retry budget that `EmbeddingTaskOptions::validate` admits:
`TypeCorrect`, `ReorderBounded`, `NeverStarves`, `DoneOwnResult`,
`CountersExact` and `ImplementsPublication` (the refinement of `PublishOnce`).
`ReorderBound` is proved and no run repeats it.

None of these is inductive by itself. The inductive invariant `IndInv` adds:

- `InOrder`: the written batches are those below `nextWrite`, the unspawned ones
  those from `nextSpawn` on;
- `Counted`: `active` is the size of the `JoinSet`, and together with the buffer
  it is below `2 * MaxInFlight`. The bound is strict because a batch is spawned
  only while both parts are below `MaxInFlight`;
- `Waiting`: while the loop feeds or joins, batch `nextWrite` is not in the
  buffer, since the drain loop has taken it out, and when it joins nothing more
  may be spawned;
- `RowsOf`: the staging file holds the rows of the written batches, each at the
  position of its text, with the vector its batch answered;
- `Ending`: what holds at the steps after the loop.

The starvation argument shows the use of these parts. Suppose the loop waits and
the `JoinSet` is empty. Then `active` is 0 by `Counted`, so by `Waiting` and
`~ MaySpawn` either all batches are spawned or the buffer is full. In the first
case batch `nextWrite` is spawned, not written and not in the `JoinSet`, so it
is in the buffer, against `Waiting`. In the second case the buffer holds a batch
above `nextWrite`, so `nextWrite` is spawned by `InOrder`, and again it must be
in the buffer.

The lemmas `DivLemma`, `RowsBeforeFacts`, `BatchSlice` and `AppendBatch` give the
arithmetic of slices and what appending one batch does to the file; there is one
step lemma per kind of action.

`CountersExact` compares the counters with a fold over all batches. `StatsAddUp`
first says the same with a running total: the requests that a successful call
reports are the last of a sequence of totals, each of which adds the attempts of
one batch, and its retries are one less per batch; the invariant `Summed` follows
that sequence batch by batch. `TotalIsSum` then shows that the fold is such a
sequence. The library's induction theorems cannot be used for this (they take an
operator), so this and similar proofs look at the least counterexample:
`LeastNumber` gives it, from the well-foundedness of the natural numbers.

### PodProofs

*The host.* From `SupervisorAssumption`, for all limits, intervals, call times and
budgets: `TypeCorrect`, `SuccessMeansDone`, `LeaksHaveReasons` (a Pod is left only
for a recorded reason, and named in a receipt) and `WatchdogBounded`.
`SupervisorInv` adds to the types

- `ReceiptsFirst` (a receipt is on disk before the steps that rely on it),
- `Progress` and `TriesLeft` (what the host has not done yet at each step, and the
  deletion attempts that are left),
- `CompletedMarked` and `PodKnown` (what the host has learnt of the volume and of
  the Pod stays true, because markers are never removed and a Pod that is gone
  does not return), and
- `RoundBound`: inside a round the clock is at most one call per poll after
  `observed`, which is below both limits. Hence the sleep, cut by the remaining
  cost at `observed` and by the remaining runtime, ends at most three calls after
  the earlier limit. `SleepBound` and `RoundSlack` hold this arithmetic.

*The worker.* From `WorkerAssumption` (at least one assignment and one task in
each, `None` names nothing else), for any number of Pods, assignments, tasks and
faults: `WorkerMarkersSound` and the action property `FilesNeverReplaced`.
`MarkersSound` is not inductive, since a marker is written from what the worker
remembers of files that other Pods may have published meanwhile. `IndInv` adds

- `ArtifactsChained` (a receipt lies over its part and a report over its receipt),
- `MarkedExact` and `MarkedPrefix` (what the markers say of the volume),
- `InRange` (the assignments before a worker's place are marked, although its
  launch arguments may be old),
- `Progressed` (the outputs a worker remembers of its earlier tasks name the files
  on the volume) and `InHand` (the receipt it is about to publish names the part
  on the volume).

`StepKeeps` shows that a step of one Pod replaces no file and leaves the memory of
the other Pods alone; `OthersKept` concludes that what the invariant says of them
goes on holding, so that each action is proved for its own Pod only.

### ProviderProofs

From `ProviderAssumption` alone, for all proposals, calls, plans and limits:
`SessionsAreAdmitted`, `VectorsOfQueries`, `OutputsAreInTime` and
`RefusalsAreClean` (no run repeats the last). The
inductive invariant `Registered` says that ids were given in order (the granted
ones are at most `nextSession`, so the next one is new), that open sessions are
among the granted ones with the same binding, and that each has passed `Opens`.
`ChainClosed` derives the end-to-end statement from the pairwise comparisons.
That a session table is a function is part of `Registered`: the refusal of a
`close` restricts the table to its own domain, which changes nothing.

`OutputsAreInTime` rests on a second invariant, `Timed`: from the beginning of a
call to its end, `wall` is at most what was left to the deadline then (`due`)
and at most the session's wall time. Since `Enforce` compares the monotonic clock
with `wall`, a system clock that is set back cannot prolong a call.

`VectorsOfQueries` has the invariant `Addressed`: while a call is in hand, a
vector taken from the sealed set has the row that `VectorRow` gives for its request,
whatever profile the set and the index were composed under.
`WithQueryExact` and the fold over the plan show that the rows of the vector file
are the semantic queries of the plan, each id once (`RowsExact`), so that the only
row with the text and the surface of the request is the row of every query
of the plan with that text and surface.

### TaskRecoveryProofs

From `RecoveryAssumption` (names do not collide), for either backend, any
execution identities, byte strings, numbers of kills and of damaged files:
`CompletedTasksNotRepeated`, `FilesNotOverwritten`, `SuccessMeansComplete` and
`CompleteTasksSpared`, which are the four safety properties of the host's run. The
inductive invariant says at every step of every command what the command has
learnt of the files: `ReceiptInHand` and `AuthorityKept` for `embed` up to the
execution, `Resolved` for the removal of quarantined files, `SetAsideIncomplete`
for the quarantine action, `FinalizedExact` for `finalize`, and `OwnStep`, which
ties the steps to their command. It does not speak of the state between commands:
a kill may leave any combination of files, and every command has to make sure of
what it needs.

### VolumeProofs

*Staging.* For any number of stagers, objects, parts, tasks and failures:
`BundlesAreWhole` and `StagedNeverReplaced`, if bundles that are staged under one
prefix agree on the objects that are uploaded in parts (`LargeShared`). The code
needs this hypothesis: keys are not derived from contents, the completion of a
multipart upload replaces what is at its key, and the HEAD after it compares the
length only. Two operators who stage different weights of one length under one
prefix could make a bundle whose `bundle.json` names the other weights; the digests
that the worker compares catch that later.

Single requests are conditional, so what is on the volume is always the whole
object of some stager. `Closed` is the heart of the invariant: whoever's
`bundle.json` is on the volume, that stager's objects are. It follows since a stager
reaches its last object only over the earlier ones (`Placed`, part of `InTurn`) and
nothing on the volume is replaced. `AllPartsSorted` shows that
the list with which an upload is completed is the list of all parts in their
order, however they came back: `PartsKept` says that each part that was spawned is
either being sent or in `completed_parts`.

*The storage challenge.* Assuming that no command is named like an absent object,
for any number of commands, containers, deletion attempts and faults:
`AnswerProvesStorage` and `ObjectsNeverReplaced`. `ChallengeInv` has `Claimed`
(only the command whose bootstrap object lies on the volume has a Pod, so two
commands that both found the prefix unused do not have two), `Recorded` (the
receipts on disk before the challenge is uploaded), `Answered` (who has answered
had read the whole challenge), `PodAccounted` and `Succeeded`.

*Fetching.* `FetchedDirectoriesExact`, which is `FetchedExact`: for any bundle and
markers, any number of fetchers, kills and exchanged files. `FetchAssumption` is
what `validate_assignments` and `RunpodWorkerAssignment::validate` check: one
assignment for every worker and no task twice in it. `OneAttempt` says that no
other completed, valid marker of a worker can lie at its key. The code needs it: a
marker declares the digests of its outputs itself, so two completed attempts of one
worker would both verify. That a marker is published only once, and never
replaced, is proved of `RunpodWorker`.

The reference definition (`Exact`) and the verification say different things, and
`VerifiedIsExact` is what lies between them. `verify` reads the marker at the key
of every assignment, and the report asks for a completed attempt for every
assignment, but neither says that the marker at a worker's key is that worker's.
`MarkersVerified` adds them up: the completed attempt that the report found for a
worker is one of the markers read, and verify compares each with what lies at the
key of the worker it names. `TasksOfAttempt` shows that a marker has no output that
is not in its assignment, although `OutputsValid` only looks for each task of the
assignment (as many different outputs as tasks leave no room for another), and
`OutputsListed` what the nested loops of `output_objects` list; it rests on
`FlattenHas`, by the least counterexample over the prefixes. So the embedding files
that `CoversPlan` admits are those the markers declare.

`FetchInv` carries this to the published directory: `Publishing` fetchers are alone
with it, what one of them has moved is what it had verified, as long as nobody
else changes the directory, and every marker, on the volume, in a private
directory or published, is one that may lie at that key (`RunKnown`,
`DirectoryKnown`).

### CandidateProofs

*The model files.* From `Declared` (natural numbers and names that are objects),
for any number and sizes of model files and any limits: `ServedTreeIsExact`. What
is proved about the worker that goes on to load the model (`Dropped`) needs no
more than that it reads the tree once more. For what is proved about every moment,
`Apart` says that no file is that of two objects, and `Own` that a download appends to its partial file only as long
as that has no final name, and that between digest and link the partial file is
still what was digested. `Apart` must allow the final and the partial name of one
object to be links to one file, because a worker may be killed between link and
unlink. `FreeInode` shows that the model's three inodes per object are enough for
a new partial file to be really new.

*The policy.* Without assumptions, for any templates, drafts, run prefixes, run
ids, outputs and containers: `PoliciesAreMeasured`. `PodMeasured` says that what a
Pod is about to publish it has measured for the candidate of its prefix,
`ResultMeasured` that every result on the volume was measured in its own run, and
`RunOfPod` that a Pod belongs to one run. Hence two results of two runs come from
two Pods, even if the observation names another one, a container was started twice
or the two Pods share a prefix. `LoadedMeasured` carries this to the directories
that `seal` loads, whose files may have been exchanged: only those are loaded
whose output is the one the result declares.

`Declared` and the assumptions about the names of commands, about the large
objects and about the markers (`OneAttempt`) are checked by TLC for the instance of
the run `volume` (`VolumeAssumption` in `MCVolume`).

### ArtifactProofs

*The catalogue and its readers.* From `QueryRunAssumption` (the shape that parsing leaves of artifacts, catalogue
files and options, nothing of their contents), for every disk, any replacements,
edits, kills and foreign catalogues: `ChainsAdmitted`, which is `AdmittedChain`.
Whatever a batch run was admitted with, whatever a printed answer came from and
whatever the admission of a built or validated catalogue printed, its entries each
bind four artifacts of one chain, with the identities that the catalogue seals,
and every relation of two datasets has its allowance.

The code never states this: it compares neighbours (`StrictlyAscending`, the
comparison of an entry with the one before it), digests of pairs of artifacts, and
the profile of each index with the catalogue's. The proof shows what these
comparisons add up to:

- `CatalogueSound`: a valid catalogue names each dataset once (ids that ascend from
  neighbour to neighbour differ anywhere, `NeighboursAscend`) and has an allowance
  for every overlap of two of them (`OverlapAllowed`): the code only checks that every allowance is for an overlap, that they ascend
  and that there are as many as overlaps, so none is missing. That an allowance
  names all owners rests on `AscendingLists` (listing a finite set of numbers in
  order reaches every member), which `RanksNumber` supplies: in an ordered finite
  set, the numbers of predecessors number the members.
- `BoundIndexesChain`, `AdmittedForQuery` and `AdmittedInFull`: the pairwise
  bindings that the two admissions check close the chain from the prepared corpus
  to the index.
- `BatchHolds` and `Holding`: a batch run keeps what it was admitted with, in all
  its steps, while the disk, the catalogue and the requests change under it.

*Plans.* `TasksCutCorpora`, which is `TasksPartitionCorpus`: for any corpora,
profiles, token counts, limits and working areas, and any order of commands,
copied files included. `CorporaAssumption` says that the documents of a corpus are
a sequence of objects, each a sequence of rows, and that a corpus is what its
component digest identifies; `RequestsAssumption` that limits and token counts are
numbers and that the name of a profile, which stands for its file, identifies it;
`PipelineAssumption` that dimensions are numbers. TLC checks them for the instance.
That the counts are positive and within the limits is not assumed:
`CountTokens` refuses the others.

The invariant (`AreasInv`) asks little of plans (`PlanGood`), because a plan is
written once: only `PublishPlan` and `DeriveEmbeddings` write one. The argument is
about what one `BuildPlan` and its validation add up to (`BuiltCutsCorpus`):

- Both recursive functions of the planner, the walk to the end of a task
  (`TaskEnd`) and the ranges from every start (`TaskRanges`), and the loop over the
  counts are shown to be defined at all, and to have their values where they belong
  (`WalkExists`, `WalkStops`, `CutsExist`, `CutsListed`, `CountedExists`,
  `CountsAreNumbers`): by the least counterexample, from the last document
  backwards. `EndIsMaximal` is the greedy step: a task ends where the next document
  no longer fits.
- The validation of a plan never compares rows, only numbers: each slice begins
  where the one before ended, each task begins where the one before ended, and the
  last ends at the document count. `SliceIsPiece` (a range of rows of one object is
  a range of rows of the corpus), `TaskRowsArePiece` and `TasksSelectDocuments` show
  that this is enough for the tasks to select every row once and in order; they rest
  on `PiecesFlatten`, that consecutive pieces join to what they were cut from.
- `DerivedCutsCorpus`: a derived plan has the same tasks.

*Indexes.* `IndexesExact`, which is `IndexHoldsItsCorpus`: an assembled index holds,
in the order of one corpus, the vector its own profile gives to each document, and
is marked test-only exactly when no model produced them, whatever directories were
mixed up and however many files were copied by hand. That commands validate what
they are given is not an invariant, since between two commands anything may lie in
a directory. The invariant is about single receipts: each one, wherever it lies, is
`Genuine`, it holds what the profile it names gives to the rows it names, by the
test generator or by the model according to its executor. Copying a receipt keeps
that, and so does every command that writes one (`WrittenGenuine`):

- `EmbeddedGenuine` and `TestResultsGood`: the rows of a task are those between its
  start and its end (`TasksRead`, from the proof about plans).
- `DerivedResultsGood`: a derivation is made only from an admitted directory without
  test vectors, and a prefix of a model vector is the model vector of the smaller
  profile (`ReducedAreModelVectors`).
- `FinalizedKeeps`: finalizing never touches a receipt, whichever check fails.

On reading, `ReceiptOfTask` shows what the digests in a receipt achieve: the plan and
task it names are those it is admitted for, so the corpus and the profile of the
genuine receipt are those of the plan (`DigestNamesProfile`; a derived profile
differs from its parent only in size and parent). `TaskPiecesFlatten` then joins the
parts to the vectors of the whole corpus.

### FastIndexProofs

For every set of inputs and queries, and any number of processes and assemblies:
`OpenedWhole` (`OpenedAsPublished`) and the action property `PublishedKept`
(`PublishedStays`). Two assumptions are about the environment, and TLC checks both
for the instance: what is read from Parquet files are sequences of rows
(`FilesRead`), and the file that is copied over the index comes from an index that
the same code published (`StraysPublished`). A file made by hand with the right
digest is out of scope, since a digest is modelled by what it is the digest of.

`FromOrigin` says that the index is what its assembly produced, but for at
most one copied file. `MixtureRefused` is the argument of the theorem: the manifest
of a published index seals every other file, so one file that differs is refused,
and if the copied file is the manifest then either it is refused or the two
indexes agree in all other files, and the mixture is the other index whole.
The counts of the occurrence lookup need the only lemma about data:
`RowsCounted` identifies the positions of a document's rows with the rows, because
occurrence ids that ascend do not repeat (`NoRepeatsDiffer`).

### What stays with TLC

- Liveness: `Termination`, `HostConverges`, `PodsRecover`, `RerunsComplete`,
  `Returns` and `Answers` are beyond the prover.
- What long computations produce. `HitsExact`, `RunsExact`, `AnswersExact`,
  `PreparedExact`, `CensusExact`, `BenchmarkExact`, `RefusedForCause` and the
  other two invariants of `Pipeline` compare a result with a reference definition over
  bounded inputs: sorts, merges, folds with early errors, and searches over whole
  artifacts. Where a proof needed one fact about
  such a computation, it was proved by the least counterexample, as above. For
  these properties the whole of `Ranking`, of the external merge and of the chains
  of `TryFold` would have to be followed that way.

## 6. Findings

1. **`embed-tei` may get stuck after two kills** (`task_restart_tei`,
   `crates/rag-builder/src/portable.rs:3250`). A kill between receipt and report
   makes the next run quarantine the receipt and execute again. A second kill at
   the same place leaves a receipt both in place and in quarantine, and every
   later run refuses the second quarantine. The recovery command finds part and
   receipt valid and moves nothing, and cannot restore onto an existing file.
   `docs/local-first-embedding-scale-plan.md` says "every interrupted state has a
   safe restart or quarantine path".
2. **A worker that dies between receipt and report blocks its assignment**
   (`runpod_half_published`, `crates/rag-runpod-worker/src/lib.rs:1617`). The next
   Pod cannot reuse the task without a report, executes it and is refused by the
   existing receipt, in every attempt. `docs/runpod-embedding.md` says "a completed
   receipt is the restart authority". `PodsRecover` shows that, in the checked
   instance and with the fairness of section 4, this is the only such state.

Known limits that are part of a property rather than a finding with a run:

- The quarantine action decodes version 1 reports only (`portable.rs:4128`), so a
  complete `embed-tei` task looks incomplete to it, its report is moved and the next
  `embed-tei` repeats the task, although
  `docs/local-first-embedding-scale-plan.md` says that the command "moves only the
  invalid part and receipt". `QuarantineSparesComplete` therefore speaks of `embed`.
- The digests of the schedule receipt, the launch receipt and the bundle are
  taken with `?` between scheduling and supervision (`runpod_cli.rs:3093`, 3108 and
  3140), so a file that cannot be read back ends the command without a delete
  request, although `docs/runpod-embedding.md` says that it "always requests Pod
  deletion". `NoSilentLeak` and its proof list the complete set of reasons for which
  a Pod can be left.
- A wrong byte received in a model download stays in the partial file, which is
  only ever appended to (`rag-runpod-worker/src/lib.rs:1957`). No wrong model is ever served
  (`TreeExact`), but the download may then never complete: `RerunsComplete` is
  stated for the other cases.
- The challenge worker reads the file as soon as its name is there
  (`rag-runpod-worker/src/lib.rs:375`); a mount that shows it in part first makes it
  end with `object_digest`, which is none of the codes with a failure record, so the
  host learns only that the Pod ended. A response published between the polls of
  the host for it and for the Pod, or a container started again after it, is
  reported as `pod_exited` or as a worker failure (`runpod_cli.rs:1580`). Both err
  on the safe side: `ChallengeAnswered` says what a success means, not that every
  answer is a success.

## 7. Plan

Done: all modules of section 2. Left to model:

- A composition of `PodSupervisor` and `RunpodWorker`: success of the command
  means sound markers for the whole range.

Worth proving next: `AssignmentsNearShare` of `Pipeline`, which is about the walk of
`token_balanced_boundaries` over the tasks that `TasksCutCorpora` is about.

## 8. Not modelled, and why

- HTTP framing, Parquet, SQLite and JSON encodings, vector arithmetic and numeric
  tolerances: data transformations without control of interest here; what matters
  (equal or different bytes, valid or invalid, the order of scores) is kept.
- The projection of one OCSF row into a document: abstracted to its outcome.
- The start-up and the supervision of the TEI child process: abstracted to whether
  the service answers.
- Command-line parsing, the earlier `build` command, report rendering, contract
  types, the test kit, packaging and the Python scripts: they keep no state of
  their own.
- Two host commands at work on the same task at the same time:
  `docs/local-first-embedding-scale-plan.md` states as a rule that "Two processes
  never write the same task path". The executor itself is nevertheless checked
  against a rival publisher.
- Two workers that download the model to one volume at the same time: the model
  has one worker process at a time. Partial files carry no process name, so two
  such workers would append to the same ones.
