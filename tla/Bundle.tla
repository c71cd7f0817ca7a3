------------------------------- MODULE Bundle -------------------------------
(***************************************************************************)
(* Cloud contracts (crates/rag-pipeline/src/cloud.rs): the bundle that     *)
(* splits a plan among workers, the marker a worker attempt leaves and the *)
(* report that selects one completed attempt per worker.                   *)
(*                                                                         *)
(* The digest of a bundle or an assignment is its content.  A task's three *)
(* output keys derive from its id, so an output is [task, content].        *)
(***************************************************************************)
EXTENDS TokenPlan

CONSTANTS
    MaxWorkers      \* MAX_WORKERS

-----------------------------------------------------------------------------
(* Contiguous worker ranges near the cumulative share of tokens.           *)

PrefixTokens(plan, k) == SumOf(MapSeq(TokenCount, SubSeq(plan.tasks, 1, k)))

Distance(a, b) == IF a >= b THEN a - b ELSE b - a

\* Mutant: the tokens before the boundary are not scaled to the workers.
ShareDistance_Unscaled(plan, workers, worker, k) ==
    Distance(PrefixTokens(plan, k), PrefixTokens(plan, Len(plan.tasks)) * worker)

\* How far boundary k lies from the share of the first `worker' workers.
ShareDistance(plan, workers, worker, k) ==
    Distance(PrefixTokens(plan, k) * workers, PrefixTokens(plan, Len(plan.tasks)) * worker)

\* At least one task remains for every later worker.
LastBoundary(plan, workers, worker) ==
    Len(plan.tasks) - (workers - worker)

\* The first of the nearest boundaries.
NearestBoundary(plan, workers, worker, previous) ==
    LET candidates == (previous + 1)..LastBoundary(plan, workers, worker)
    IN  CHOOSE k \in candidates :
            \A j \in candidates :
                /\ ShareDistance(plan, workers, worker, k) <= ShareDistance(plan, workers, worker, j)
                /\ j < k => ShareDistance(plan, workers, worker, j)
                              > ShareDistance(plan, workers, worker, k)

Boundaries(plan, workers) ==
    LET boundary[w \in 0..workers] ==
            IF w = 0 THEN 0
            ELSE IF w = workers THEN Len(plan.tasks)
            ELSE IF boundary[w - 1] + 1 > LastBoundary(plan, workers, w) THEN boundary[w - 1] + 1
            ELSE NearestBoundary(plan, workers, w, boundary[w - 1])
    IN  boundary

AssignmentOf(plan, worker, from, to) ==
    [worker |-> worker, task_start |-> from, task_end |-> to,
     start |-> plan.tasks[from + 1].start, end |-> plan.tasks[to].end,
     tokens |-> SumOf(MapSeq(TokenCount, Slice(plan.tasks, from, to))),
     tasks |-> MapSeq(LAMBDA task : TaskId(plan, task), Slice(plan.tasks, from, to))]

\* RunpodWorkerAssignment::validate
AssignmentValid(assignment) ==
    /\ assignment.task_start < assignment.task_end
    /\ assignment.task_end - assignment.task_start = Len(assignment.tasks)
    /\ NoRepeats(assignment.tasks)
    /\ \A k \in 1..Len(assignment.tasks) :
          assignment.tasks[k].start =
              (IF k = 1 THEN assignment.start ELSE assignment.tasks[k - 1].end)
    /\ assignment.tasks[Len(assignment.tasks)].end = assignment.end

\* validate_assignments
AssignmentsValid(assignments, plan) ==
    /\ \A w \in 1..Len(assignments) :
          /\ AssignmentValid(assignments[w])
          /\ assignments[w].task_start = (IF w = 1 THEN 0 ELSE assignments[w - 1].task_end)
          /\ assignments[w].tasks = MapSeq(LAMBDA task : TaskId(plan, task),
                                           Slice(plan.tasks, assignments[w].task_start,
                                                 assignments[w].task_end))
    /\ assignments[Len(assignments)].task_end = Len(plan.tasks)
    /\ SumOf(MapSeq(LAMBDA a : a.tokens, assignments)) = plan.statistics.total

-----------------------------------------------------------------------------
(* The bundle.  Its input artifacts are those of the prepared corpus, the  *)
(* plan and the profile; execution is the identity every worker must have. *)

Artifacts(prepared, plan, worker_binary, image_build, query_plan) ==
    [prepared |-> prepared.id, plan |-> plan, profile |-> plan.profile,
     tokenizer |-> plan.tokenizer.artifact, counts |-> plan.counts,
     documents |-> prepared.documents, worker_binary |-> worker_binary,
     image_build |-> image_build, query_plan |-> query_plan]

\* validate_artifacts
ArtifactsBind(artifacts, prepared, plan) ==
    /\ artifacts.prepared = prepared.id
    /\ artifacts.plan = plan
    /\ artifacts.profile = plan.profile
    /\ artifacts.tokenizer = plan.tokenizer.artifact
    /\ artifacts.counts = plan.counts
    /\ artifacts.documents = prepared.documents

BundleValid(bundle, prepared, plan) ==
    /\ PlanBinds(plan, prepared)
    /\ bundle.plan = plan
    /\ bundle.assignments # <<>>
    /\ bundle.execution.model = plan.profile.model
    /\ bundle.execution.profile = plan.profile
    /\ bundle.execution.worker_binary = bundle.artifacts.worker_binary
    /\ bundle.execution.image_build = bundle.artifacts.image_build
    /\ ArtifactsBind(bundle.artifacts, prepared, plan)
    /\ AssignmentsValid(bundle.assignments, plan)

\* The objects a bundle uploads, all of which must exist as files.
InputObjects(artifacts) ==
    {<<"prepared", artifacts.prepared>>, <<"plan", artifacts.plan>>,
     <<"profile", artifacts.profile>>, <<"tokenizer", artifacts.tokenizer>>,
     <<"counts", artifacts.counts>>, <<"worker_binary", artifacts.worker_binary>>,
     <<"image_build", artifacts.image_build>>, <<"query_plan", artifacts.query_plan>>}
        \union {<<"documents", object>> : object \in Range(artifacts.documents)}

\* build_runpod_embedding_bundle
BuildBundle(prepared, plan, artifacts, execution, workers) ==
    LET boundary == Boundaries(plan, workers)
        assignments == [w \in 1..workers |->
                            AssignmentOf(plan, w - 1, boundary[w - 1], boundary[w])]
        bundle == [plan |-> plan, artifacts |-> artifacts, execution |-> execution,
                   assignments |-> assignments]
    IN  IF ~PlanBinds(plan, prepared) THEN Err("plan binding")
        ELSE IF workers = 0 \/ workers > MaxWorkers \/ workers > Len(plan.tasks)
        THEN Err("cloud worker count")
        ELSE IF \E w \in 1..workers : boundary[w - 1] >= boundary[w]
        THEN Err("cloud worker assignment range")
        ELSE IF ~BundleValid(bundle, prepared, plan) THEN Err("cloud bundle")
        ELSE Ok(bundle)

-----------------------------------------------------------------------------
(* Attempt markers and the run report.                                     *)

\* Query vectors are an output of worker 0 only.
QueryWorker == 0

OutputsValid(outputs, assignment) ==
    /\ Len(outputs) = Len(assignment.tasks)
    /\ NoRepeats(MapSeq(LAMBDA output : output.task, outputs))
    /\ Range(assignment.tasks) \subseteq {output.task : output \in Range(outputs)}

\* RunpodQueryVectorSetOutput::validate_against: a query set, which is the
\* sequence of its manifest, its queries and its vectors, answers the bundle's.
QueryOutputValid(query, bundle) == Len(query) = 3 /\ query[2] = bundle.artifacts.query_plan

\* RunpodWorkerAttemptMarker::validate_against
MarkerValid(marker, bundle) ==
    /\ marker.bundle = bundle
    /\ marker.execution = bundle.execution
    /\ \E assignment \in Range(bundle.assignments) :
          /\ assignment.worker = marker.worker
          /\ marker.outcome = "completed" =>
                /\ OutputsValid(marker.outputs, assignment)
                /\ IF marker.worker = QueryWorker
                   THEN QueryOutputValid(marker.query, bundle)
                   ELSE marker.query = <<>>
    /\ marker.outcome = "failed" => marker.outputs = <<>> /\ marker.query = <<>>

ReportOf(bundle, markers) ==
    [bundle |-> bundle, selected |-> markers,
     query |-> (CHOOSE marker \in Range(markers) : marker.worker = QueryWorker).query]

\* RunpodRunReport::validate_against: one completed attempt per assignment.
ReportValid(report, bundle, markers) ==
    /\ report.bundle = bundle
    /\ Len(markers) = Len(bundle.assignments)
    /\ NoRepeats(markers)
    /\ Range(report.selected) = Range(markers)
    /\ \A assignment \in Range(bundle.assignments) :
          \E marker \in Range(markers) :
              /\ marker.worker = assignment.worker
              /\ marker.outcome = "completed"
              /\ MarkerValid(marker, bundle)
              /\ marker.worker = QueryWorker => marker.query = report.query

\* build_runpod_run_report
BuildReport(bundle, markers) ==
    IF \A marker \in Range(markers) : marker.worker # QueryWorker
        THEN Err("cloud query vector output missing")
        ELSE IF ReportValid(ReportOf(bundle, markers), bundle, markers)
        THEN Ok(ReportOf(bundle, markers))
        ELSE Err("cloud report")
=============================================================================
