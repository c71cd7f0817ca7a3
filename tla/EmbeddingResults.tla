-------------------------- MODULE EmbeddingResults --------------------------
(***************************************************************************)
(* The artifacts of an embedding run and how they are admitted: vector     *)
(* parts, receipts, task reports, the result-set manifest and the summary  *)
(* (rag-pipeline/src/token_plan.rs, rag-builder/src/portable.rs).          *)
(*                                                                         *)
(* A vector is [by, dims, input]: what the model (or "test") gives for a   *)
(* formatted input at a number of dimensions.  A part is [order, dims,     *)
(* vectors]; a receipt holds the part's digest, which is the part.         *)
(* A results directory is                                                  *)
(*   [files, profile, summary, manifest]                                   *)
(* where files maps [kind, task] to a content and None is an absent file.  *)
(***************************************************************************)
EXTENDS TokenPlan

CONSTANTS
    FullDims         \* dimensions of an original profile (4096)

None == <<>>

TestExecutor == "deterministic-test-vectors"
DerivedExecutor == "derived-vectors"

FilePath(kind, task) == [kind |-> kind, task |-> task]

EmptyResults == [files |-> [p \in {} |-> None], profile |-> None,
                 summary |-> None, manifest |-> None]

TaskIds(plan) == MapSeq(LAMBDA task : TaskId(plan, task), plan.tasks)

FileKinds == {"part", "receipt", "report"}

TaskPaths(plan) ==
    {FilePath(kind, id) : kind \in FileKinds, id \in Range(TaskIds(plan))}

-----------------------------------------------------------------------------
(* Vectors and parts.                                                      *)

ModelVector(profile, row) ==
    [by |-> profile.model, dims |-> profile.dims, input |-> FormatInput(profile, row)]

\* deterministic_test_vector: seeded by the row, not by a model.
TestVector(profile, row) ==
    [by |-> TestExecutor, dims |-> profile.dims, input |-> <<"row", row.body>>]

\* adapt_model_vector: a prefix of the parent's values, normalized again.
ReducedVector(vector, dims) == [vector EXCEPT !.dims = dims]

PartOf(task, profile, vectors) ==
    [order |-> task.order, dims |-> profile.dims, vectors |-> vectors]

\* Mutant: the bytes of a part are not compared with the receipt.
PartVerified_NoDigest(part, task, profile, digest) ==
    /\ Len(part.vectors) = RowCount(task)
    /\ part.dims = profile.dims
    /\ part.order = task.order

\* verify_embedding_task_part
PartVerified(part, task, profile, digest) ==
    /\ Len(part.vectors) = RowCount(task)
    /\ part.dims = profile.dims
    /\ part.order = task.order
    /\ part = digest

-----------------------------------------------------------------------------
(* Receipts.                                                               *)

TestOnly(receipt) == receipt.executor.implementation = TestExecutor

Derived(receipt) == receipt.derivation # None

ReceiptOf(plan, task, part, executor, derivation) ==
    [plan |-> PlanDigest(plan), task |-> TaskId(plan, task), vector |-> part, executor |-> executor,
     derivation |-> derivation]

\* A derivation reduces its parent.
DerivationValid(derivation, dims) == derivation.parent_dims > dims

ExecutorValid(receipt) ==
    LET executor == receipt.executor
    IN  CASE TestOnly(receipt) -> executor.requests = 0 /\ ~executor.conformance
          [] ~TestOnly(receipt) /\ Derived(receipt) ->
                /\ executor.implementation = DerivedExecutor
                /\ executor.requests = 0
                /\ ~executor.conformance
          [] OTHER -> executor.conformance /\ executor.requests > 0

\* VectorResultReceipt::validate_against_v2
ReceiptValid(receipt, plan) ==
    /\ receipt.plan = PlanDigest(plan)
    /\ \E task \in Range(plan.tasks) :
          /\ receipt.task = TaskId(plan, task)
          /\ Len(receipt.vector.vectors) = RowCount(task)
          /\ receipt.vector.order = task.order
    /\ receipt.vector.dims = plan.profile.dims
    /\ Derived(receipt) => DerivationValid(receipt.derivation, plan.profile.dims)
    /\ ExecutorValid(receipt)

-----------------------------------------------------------------------------
(* Task reports.  A version 1 report carries the provenance of the host    *)
(* run (commit, machine, service settings), a version 2 report the sealed  *)
(* execution identity of a worker and the accelerator that was observed.   *)

ReportFor(plan, snapshot, k, receipt, version, provenance, observed, execution) ==
    [version |-> version, plan |-> PlanDigest(plan), snapshot |-> snapshot,
     task |-> TaskId(plan, plan.tasks[k]), index |-> k, receipt |-> receipt,
     provenance |-> provenance, observed |-> observed, execution |-> execution]

\* The measurements of an executed task agree with its receipt.
ExecutionMatches(report, task, receipt) ==
    report.execution # None =>
        /\ report.execution.started <= report.execution.finished
        /\ report.execution.requests = receipt.executor.requests

\* The identity a version 2 report must carry.
IdentityBinds(report, plan, receipt) ==
    /\ report.provenance.profile = ProfileDigest(plan.profile)
    /\ report.provenance.model = plan.profile.model
    /\ report.provenance.worker_binary = receipt.executor.implementation
    /\ report.provenance.runtime = receipt.executor.runtime
    /\ report.observed = report.provenance.accelerator

\* validate_task_report and validate_task_report_v2
TaskReportValid(report, k, plan, prepared, receipt) ==
    /\ report.plan = PlanDigest(plan)
    /\ report.snapshot = prepared.snapshot
    /\ report.task = TaskId(plan, plan.tasks[k])
    /\ report.index = k
    /\ report.receipt = receipt
    /\ ExecutionMatches(report, plan.tasks[k], receipt)
    /\ report.version = 2 => IdentityBinds(report, plan, receipt)

-----------------------------------------------------------------------------
(* A complete directory: every task has its receipt, part and report.      *)

TaskComplete(results, k, plan, prepared, profile) ==
    LET id == TaskId(plan, plan.tasks[k])
        file(kind) == results.files[FilePath(kind, id)]
    IN  /\ \A kind \in FileKinds :
              FilePath(kind, id) \in DOMAIN results.files
        /\ ReceiptValid(file("receipt"), plan)
        /\ file("receipt").executor.runtime = profile.runtime
        /\ PartVerified(file("part"), plan.tasks[k], profile, file("receipt").vector)
        /\ TaskReportValid(file("report"), k, plan, prepared, file("receipt"))

\* validate_complete_embedding_tasks_v2
Complete(results, plan, prepared, profile) ==
    \A k \in 1..Len(plan.tasks) : TaskComplete(results, k, plan, prepared, profile)

ReceiptsIn(results, plan) ==
    MapSeq(LAMBDA id : results.files[FilePath("receipt", id)], TaskIds(plan))

ReportsIn(results, plan) ==
    MapSeq(LAMBDA id : results.files[FilePath("report", id)], TaskIds(plan))

\* validate_embedding_artifact_coverage_v2: exactly the planned files.
Covers(results, plan, finalized) ==
    /\ DOMAIN results.files = TaskPaths(plan)
    /\ finalized <=> results.profile # None
    /\ finalized <=> results.summary # None
    /\ finalized <=> results.manifest # None

-----------------------------------------------------------------------------
(* The result set.                                                         *)

\* What the receipts and the manifest of a derived set say of their parent.
ParentOf(derivation) ==
    IF derivation = None THEN None
    ELSE <<derivation.parent_set, derivation.parent_dims>>

ResultSetOf(plan, receipts, derivation, testOnly) ==
    [plan |-> PlanDigest(plan), receipts |-> receipts, derivation |-> derivation, test_only |-> testOnly]

\* EmbeddingResultSetManifest::validate_v2
ResultSetValid(set, plan, receipts) ==
    /\ set.plan = PlanDigest(plan)
    /\ set.test_only => set.derivation = None
    /\ set.derivation # None => DerivationValid(set.derivation, plan.profile.dims)
    /\ Len(set.receipts) = Len(plan.tasks) /\ Len(receipts) = Len(plan.tasks)
    /\ set.receipts = receipts
    /\ \A k \in 1..Len(plan.tasks) :
          /\ receipts[k].task = TaskId(plan, plan.tasks[k])
          /\ ReceiptValid(receipts[k], plan)
          /\ receipts[k].executor.implementation = receipts[1].executor.implementation
          /\ TestOnly(receipts[k]) = set.test_only
          /\ ParentOf(receipts[k].derivation) = ParentOf(set.derivation)

-----------------------------------------------------------------------------
(* The run summary.                                                        *)

ByStart(a, b) == a.started < b.started \/ (a.started = b.started /\ a.finished <= b.finished)

\* Mutant: an interval inside an earlier one shortens the active period.
Extend_Last(period, interval) == [period EXCEPT !.end = interval.finished]

Extend(period, interval) ==
    [period EXCEPT !.end = Larger(@, interval.finished)]

\* execution_time_bounds: merge overlapping intervals and add their lengths.
ActiveTime(intervals) ==
    LET sorted == SortSeq(intervals, ByStart)
        first == [total |-> 0, start |-> sorted[1].started, end |-> sorted[1].finished]
        last == Loop(LAMBDA period, interval :
                        IF interval.started <= period.end
                            THEN Extend(period, interval)
                            ELSE [total |-> period.total + period.end - period.start,
                                  start |-> interval.started, end |-> interval.finished],
                     first, Tail(sorted))
    IN  last.total + last.end - last.start

\* The clock may not have advanced: then the longest task, or their sum.
ActiveOrElapsed(intervals) ==
    IF ActiveTime(intervals) > 0 THEN ActiveTime(intervals) * 1000
    ELSE MaxOf(MapSeq(LAMBDA interval : interval.elapsed, intervals))

CalendarSpan(intervals) ==
    LET span == MaxOf(MapSeq(LAMBDA i : i.finished, intervals))
                    - Min(Range(MapSeq(LAMBDA i : i.started, intervals)))
    IN  IF span > 0 THEN span * 1000 ELSE ActiveOrElapsed(intervals)

\* Inclusive token bounds; the last bucket has no upper one (0).
LengthBuckets == <<<<1, 128>>, <<129, 256>>, <<257, 512>>, <<513, 1024>>, <<1025, 0>>>>

InBucket(count, bucket) == count >= bucket[1] /\ (bucket[2] = 0 \/ count <= bucket[2])

BucketThroughput(counts) ==
    MapSeq(LAMBDA bucket :
               LET selected == SelectSeq(counts, LAMBDA c : InBucket(c, bucket))
               IN  [documents |-> Len(selected), tokens |-> SumOf(selected)],
           LengthBuckets)

\* Version 1: one commit, machine and service.
Homogeneous(reports) ==
    \A k \in 1..Len(reports) : reports[k].provenance = reports[1].provenance

\* Version 2: one sealed identity, and its accelerator seen by every task.
HomogeneousIdentity(reports) ==
    \A k \in 1..Len(reports) :
        /\ reports[k].provenance = reports[1].provenance
        /\ reports[k].observed = reports[1].provenance.accelerator

SummaryV1(plan, receipts, reports, counts) ==
    LET executed == \A report \in Range(reports) : report.execution # None
        intervals == MapSeq(LAMBDA report : report.execution, reports)
    IN  IF reports = <<>> THEN Err("no task report")
        ELSE IF ~CountsMatchPlan(plan, counts) THEN Err("token counts")
        ELSE IF ~Homogeneous(reports) THEN Err("different execution provenance")
        ELSE Ok([plan |-> PlanDigest(plan), version |-> 1,
                 provenance |-> reports[1].provenance,
                 tokens |-> SumOf(MapSeq(TokenCount, plan.tasks)),
                 requests |-> SumOf(MapSeq(LAMBDA r : r.executor.requests, receipts)),
                 measured |-> executed,
                 active |-> IF executed THEN ActiveOrElapsed(intervals) ELSE 0,
                 span |-> IF executed THEN CalendarSpan(intervals) ELSE 0,
                 buckets |-> BucketThroughput(counts)])

\* The counters of a worker's report under a placeholder provenance.
MetricReport(report) == [report EXCEPT !.provenance = "not measured"]

SummaryV2(plan, receipts, reports, counts) ==
    LET legacy == SummaryV1(plan, receipts, MapSeq(MetricReport, reports), counts)
    IN  IF ~HomogeneousIdentity(reports) THEN Err("different sealed execution identity")
        ELSE IF ~legacy.ok THEN legacy
        ELSE Ok([legacy.value EXCEPT !.version = 2, !.provenance = reports[1].provenance])

RunSummary(plan, receipts, reports, counts) ==
    CASE \A report \in Range(reports) : report.version = 1 ->
            SummaryV1(plan, receipts, reports, counts)
      [] reports # <<>> /\ \A report \in Range(reports) : report.version = 2 ->
            SummaryV2(plan, receipts, reports, counts)
      [] OTHER -> Err("mixed report versions")
=============================================================================
