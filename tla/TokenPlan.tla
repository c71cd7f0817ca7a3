----------------------------- MODULE TokenPlan -----------------------------
(***************************************************************************)
(* Token-balanced embedding plans (crates/rag-pipeline/src/token_plan.rs)  *)
(* and the prepared corpus manifests they bind (rag-pipeline/src/lib.rs).  *)
(*                                                                         *)
(* A digest is the content it is the digest of, so two digests are equal   *)
(* when the contents are.  A prepared corpus is                            *)
(*   [id, snapshot, documents, occurrences]                                *)
(* where documents is the sequence of document objects, each a sequence of *)
(* rows [id, body], occurrences the sequence of occurrence objects, each   *)
(* [relation, rows], and id stands for the component digest.  Ordinals and *)
(* offsets start at 0.                                                     *)
(***************************************************************************)
EXTENDS Common

CONSTANTS
    Tokens        \* Tokens[t][input]: tokens of a formatted input under tokenizer file t

-----------------------------------------------------------------------------
(* Prepared corpora.                                                       *)

Documents(prepared) == FlattenSeq(prepared.documents)

\* The document order digest: the ids in order.
DocumentOrder(prepared) == MapSeq(LAMBDA row : row.id, Documents(prepared))

ObjectStart(prepared, k) == Len(FlattenSeq(SubSeq(prepared.documents, 1, k - 1)))

\* Document objects are non-empty and their ids ascend across object borders.
ValidDocumentObjects(prepared) ==
    /\ \A k \in 1..Len(prepared.documents) : prepared.documents[k] # <<>>
    /\ LET rows == Documents(prepared)
       IN  \A k \in 1..Len(rows) - 1 : rows[k].id < rows[k + 1].id

\* Occurrence objects follow the order of the included relations.
ValidOccurrenceObjects(prepared) ==
    /\ \A k \in 1..Len(prepared.occurrences) : prepared.occurrences[k].rows # <<>>
    /\ \A k \in 1..Len(prepared.occurrences) - 1 :
          prepared.occurrences[k].relation <= prepared.occurrences[k + 1].relation

\* Every document occurs, and only documents occur.
OccurrencesClose(prepared) ==
    LET occurring == FlattenSeq([k \in 1..Len(prepared.occurrences) |->
                                    prepared.occurrences[k].rows])
    IN  Range(occurring) = {row.id : row \in Range(Documents(prepared))}

ValidPrepared(prepared) ==
    /\ ValidDocumentObjects(prepared)
    /\ ValidOccurrenceObjects(prepared)
    /\ OccurrencesClose(prepared)

-----------------------------------------------------------------------------
(* Exact token counts.                                                     *)

\* format_document_input: the text that is tokenized and embedded.
FormatInput(profile, row) == <<profile.format, row.body>>

\* A tokenizer reference names the profile's tokenizer and model revision.
TokenizerForProfile(tokenizer, profile) ==
    tokenizer.model = profile.model /\ tokenizer.target = profile.tokenizer

\* The executable file is the one the reference names, and keeps every token.
ExactTokenizer(tokenizer, file) ==
    tokenizer.artifact = file.id /\ ~file.truncates

CountTokens(profile, tokenizer, row, limit) ==
    LET count == Tokens[tokenizer.artifact][FormatInput(profile, row)]
    IN  IF count = 0 \/ count > profile.max_tokens \/ count > limit
            THEN Err("overlength embedding document")
            ELSE Ok(count)

TokenCounts(profile, tokenizer, rows, limit) ==
    TryFold(LAMBDA counts, row :
                LET count == CountTokens(profile, tokenizer, row, limit)
                IN  IF count.ok THEN Ok(Append(counts, count.value)) ELSE count,
            <<>>, rows)

-----------------------------------------------------------------------------
(* Greedy packing: a task takes documents while both limits allow.         *)

\* Mutant: a task that would be exactly full is closed one document early.
Fits_Strict(tokens, next, taken, limits) ==
    taken < limits.documents /\ tokens + next < limits.tokens

Fits(tokens, next, taken, limits) ==
    taken < limits.documents /\ tokens + next <= limits.tokens

\* The end of the task that starts at document ordinal start.
TaskEnd(counts, start, limits) ==
    LET end[k \in start..Len(counts)] ==
            IF /\ k < Len(counts)
               /\ Fits(SumOf(Slice(counts, start, k)), counts[k + 1], k - start, limits)
                THEN end[k + 1] ELSE k
    IN  end[start]

TaskRanges(counts, limits) ==
    LET from[start \in 0..Len(counts)] ==
            LET end == TaskEnd(counts, start, limits)
            IN  IF start = Len(counts) THEN Ok(<<>>)
                ELSE IF end = start THEN Err("overlength embedding task")
                ELSE IF from[end].ok THEN Ok(<<[start |-> start, end |-> end]>> \o from[end].value)
                ELSE from[end]
    IN  from[0]

-----------------------------------------------------------------------------
(* Tasks and their input slices.                                           *)

\* The part of [start, end) that lies in document object k.
SliceOf(prepared, counts, k, start, end) ==
    LET first == ObjectStart(prepared, k)
        from == Larger(start, first)
        to == Smaller(end, first + Len(prepared.documents[k]))
    IN  [object |-> k, row_offset |-> from - first, rows |-> to - from,
         order |-> Slice(DocumentOrder(prepared), from, to),
         counts |-> Slice(counts, from, to)]

BuildSlices(prepared, counts, start, end) ==
    LET touched == {k \in 1..Len(prepared.documents) :
                        /\ ObjectStart(prepared, k) < end
                        /\ start < ObjectStart(prepared, k) + Len(prepared.documents[k])}
    IN  MapSeq(LAMBDA k : SliceOf(prepared, counts, k, start, end), Ascending(touched))

\* The digest of a profile.
ProfileDigest(profile) == <<profile.name, profile.dims>>

\* The digest of a plan: building one is deterministic in these.
PlanDigest(plan) ==
    <<plan.prepared, ProfileDigest(plan.profile), plan.tokenizer, plan.limits>>

\* The digest that is the task's id and names its files.
TaskId(plan, task) ==
    [prepared |-> plan.prepared, profile |-> ProfileDigest(plan.profile),
     tokenizer |-> plan.tokenizer.artifact, start |-> task.start, end |-> task.end,
     order |-> task.order, counts |-> task.counts]

BuildTask(prepared, counts, range) ==
    [start |-> range.start, end |-> range.end,
     slices |-> BuildSlices(prepared, counts, range.start, range.end),
     order |-> Slice(DocumentOrder(prepared), range.start, range.end),
     counts |-> Slice(counts, range.start, range.end)]

RowCount(task) == task.end - task.start

TokenCount(task) == SumOf(task.counts)

-----------------------------------------------------------------------------
(* Token statistics: the nearest-rank percentiles of the counts.           *)

\* Two forms of the same rank: in the plan and in the run summary.
PlanRank(n, percent) == (n \div 100) * percent + CeilDiv((n % 100) * percent, 100)

Percentile(counts, percent) ==
    SortSeq(counts, <=)[Larger(PlanRank(Len(counts), percent), 1)]

TokenStatistics(counts) ==
    IF counts = <<>>
        THEN [total |-> 0, p50 |-> 0, p90 |-> 0, p95 |-> 0, p99 |-> 0, maximum |-> 0]
        ELSE [total |-> SumOf(counts),
              p50 |-> Percentile(counts, 50), p90 |-> Percentile(counts, 90),
              p95 |-> Percentile(counts, 95), p99 |-> Percentile(counts, 99),
              maximum |-> MaxOf(counts)]

-----------------------------------------------------------------------------
(* The plan, and what its readers check of it.                             *)

PlanOf(prepared, profile, tokenizer, limits, counts, ranges) ==
    [prepared |-> prepared.id, profile |-> profile, tokenizer |-> tokenizer,
     limits |-> limits, document_count |-> Len(Documents(prepared)),
     document_order |-> DocumentOrder(prepared),
     counts |-> counts, statistics |-> TokenStatistics(counts),
     tasks |-> MapSeq(LAMBDA range : BuildTask(prepared, counts, range), ranges)]

TasksCover(plan) ==
    /\ \A k \in 1..Len(plan.tasks) :
          /\ plan.tasks[k].start = (IF k = 1 THEN 0 ELSE plan.tasks[k - 1].end)
          /\ plan.tasks[k].start < plan.tasks[k].end
    /\ plan.document_count =
          (IF plan.tasks = <<>> THEN 0 ELSE plan.tasks[Len(plan.tasks)].end)

\* Totals and maxima of a task and of its slices, and the limits.
TaskValid(plan, task) ==
    /\ task.slices # <<>>
    /\ RowCount(task) = SumOf(MapSeq(LAMBDA slice : slice.rows, task.slices))
    /\ RowCount(task) <= plan.limits.documents
    /\ TokenCount(task) \in RowCount(task)..plan.limits.tokens
    /\ TokenCount(task) = SumOf(MapSeq(LAMBDA slice : SumOf(slice.counts), task.slices))
    /\ MaxOf(task.counts) = MaxOf(MapSeq(LAMBDA slice : MaxOf(slice.counts), task.slices))
    /\ MaxOf(task.counts) <= plan.profile.max_tokens
    /\ \A slice \in Range(task.slices) : slice.rows > 0

CountMetadataValid(plan) ==
    LET s == plan.statistics
    IN  /\ s.total = SumOf(MapSeq(TokenCount, plan.tasks))
        /\ s.maximum = (IF plan.tasks = <<>> THEN 0
                        ELSE MaxOf(MapSeq(LAMBDA task : MaxOf(task.counts), plan.tasks)))
        /\ s.p50 <= s.p90 /\ s.p90 <= s.p95 /\ s.p95 <= s.p99 /\ s.p99 <= s.maximum
        /\ s.maximum <= plan.profile.max_tokens
        /\ (plan.document_count = 0) <=> (s.total = 0 /\ s.maximum = 0)

ValidPlan(plan) ==
    /\ plan.limits.tokens > 0 /\ plan.limits.documents > 0
    /\ TokenizerForProfile(plan.tokenizer, plan.profile)
    /\ CountMetadataValid(plan)
    /\ TasksCover(plan)
    /\ \A task \in Range(plan.tasks) : TaskValid(plan, task)

\* The count object beside the plan has one count per document ordinal.
CountsMatchPlan(plan, counts) ==
    /\ Len(counts) = plan.document_count
    /\ \A count \in Range(counts) : count \in 1..plan.profile.max_tokens
    /\ counts = plan.counts
    /\ TokenStatistics(counts) = plan.statistics
    /\ \A task \in Range(plan.tasks) :
          /\ Slice(counts, task.start, task.end) = task.counts
          /\ FlattenSeq(MapSeq(LAMBDA slice : slice.counts, task.slices)) = task.counts

\* Slices name rows of the manifest's objects, without gap or overlap.
SlicesMatchManifest(plan, prepared) ==
    \A task \in Range(plan.tasks) :
        LET global(slice) == ObjectStart(prepared, slice.object) + slice.row_offset
            next(k) == IF k = 1 THEN task.start
                       ELSE global(task.slices[k - 1]) + task.slices[k - 1].rows
        IN  /\ \A k \in 1..Len(task.slices) :
                  LET slice == task.slices[k]
                  IN  /\ slice.object \in 1..Len(prepared.documents)
                      /\ slice.row_offset + slice.rows <= Len(prepared.documents[slice.object])
                      /\ global(slice) = next(k)
            /\ next(Len(task.slices) + 1) = task.end

\* validate_manifest_binding
PlanBinds(plan, prepared) ==
    /\ plan.prepared = prepared.id
    /\ plan.document_count = Len(Documents(prepared))
    /\ ValidPlan(plan)
    /\ ValidPrepared(prepared)
    /\ plan.document_order = DocumentOrder(prepared)
    /\ SlicesMatchManifest(plan, prepared)

\* build_token_balanced_plan_with_counts
BuildPlan(prepared, profile, tokenizer, file, limits) ==
    LET rows == Documents(prepared)
        counted == TokenCounts(profile, tokenizer, rows, limits.tokens)
        ranges == TaskRanges(counted.value, limits)
        plan == PlanOf(prepared, profile, tokenizer, limits, counted.value, ranges.value)
    IN  IF ~ValidPrepared(prepared) THEN Err("prepared corpus")
        ELSE IF ~TokenizerForProfile(tokenizer, profile) THEN Err("tokenizer profile binding")
        ELSE IF limits.tokens = 0 \/ limits.documents = 0 THEN Err("token balance limits")
        ELSE IF ~ExactTokenizer(tokenizer, file) THEN Err("tokenizer artifact")
        ELSE IF ~counted.ok THEN counted
        ELSE IF ~ranges.ok THEN ranges
        ELSE IF ~ValidPlan(plan) THEN Err("embedding plan")
        ELSE Ok(plan)

\* validate_with_tokenizer: the plan is the one that is built again.
PlanIsExact(plan, prepared, file) ==
    /\ PlanBinds(plan, prepared)
    /\ BuildPlan(prepared, plan.profile, plan.tokenizer, file, plan.limits) = Ok(plan)

\* derive_embedding_plan_v2: the same tasks under a smaller profile.
DerivedPlan(plan, profile) ==
    IF /\ ValidPlan(plan)
       /\ plan.profile.model = profile.model
       /\ plan.profile.tokenizer = profile.tokenizer
       /\ plan.profile.max_tokens = profile.max_tokens
       /\ plan.profile.format = profile.format
       /\ plan.profile.dims > profile.dims
        THEN Ok([plan EXCEPT !.profile = profile])
        ELSE Err("derived plan profile")

\* TaskDocumentLoaderV2: the rows that the slices of a task select.
TaskRows(prepared, task) ==
    FlattenSeq(MapSeq(LAMBDA slice : Slice(prepared.documents[slice.object], slice.row_offset,
                                           slice.row_offset + slice.rows),
                      task.slices))
=============================================================================
