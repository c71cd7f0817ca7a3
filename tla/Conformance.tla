---------------------------- MODULE Conformance ----------------------------
(***************************************************************************)
(* Model conformance (rag-pipeline/src/runpod_conformance.rs, the          *)
(* conformance commands of rag-builder/src/runpod_cli.rs, conformance in   *)
(* rag-runpod-worker/src/lib.rs, rag-embedding/src/tei_profile.rs).  A     *)
(* candidate is built and staged under run prefixes, Pods measure it, the  *)
(* host fetches their results, and a policy is sealed when two of them     *)
(* agree byte for byte.                                                    *)
(*                                                                         *)
(* A candidate is named by its digest: Templates[c] is its content         *)
(*   [model, objects, tokenizer, tei, executor, worker, control,           *)
(*    input_count, output_key, execution]                                  *)
(* with the files of its input root [digests, manifest, receipt, fixture]. *)
(* The model files a Pod loads are exact (module ModelHydration); what the *)
(* engine computes from them may differ from Pod to Pod.                   *)
(***************************************************************************)
EXTENDS Common, MeasuredPolicy

CONSTANTS
    Drafts,        \* policy drafts
    Reserved,      \* paths of candidate.json, runtime/ and conformance/results/
    PinnedModel,   \* repository and revision of Qwen3-Embedding-8B
    PinnedPaths,   \* QWEN3_EMBEDDING_8B_SNAPSHOT_PATHS
    PinnedTei,     \* PINNED_TEI_IMAGE_SHA256
    Window,        \* QWEN3_MAX_POSITION_EMBEDDINGS
    MaxBatch,      \* largest client batch (32)
    MaxPrefixes,   \* bound: run prefixes on the volume
    MaxRuns,       \* bound: run ids
    MaxOutputs,    \* bound: different vectors the engine may return for the fixture
    MaxContainers  \* bound: containers started, on new Pods or again

VARIABLES
    root,        \* every prefix: the staged candidate, the measured output,
                 \* and an observation and a result for every run
    pods,        \* the Pods, in the order of their creation
    containers   \* containers started so far

conformance_vars == <<root, pods, policy, executions, containers>>

\* Prefixes, run ids, Pods and outputs have no order that the program sees, so
\* each is numbered in the order of its first use.
RunPrefixes == 1..MaxPrefixes
RunIds == 1..MaxRuns
Outputs == 1..MaxOutputs
Unset == 0

InUse(x, used) == x = 1 \/ x - 1 \in used

-----------------------------------------------------------------------------
(* Candidates.                                                             *)

\* RunpodTeiExecutionIdentity::validate: the limits the engine is started with.
LimitsValid(batch, batch_tokens, max_tokens) ==
    /\ batch \in 1..MaxBatch
    /\ batch_tokens >= Window
    /\ batch_tokens <= max_tokens * batch

\* validate_model_objects and model_artifact_set_digest
ModelObjectsValid(c) ==
    /\ c.objects # <<>>
    /\ \A k \in 1..Len(c.objects) - 1 : c.objects[k].path < c.objects[k + 1].path
    /\ c.tokenizer.object \in Range(c.objects)
    /\ c.execution.artifacts = <<c.model, c.objects>>

\* RunpodTeiConformanceCandidate::validate
CandidateValid(c) ==
    /\ c.tokenizer.model = c.model
    /\ LimitsValid(c.execution.batch, c.execution.batch_tokens, c.execution.max_tokens)
    /\ c.input_count \in 1..MaxBatch
    /\ c.input_count <= c.execution.batch
    /\ ModelObjectsValid(c)
    /\ c.execution.tokenizer = c.tokenizer.object.sha
    /\ c.execution.tei = c.tei
    /\ c.execution.executor = c.executor
    /\ c.execution.worker = c.worker

\* validate_executor_image_build_receipt
ReceiptBinds(receipt, c) ==
    /\ receipt.executor # receipt.tei
    /\ receipt.executor = c.executor
    /\ receipt.tei = c.tei
    /\ receipt.worker = c.worker

\* conformance_input_objects
InputObjects(c) == c.control \union {c.tokenizer.object} \union Range(c.objects)

InputPathsValid(c) ==
    /\ \A a, b \in InputObjects(c) : a.path = b.path => a = b
    /\ \A a \in InputObjects(c) : a.path # c.output_key /\ a.path \notin Reserved

\* The manifest and the fixture say what the candidate says of them.
FilesBind(files, c) ==
    /\ files.manifest = c.objects
    /\ Len(files.fixture) = c.input_count
    /\ \A k \in 1..Len(files.fixture) : files.fixture[k] \in 1..c.execution.max_tokens

\* build_conformance_candidate and validate_conformance_candidate_values
Built(t) ==
    LET c == t.candidate
    IN  /\ CandidateValid(c)
        /\ ReceiptBinds(t.files.receipt, c)
        /\ InputPathsValid(c)
        /\ \A o \in InputObjects(c) : o.path \in DOMAIN t.files.digests
                                      /\ t.files.digests[o.path] = o.sha
        /\ FilesBind(t.files, c)

Candidates == {c \in DOMAIN Templates : Built(Templates[c])}

\* The execution identity of a result, told by its fields that may differ.
ExecutionId(c) ==
    LET e == Candidate(c).execution
    IN  <<e.tei, e.executor, e.worker, e.batch, e.batch_tokens>>

-----------------------------------------------------------------------------
(* Results and the policy.                                                 *)

\* Mutant: a result is not bound to the candidate it was measured for.
ResultValid_Unbound(result, c) ==
    /\ result.execution = ExecutionId(c)
    /\ result.outcome = "completed" =>
          /\ result.model = Candidate(c).execution.served
          /\ result.count = Candidate(c).input_count
    /\ result.outcome = "failed" => result.output = Unset

\* RunpodTeiConformanceResult::validate_against
ResultValid(result, c) ==
    /\ result.candidate = c
    /\ result.execution = ExecutionId(c)
    /\ result.outcome = "completed" =>
          /\ result.model = Candidate(c).execution.served
          /\ result.count = Candidate(c).input_count
    /\ result.outcome = "failed" => result.output = Unset

\* seal_embedding_policy_v3_conformance: two runs on two Pods that agree.
Replays(first, replay) ==
    /\ first.outcome = "completed" /\ replay.outcome = "completed"
    /\ first.run # replay.run
    /\ first.pod # replay.pod
    /\ first.execution = replay.execution
    /\ first.model = replay.model
    /\ first.output = replay.output

\* EmbeddingPolicyV3ConformanceFields
ConformanceFields(c, first, replay) ==
    [candidate |-> c, input_count |-> Candidate(c).input_count, model |-> first.model,
     output |-> first.output, initial |-> first, replay |-> replay]

\* validate_conformance
PolicyConformanceValid(p) ==
    /\ p.conformance.input_count \in 1..p.batch
    /\ p.conformance.model = p.served
    /\ p.conformance.initial # p.conformance.replay

\* validate_tei_checkpoint_profile_v3
PolicyValid(p) ==
    /\ p.model = PinnedModel
    /\ p.artifacts = <<p.model, p.objects>>
    /\ p.tokenizer.model = p.model
    /\ MapSeq(LAMBDA o : o.path, p.objects) = PinnedPaths
    /\ p.tokenizer.object \in Range(p.objects)
    /\ LimitsValid(p.batch, p.batch_tokens, p.max_tokens)
    /\ PolicyConformanceValid(p)

\* validate_sealed_policy_candidate_binding
PolicyBinds(p, c) ==
    /\ p.model = c.model
    /\ p.artifacts = c.execution.artifacts
    /\ p.objects = c.objects
    /\ p.tokenizer = c.tokenizer
    /\ p.tei = c.tei
    /\ p.executor = c.executor
    /\ p.served = c.execution.served
    /\ p.max_tokens = c.execution.max_tokens
    /\ p.batch = c.execution.batch
    /\ p.batch_tokens = c.execution.batch_tokens

-----------------------------------------------------------------------------
(* The host stages a candidate and creates Pods.                           *)

EmptyRoot == [candidate |-> "none", output |-> Unset,
              observation |-> [r \in RunIds |-> Unset], result |-> [r \in RunIds |-> <<>>]]

ConformanceInit ==
    /\ root = [p \in RunPrefixes |-> EmptyRoot]
    /\ pods = <<>>
    /\ policy = <<>>
    /\ executions = {}
    /\ containers = 0

ContainerStarts == containers < MaxContainers /\ containers' = containers + 1

\* Nothing under the prefix is ever replaced.
Stage(p, c) ==
    /\ root[p].candidate = "none"
    /\ InUse(p, {q \in RunPrefixes : root[q].candidate # "none"})
    /\ root' = [root EXCEPT ![p].candidate = c]
    /\ UNCHANGED <<pods, policy, executions, containers>>

\* conformance_pod_create, then stage_conformance_observation at the key of the
\* run.  A Pod that finds an earlier one's there is deleted, but its container
\* runs until it is; no container passes the key before something lies there,
\* so that the two calls are one step.
CreatePod(p, r) ==
    /\ ContainerStarts
    /\ root[p].candidate # "none"
    /\ InUse(r, {pods[k].run : k \in DOMAIN pods})
    /\ pods' = Append(pods, [prefix |-> p, run |-> r, at |-> "boot",
                             seen |-> Unset, output |-> Unset])
    /\ root' = [root EXCEPT ![p].observation[r] = IF @ = Unset THEN Len(pods') ELSE @]
    /\ UNCHANGED <<policy, executions>>

-----------------------------------------------------------------------------
(* The worker's conformance mode.                                          *)

Move(k, to) == pods' = [pods EXCEPT ![k].at = to]

\* The image, the binary and the build receipt must be the candidate's.
WorkerAdmits(c) == Candidate(c).tei = PinnedTei /\ Candidate(c).executor # Candidate(c).tei

\* wait_for_observation takes whatever lies at the key of the run; then TEI is
\* started on the tree and answers the fixture.  What is read up to here is
\* never replaced, so these are one step.  A Pod that is lost or deleted, or
\* whose engine fails, takes no further step.
Measure(k, output) ==
    LET p == pods[k].prefix
        seen == root[p].observation[pods[k].run]
    IN  /\ pods[k].at = "boot"
        /\ WorkerAdmits(root[p].candidate)
        /\ InUse(output, {e.output : e \in executions})
        /\ pods' = [pods EXCEPT ![k].at = "output", ![k].seen = seen, ![k].output = output]
        /\ executions' = executions \union
              {[pod |-> k, run |-> pods[k].run, output |-> output,
                candidate |-> root[p].candidate]}
        /\ UNCHANGED <<root, policy, containers>>

\* publish_no_overwrite: other bytes at the one output key end the run.
PublishOutput(k) ==
    LET p == pods[k].prefix
    IN  /\ pods[k].at = "output"
        /\ IF root[p].output \in {Unset, pods[k].output}
           THEN Move(k, "result") /\ root' = [root EXCEPT ![p].output = pods[k].output]
           ELSE Move(k, "gone") /\ UNCHANGED root
        /\ UNCHANGED <<policy, executions, containers>>

ResultOf(k) ==
    LET c == root[pods[k].prefix].candidate
    IN  [candidate |-> c, run |-> pods[k].run, pod |-> pods[k].seen,
         execution |-> ExecutionId(c), outcome |-> "completed",
         model |-> Candidate(c).execution.served, count |-> Candidate(c).input_count,
         output |-> pods[k].output]

\* The times in a result make it differ from every other one, so that a
\* result that is there already ends the run.
PublishResult(k) ==
    LET p == pods[k].prefix
    IN  /\ pods[k].at = "result"
        /\ IF root[p].result[pods[k].run] = <<>>
           THEN Move(k, "done") /\ root' = [root EXCEPT ![p].result[pods[k].run] = <<ResultOf(k)>>]
           ELSE Move(k, "gone") /\ UNCHANGED root
        /\ UNCHANGED <<policy, executions, containers>>

\* The container is started again with the same arguments.
Restart(k) ==
    /\ pods[k].at \in {"output", "result", "done"}
    /\ ContainerStarts
    /\ pods' = [pods EXCEPT ![k].at = "boot", ![k].seen = Unset, ![k].output = Unset]
    /\ UNCHANGED <<root, policy, executions>>

-----------------------------------------------------------------------------
(* Fetching results and sealing.                                           *)

\* get_conformance_result
ResultAccepted(result, r, c) == ResultValid(result, c) /\ result.run = r

\* What fetch_conformance_result leaves on the host: the result of this run for
\* this candidate and the output it declares, or without the output when it is
\* killed between two renames.  What it reads is never replaced, so it does not
\* matter when it runs.
Fetch(p, r, c) ==
    LET directory == [result |-> root[p].result[r][1], output |-> root[p].output]
        fetched == /\ root[p].result[r] # <<>>
                   /\ ResultAccepted(directory.result, r, c)
                   /\ directory.result.outcome = "completed"
                   /\ directory.output = directory.result.output
    IN  IF fetched THEN {directory, [directory EXCEPT !.output = Unset]} ELSE {}

\* A file of a result directory may be exchanged.
Alter(directory) ==
    {[directory EXCEPT !.result.outcome = "failed", !.result.output = Unset]}
        \union {[directory EXCEPT !.output = output] : output \in Outputs}

Directories(c) ==
    LET fetched == UNION {Fetch(p, r, c) : p \in RunPrefixes, r \in RunIds}
    IN  fetched \union UNION {Alter(directory) : directory \in fetched}

\* load_fetched_conformance_result
Loaded(c) ==
    {directory \in Directories(c) :
        /\ directory.output = directory.result.output
        /\ directory.result.outcome = "completed"
        /\ ResultValid(directory.result, c)}

Sealed(draft, conformance) ==
    [field \in DOMAIN draft \union {"conformance"} |->
        IF field = "conformance" THEN conformance ELSE draft[field]]

SealPolicy(c, draft, a, b) ==
    /\ a.output = b.output
    /\ Replays(a.result, b.result)
    /\ LET p == Sealed(draft, ConformanceFields(c, a.result, b.result))
       IN  /\ PolicyValid(p)
           /\ PolicyBinds(p, Candidate(c))
           /\ policy' = <<p>>
    /\ UNCHANGED <<root, pods, executions, containers>>

\* One policy is sealed; what happens to the volume later does not matter to it.
ConformanceNext ==
  /\ policy = <<>>
  /\ \/ \E p \in RunPrefixes, c \in Candidates : Stage(p, c)
     \/ \E p \in RunPrefixes, r \in RunIds : CreatePod(p, r)
     \/ \E k \in DOMAIN pods :
           \/ PublishOutput(k) \/ PublishResult(k) \/ Restart(k)
           \/ \E output \in Outputs : Measure(k, output)
     \/ \E c \in Candidates : \E a, b \in Loaded(c) : \E draft \in Drafts : SealPolicy(c, draft, a, b)

ConformanceSpec == ConformanceInit /\ [][ConformanceNext]_conformance_vars

-----------------------------------------------------------------------------
(* The inductive invariant behind PolicyMeasured.                          *)

Results ==
    [candidate : DOMAIN Templates, run : RunIds, pod : Nat,
     execution : {ExecutionId(c) : c \in DOMAIN Templates}, outcome : {"completed"},
     model : {Candidate(c).execution.served : c \in DOMAIN Templates},
     count : {Candidate(c).input_count : c \in DOMAIN Templates}, output : Outputs]

Roots ==
    [candidate : DOMAIN Templates \cup {"none"}, output : Outputs \cup {Unset},
     observation : [RunIds -> Nat], result : [RunIds -> Seq(Results)]]

Pods ==
    [prefix : RunPrefixes, run : RunIds, at : {"boot", "output", "result", "done", "gone"},
     seen : Nat, output : Outputs \cup {Unset}]

(* The type of every variable but the policy, of which PolicyMeasured says *)
(* what matters.                                                           *)
ConformanceTypeOK ==
    /\ root \in [RunPrefixes -> Roots]
    /\ pods \in Seq(Pods)
    /\ executions \subseteq [pod : Nat, run : RunIds, output : Outputs,
                             candidate : DOMAIN Templates]
    /\ containers \in Nat

\* Pods are created for staged candidates, and what one publishes it measured.
PodMeasured(k) ==
    LET pod == pods[k]
    IN  /\ root[pod.prefix].candidate # "none"
        /\ pod.at \in {"output", "result"} =>
              [pod |-> k, run |-> pod.run, output |-> pod.output,
               candidate |-> root[pod.prefix].candidate] \in executions

\* What was measured for a run, and for a candidate, with an output.
MeasuredIn(r, c, output) ==
    \E e \in executions : e.run = r /\ e.candidate = c /\ e.output = output

ResultMeasured(p, r) ==
    LET result == root[p].result[r]
    IN  result # <<>> =>
            /\ result[1] \in Results
            /\ result[1].run = r
            /\ MeasuredIn(r, result[1].candidate, result[1].output)

\* A Pod belongs to one run.
RunOfPod(e) == e.pod \in DOMAIN pods /\ e.run = pods[e.pod].run

ConformanceInv ==
    /\ ConformanceTypeOK
    /\ \A k \in DOMAIN pods : PodMeasured(k)
    /\ \A p \in RunPrefixes, r \in RunIds : ResultMeasured(p, r)
    /\ \A e \in executions : RunOfPod(e)
    /\ PolicyMeasured
=============================================================================
