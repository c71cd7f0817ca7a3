------------------------------ MODULE MCVolume ------------------------------
(***************************************************************************)
(* The volume, for TLC: two stagers put bundles on it (VolumeStage), a     *)
(* worker downloads the model to it (ModelHydration), the host fetches the *)
(* output of a run from it (VolumeFetch), conformance runs measure         *)
(* candidates on it (Conformance), and two commands challenge it           *)
(* (StorageChallenge).  The five touch disjoint keys, so a behaviour is    *)
(* one of any of them.                                                     *)
(***************************************************************************)
EXTENDS VolumeStage, VolumeFetch, ModelTree, MeasuredPolicy, StorageChallenge

CONSTANTS
    MaxDownloads, MaxAttempts, MaxModelFaults,        \* ModelHydration
    MaxPrefixes, MaxRuns, MaxOutputs, MaxContainers   \* Conformance

VARIABLES
    system,
    partial, step, attempt, got, handle, next_object, tainted, model_faults,
    root, pods, containers

-----------------------------------------------------------------------------
(* The bundles of the stagers.  Contents with different ids and equal      *)
(* bytes are told apart by their digests only.                             *)

Content(id, bytes) == [id |-> id, bytes |-> bytes]

\* A common model, other documents of equal length, another bundle.json.
SharedModel ==
    [s \in Stagers |->
        IF s = "s1"
        THEN << Content(1, 9), Content(2, 5), Content(3, 5) >>
        ELSE << Content(1, 9), Content(4, 5), Content(5, 6) >>]

-----------------------------------------------------------------------------
(* Three model files.                                                      *)

ThreeSizes == <<2, 3, 1>>

Hydration ==
    INSTANCE ModelHydration
    WITH MaxFaults <- MaxModelFaults,
         next <- next_object, faults <- model_faults

-----------------------------------------------------------------------------
(* A bundle of three tasks for two workers and the markers of its run.     *)

Queries == Content(<<"queries">>, 2)

ABundle(id) ==
    [plan |-> id, execution |-> "e", artifacts |-> [query_plan |-> Queries],
     assignments |-> <<[worker |-> 0, tasks |-> <<"t1">>],
                       [worker |-> 1, tasks |-> <<"t2", "t3">>]>>]

TaskOutput(task, by) ==
    [task |-> task,
     content |-> [result |-> Content(<<task, by>>, 5),
                  receipt |-> Content(<<"receipt", task, by>>, 3),
                  report |-> Content(<<"report", task, by>>, 4)]]

Marker(bundle, w, outputs, query) ==
    [bundle |-> bundle, execution |-> "e", worker |-> w, outcome |-> "completed",
     outputs |-> outputs, query |-> query]

QuerySet ==
    <<[id |-> <<"manifest">>, bytes |-> 1, binds |-> <<Queries.id, <<"vectors">>>>],
      Queries, Content(<<"vectors">>, 6)>>

RunBundle == ABundle("p1")

RunMarkers ==
    [w \in {0, 1} |->
        IF w = 0 THEN Marker(RunBundle, 0, <<TaskOutput("t1", "w0")>>, QuerySet)
        ELSE Marker(RunBundle, 1, <<TaskOutput("t3", "w1"), TaskOutput("t2", "w1")>>, <<>>)]

\* Of another plan, of a failed attempt, of the other worker, without the
\* query vectors; without a task, with one twice.
OtherMarkers ==
    [w \in {0, 1} |->
        IF w = 0
        THEN {Marker(ABundle("p2"), 0, <<TaskOutput("t1", "w0")>>, QuerySet),
              [RunMarkers[0] EXCEPT !.outcome = "failed", !.outputs = <<>>, !.query = <<>>],
              RunMarkers[1],
              Marker(RunBundle, 0, <<TaskOutput("t1", "w0")>>, <<>>)}
        ELSE {Marker(RunBundle, 1, <<TaskOutput("t2", "w1")>>, <<>>),
              Marker(RunBundle, 1, <<TaskOutput("t2", "w1"), TaskOutput("t2", "w1")>>, <<>>),
              RunMarkers[0]}]

-----------------------------------------------------------------------------
(* Candidates: two that can be measured, one for another TEI image, and    *)
(* templates that are refused.                                             *)

Obj(path, sha) == [path |-> path, sha |-> sha]
Qwen == <<"qwen", "r1">>
QwenPaths == <<1, 2>>

Snapshot == <<Obj(1, "weights"), Obj(2, "tokens")>>
Tokenizer == [object |-> Obj(2, "tokens"), model |-> Qwen]

ACandidate(fixture) ==
    [model |-> Qwen, objects |-> Snapshot, tokenizer |-> Tokenizer,
     tei |-> "tei", executor |-> "exe", worker |-> "worker",
     control |-> {Obj(3, "manifest"), Obj(4, "receipt"), Obj(5, "worker"), Obj(6, fixture)},
     input_count |-> 2, output_key |-> 8,
     execution |-> [artifacts |-> <<Qwen, Snapshot>>, tokenizer |-> "tokens",
                    tei |-> "tei", executor |-> "exe", worker |-> "worker", served |-> "m",
                    batch |-> 4, batch_tokens |-> 8, max_tokens |-> 3]]

Template(c) ==
    LET objects == c.control \union {c.tokenizer.object} \union Range(c.objects)
    IN  [candidate |-> c,
         files |-> [digests |-> [path \in {o.path : o \in objects} |->
                                    (CHOOSE o \in objects : o.path = path).sha],
                    manifest |-> c.objects, fixture |-> <<1, 3>>,
                    receipt |-> [executor |-> c.executor, tei |-> c.tei, worker |-> c.worker]]]

C1 == ACandidate("f1")

CandidateTemplates ==
    [c1 |-> Template(C1),
     c2 |-> Template(ACandidate("f2")),
     unpinned |-> Template([ACandidate("f3") EXCEPT !.tei = "new", !.execution.tei = "new"]),
     oversized |-> Template([C1 EXCEPT !.input_count = 5]),
     colliding |-> Template([C1 EXCEPT !.output_key = 5]),
     repeated |-> Template([C1 EXCEPT !.control = @ \union {Obj(2, "else")}]),
     reserved |-> Template([C1 EXCEPT !.control = @ \union {Obj(9, "x")}]),
     unbound |-> Template([C1 EXCEPT !.tokenizer.object.sha = "else"]),
     mismatched |-> [Template(C1) EXCEPT !.files.manifest = <<Obj(1, "weights")>>],
     rebuilt |-> [Template(C1) EXCEPT !.files.receipt.worker = "else"],
     overlong |-> [Template(C1) EXCEPT !.files.fixture = <<1, 4>>],
     changed |-> [Template(C1) EXCEPT !.files.digests[1] = "else"]]

Draft ==
    [model |-> Qwen, artifacts |-> C1.execution.artifacts, objects |-> Snapshot,
     tokenizer |-> Tokenizer, tei |-> "tei", executor |-> "exe", served |-> "m",
     max_tokens |-> 3, batch |-> 4, batch_tokens |-> 8]

PolicyDrafts ==
    {Draft, [Draft EXCEPT !.batch = 3], [Draft EXCEPT !.batch_tokens = 9],
     [Draft EXCEPT !.served = "n"], [Draft EXCEPT !.tei = "new"]}

\* Templates is CandidateTemplates in the configuration; named here, TLC
\* evaluates it once.
Measuring ==
    INSTANCE Conformance
    WITH Templates <- CandidateTemplates, Drafts <- PolicyDrafts, Reserved <- {9},
         PinnedModel <- Qwen, PinnedPaths <- QwenPaths, PinnedTei <- "tei",
         Window <- 6, MaxBatch <- 6

-----------------------------------------------------------------------------
(* What the theorems about the systems assume.                             *)

ASSUME VolumeAssumption ==
    /\ LargeShared /\ OneAttempt
    /\ Hydration!Declared
    /\ None \notin Commands

model_vars == << data, dest, partial, step, attempt, got, handle, main, next_object,
                 tainted, model_faults >>
conformance_vars == << root, pods, policy, executions, containers >>

VolumeInit ==
    /\ system \in {"stage", "hydrate", "fetch", "measure", "challenge"}
    /\ Init /\ Hydration!Init /\ FetchInit /\ Measuring!ConformanceInit /\ ChallengeInit

VolumeNext ==
    /\ UNCHANGED system
    /\ \/ /\ system = "stage" /\ Next
          /\ UNCHANGED << model_vars, fetch_vars, conformance_vars, challenge_vars >>
       \/ /\ system = "hydrate" /\ Hydration!Next
          /\ UNCHANGED << vars, fetch_vars, conformance_vars, challenge_vars >>
       \/ /\ system = "fetch" /\ FetchNext
          /\ UNCHANGED << vars, model_vars, conformance_vars, challenge_vars >>
       \/ /\ system = "measure" /\ Measuring!ConformanceNext
          /\ UNCHANGED << vars, model_vars, fetch_vars, challenge_vars >>
       \/ /\ system = "challenge" /\ ChallengeNext
          /\ UNCHANGED << vars, model_vars, fetch_vars, conformance_vars >>

VolumeSpec ==
    /\ VolumeInit
    /\ [][VolumeNext]_<< system, vars, model_vars, fetch_vars, conformance_vars,
                         challenge_vars >>
    /\ \A s \in Stagers : /\ WF_vars(system = "stage" /\ Step(s))
                         /\ WF_vars(system = "stage" /\ Start(s))
    /\ WF_model_vars(/\ system = "hydrate"
                     /\ Hydration!Start \/ Hydration!Consider \/ Hydration!Serve)
    /\ \A o \in ModelObjects : WF_model_vars(system = "hydrate" /\ Hydration!Progress(o))

\* Modules VolumeStage and ModelHydration: once faults end, running stage again
\* completes a bundle, wherever the stagers failed and however they met, and
\* running the worker again ends with a complete model.
RerunsComplete ==
    /\ <>(system # "stage" \/ \E s \in Stagers : outcome[s] = "ok")
    /\ <>(system # "hydrate" \/ Hydration!Hydrated)

=============================================================================
