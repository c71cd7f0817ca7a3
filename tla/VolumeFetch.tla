---------------------------- MODULE VolumeFetch ----------------------------
(***************************************************************************)
(* `rag runpod fetch' and `rag runpod verify' (rag-builder/src/            *)
(* runpod_cli.rs; downloads in runpod_s3.rs).  Fetch never lists the       *)
(* volume: it reads the completion marker of every worker at its one key,  *)
(* then the objects those markers declare, each checked against its        *)
(* digest, into a private directory that it verifies and only then moves   *)
(* under the requested name, one entry after the other.                    *)
(*                                                                         *)
(* A content is [id, bytes]; a digest tells it.  An output of a marker is  *)
(* [task, content] where content gives the task's three objects.           *)
(***************************************************************************)
EXTENDS Bundle

CONSTANTS
    TheBundle,   \* the local bundle
    Completed,   \* Completed[w]: the marker worker w publishes when it is done
    Strange,     \* Strange[w]: other markers that may lie at worker w's key
    Fetchers,    \* processes that fetch into the same directory
    MarkerBytes, \* length of a marker
    MaxFetchFaults    \* bound: kills and files changed behind the program's back

VARIABLES
    run,   \* content of every key of the run prefix that exists
    fpc,       \* step of every fetcher
    fat,       \* position in the list it goes through
    staging,  \* its private directory
    out,      \* the directory the fetchers publish
    altered,  \* a published file was changed by someone else
    fetch_faults

fetch_vars == <<run, fpc, fat, staging, out, altered, fetch_faults>>

Nothing == [x \in {} |-> 0]

WithFile(files, key, content) ==
    [k \in DOMAIN files \union {key} |-> IF k = key THEN content ELSE files[k]]

Workers == DOMAIN Completed

MarkerKey(worker) == <<"attempts", worker>>
OutputKey(task, kind) == <<"output", task, kind>>
QueryKey(k) == <<"query", k>>
Kinds == <<"result", "receipt", "report">>

\* What the theorems assume of the bundle and the markers: sequences, one
\* assignment for every worker (validate_assignments), and no task twice in it
\* (RunpodWorkerAssignment::validate).
IsSequence(seq) == seq \in Seq(Range(seq))

ASSUME FetchAssumption ==
    /\ IsSequence(TheBundle.assignments) /\ TheBundle.assignments # <<>>
    /\ \A k, l \in DOMAIN TheBundle.assignments :
          TheBundle.assignments[k].worker = TheBundle.assignments[l].worker => k = l
    /\ {a.worker : a \in Range(TheBundle.assignments)} = Workers
    /\ \A a \in Range(TheBundle.assignments) : IsSequence(a.tasks) /\ NoRepeats(a.tasks)
    /\ \A w \in Workers : IsSequence(Completed[w].outputs) /\ IsSequence(Completed[w].query)

\* Of this bundle, a worker completes one attempt: no other marker at its key
\* could be taken for it (module RunpodWorker publishes a marker only once).
OneAttempt ==
    \A w \in Workers : \A marker \in Strange[w] \ {Completed[w]} :
        ~(marker.worker = w /\ marker.outcome = "completed" /\ MarkerValid(marker, TheBundle))

\* The objects a marker declares, in order.
OutputObjects(markers) ==
    FlattenSeq(MapSeq(LAMBDA marker :
        FlattenSeq(MapSeq(LAMBDA output :
            MapSeq(LAMBDA kind : [key |-> OutputKey(output.task, kind),
                                  content |-> output.content[kind]], Kinds),
            marker.outputs)), markers))

QueryVectorObjects(markers) ==
    FlattenSeq(MapSeq(LAMBDA marker :
        [k \in 1..Len(marker.query) |-> [key |-> QueryKey(k), content |-> marker.query[k]]],
        markers))

\* RunpodS3Manifest::new
ManifestValid(objects) == objects # <<>> /\ NoRepeats(MapSeq(LAMBDA o : o.key, objects))

-----------------------------------------------------------------------------
(* The published directory and its verification.                           *)

EmptyDirectory == [embeddings |-> Nothing, query |-> Nothing,
                   markers |-> Nothing, report |-> <<>>, receipt |-> <<>>]

Bytes(objects) == SumOf(MapSeq(LAMBDA o : o.content.bytes, objects))

\* build_fetch_receipt
FetchReceipt(bundle, markers, report) ==
    LET marker_bytes == Len(markers) * MarkerBytes
        output_bytes == Bytes(OutputObjects(markers))
        query_bytes == Bytes(QueryVectorObjects(markers))
    IN  <<[bundle |-> bundle, markers |-> marker_bytes, outputs |-> output_bytes,
           queries |-> query_bytes, total |-> marker_bytes + output_bytes + query_bytes,
           report |-> report]>>

\* verify_local_object for every object of a list
Holds(files, objects) ==
    \A o \in Range(objects) : o.key \in DOMAIN files /\ files[o.key] = o.content

PlanTasks(bundle) == UNION {Range(a.tasks) : a \in Range(bundle.assignments)}

\* validate_unfinalized_embedding_artifacts: these files and no others.
CoversPlan(files, bundle) ==
    DOMAIN files = {OutputKey(task, kind) : task \in PlanTasks(bundle), kind \in Range(Kinds)}

\* verify_query_vector_set: the set opens with the bundle's queries; its
\* manifest names the queries and the vectors.
QuerySetOpens(files, bundle, marker) ==
    /\ \A k \in 1..3 : QueryKey(k) \in DOMAIN files
    /\ files[QueryKey(2)] = bundle.artifacts.query_plan
    /\ files[QueryKey(1)].binds = <<files[QueryKey(2)].id, files[QueryKey(3)].id>>
    /\ files[QueryKey(1)] = marker.query[1]

MarkersIn(directory, bundle) == MapSeq(LAMBDA a : directory.markers[a.worker], bundle.assignments)

\* Mutant: the embedding files are counted and not compared.
OutputsHeld_Counted(directory, markers) ==
    Cardinality(DOMAIN directory.embeddings) = Len(OutputObjects(markers))

OutputsHeld(directory, markers) ==
    Holds(directory.embeddings, OutputObjects(markers))

\* verify_fetched and verify_fetched_values
DirectoryVerified(directory, bundle) ==
    /\ \A a \in Range(bundle.assignments) : a.worker \in DOMAIN directory.markers
    /\ LET markers == MarkersIn(directory, bundle)
           report == BuildReport(bundle, markers)
       IN  /\ report.ok /\ directory.report = <<report.value>>
           /\ directory.receipt = FetchReceipt(bundle, markers, report.value)
           /\ \A k \in 1..Len(markers) :
                 /\ MarkerValid(markers[k], bundle)
                 \* the object of the marker, at the key of the worker it names
                 /\ markers[k].worker \in DOMAIN directory.markers
                 /\ directory.markers[markers[k].worker] = markers[k]
           /\ OutputsHeld(directory, markers)
           /\ Holds(directory.query, QueryVectorObjects(markers))
           /\ \A k \in 1..Len(markers) :
                 markers[k].worker = QueryWorker => QuerySetOpens(directory.query, bundle, markers[k])
           /\ CoversPlan(directory.embeddings, bundle)

-----------------------------------------------------------------------------
(* The volume.                                                             *)

FetchInit ==
    /\ run = Nothing
    /\ fpc = [f \in Fetchers |-> "idle"]
    /\ fat = [f \in Fetchers |-> 1]
    /\ staging = [f \in Fetchers |-> EmptyDirectory]
    /\ out = <<>>
    /\ altered = FALSE
    /\ fetch_faults = 0

FetchFault == fetch_faults < MaxFetchFaults /\ fetch_faults' = fetch_faults + 1

\* A worker publishes its outputs and then its marker.
Complete(w) ==
    /\ MarkerKey(w) \notin DOMAIN run
    /\ LET objects == OutputObjects(<<Completed[w]>>) \o QueryVectorObjects(<<Completed[w]>>)
           published == [key \in DOMAIN run \union {o.key : o \in Range(objects)} |->
                            IF key \in DOMAIN run THEN run[key]
                            ELSE (CHOOSE o \in Range(objects) : o.key = key).content]
       IN  run' = WithFile(published, MarkerKey(w), Completed[w])
    /\ UNCHANGED <<fpc, fat, staging, out, altered, fetch_faults>>

\* An object has lost its content.
Disturb(key) ==
    /\ FetchFault
    /\ key[1] # "attempts"
    /\ run' = [run EXCEPT ![key].id = <<"other">>]
    /\ UNCHANGED <<fpc, fat, staging, out, altered>>

\* Another marker lies at a worker's key.
Misplace(w) ==
    /\ FetchFault
    /\ \E marker \in Strange[w] : run' = WithFile(run, MarkerKey(w), marker)
    /\ UNCHANGED <<fpc, fat, staging, out, altered>>

-----------------------------------------------------------------------------
(* Fetch.                                                                  *)

\* A command ends; nothing looks at its private directory any more.
End(f, how) ==
    /\ fpc' = [fpc EXCEPT ![f] = how]
    /\ fat' = [fat EXCEPT ![f] = 1]
    /\ staging' = [staging EXCEPT ![f] = EmptyDirectory]

FetchGoto(f, step) ==
    /\ fpc' = [fpc EXCEPT ![f] = step]
    /\ fat' = [fat EXCEPT ![f] = 1]

MarkersFetched(f) == MarkersIn(staging[f], TheBundle)

\* refuse_existing
BeginFetch(f) ==
    /\ fpc[f] \in {"idle", "failed"}
    /\ out = <<>>
    /\ FetchGoto(f, "markers")
    /\ UNCHANGED <<run, staging, out, altered, fetch_faults>>

\* get_completion_marker: a marker of this bundle for this worker's key.
MarkerAccepted(worker) ==
    /\ MarkerKey(worker) \in DOMAIN run
    /\ MarkerValid(run[MarkerKey(worker)], TheBundle)
    /\ run[MarkerKey(worker)].worker = worker
    /\ run[MarkerKey(worker)].outcome = "completed"

GetMarker(f) ==
    /\ fpc[f] = "markers"
    /\ LET worker == TheBundle.assignments[fat[f]].worker
       IN  IF ~MarkerAccepted(worker)
           THEN End(f, "failed")
           ELSE /\ staging' = [staging EXCEPT
                        ![f].markers = WithFile(@, worker, run[MarkerKey(worker)])]
                /\ IF fat[f] = Len(TheBundle.assignments)
                   THEN FetchGoto(f, "outputs")
                   ELSE fat' = [fat EXCEPT ![f] = @ + 1] /\ UNCHANGED fpc
    /\ UNCHANGED <<run, out, altered, fetch_faults>>

\* get_declared_object: the length and the digest while streaming.
Download(f, objects, tree, then) ==
    LET o == objects[fat[f]]
        accepted == ManifestValid(objects) /\ o.key \in DOMAIN run /\ run[o.key] = o.content
    IN  IF ~accepted
        THEN End(f, "failed")
        ELSE /\ staging' = [staging EXCEPT ![f][tree] = WithFile(@, o.key, run[o.key])]
             /\ IF fat[f] = Len(objects)
                THEN FetchGoto(f, then)
                ELSE fat' = [fat EXCEPT ![f] = @ + 1] /\ UNCHANGED fpc

GetOutput(f) ==
    /\ fpc[f] = "outputs"
    /\ Download(f, OutputObjects(MarkersFetched(f)), "embeddings", "queries")
    /\ UNCHANGED <<run, out, altered, fetch_faults>>

GetQueryVectors(f) ==
    /\ fpc[f] = "queries"
    /\ Download(f, QueryVectorObjects(MarkersFetched(f)), "query", "report")
    /\ UNCHANGED <<run, out, altered, fetch_faults>>

\* The report and the receipt are written and everything is verified.
Assemble(f) ==
    /\ fpc[f] = "report"
    /\ LET report == BuildReport(TheBundle, MarkersFetched(f))
           directory == [staging[f] EXCEPT
                            !.report = <<report.value>>,
                            !.receipt = FetchReceipt(TheBundle, MarkersFetched(f), report.value)]
       IN  IF ~report.ok \/ ~DirectoryVerified(directory, TheBundle)
           THEN End(f, "failed")
           ELSE FetchGoto(f, "reserve") /\ staging' = [staging EXCEPT ![f] = directory]
    /\ UNCHANGED <<run, out, altered, fetch_faults>>

\* publish_without_overwrite: create_dir reserves the destination.
Reserve(f) ==
    /\ fpc[f] = "reserve"
    /\ IF out # <<>>
       THEN End(f, "failed") /\ UNCHANGED out
       ELSE FetchGoto(f, "move") /\ out' = <<EmptyDirectory>> /\ UNCHANGED staging
    /\ UNCHANGED <<run, altered, fetch_faults>>

\* The entries move in the order of their names.
Entries == <<{"embeddings"}, {"markers", "report", "receipt"}, {"query"}>>

Moved(directory, from, fields) ==
    [field \in DOMAIN directory |-> IF field \in fields THEN from[field] ELSE directory[field]]

Move(f) ==
    /\ fpc[f] = "move"
    /\ out' = <<Moved(out[1], staging[f], Entries[fat[f]])>>
    /\ IF fat[f] = Len(Entries)
       THEN End(f, "ok")
       ELSE fat' = [fat EXCEPT ![f] = @ + 1] /\ UNCHANGED <<fpc, staging>>
    /\ UNCHANGED <<run, altered, fetch_faults>>

\* A request fails, or the process is killed; a directory that is half moved
\* stays as it is.
Fail(f) ==
    /\ fpc[f] \notin {"idle", "failed", "ok"}
    /\ FetchFault
    /\ End(f, "failed")
    /\ UNCHANGED <<run, out, altered>>

\* Files of the published directory are changed, lost or taken from elsewhere.
Alter ==
    /\ out # <<>>
    /\ FetchFault
    /\ \/ \E key \in DOMAIN out[1].embeddings :
             \/ out' = <<[out[1] EXCEPT !.embeddings[key].id = <<"other">>]>>
             \/ out' = <<[out[1] EXCEPT !.embeddings =
                            [k \in DOMAIN @ \ {key} |-> @[k]]]>>
       \/ \E key \in DOMAIN out[1].query : out' = <<[out[1] EXCEPT !.query[key].id = <<"other">>]>>
       \/ \E w \in DOMAIN out[1].markers :
             \E marker \in Strange[w] : out' = <<[out[1] EXCEPT !.markers[w] = marker]>>
    /\ altered' = TRUE
    /\ UNCHANGED <<run, fpc, fat, staging>>

FetchNext ==
    \/ \E w \in Workers : Complete(w) \/ Misplace(w)
    \/ \E key \in DOMAIN run : Disturb(key)
    \/ Alter
    \/ \E f \in Fetchers :
          \/ BeginFetch(f) \/ GetMarker(f) \/ GetOutput(f) \/ GetQueryVectors(f)
          \/ Assemble(f) \/ Reserve(f) \/ Move(f) \/ Fail(f)

FetchSpec == FetchInit /\ [][FetchNext]_fetch_vars

-----------------------------------------------------------------------------
(* Properties.                                                             *)

\* Every task has exactly what its worker completed with, and nothing else.
Exact(directory) ==
    LET all == [k \in 1..Len(TheBundle.assignments) |->
                    Completed[TheBundle.assignments[k].worker]]
        objects == OutputObjects(all)
    IN  /\ \A w \in Workers : w \in DOMAIN directory.markers /\ directory.markers[w] = Completed[w]
        /\ DOMAIN directory.embeddings = {o.key : o \in Range(objects)}
        /\ Holds(directory.embeddings, objects)
        /\ Holds(directory.query, QueryVectorObjects(all))

(***************************************************************************)
(* Whenever `verify' would accept the published directory, it holds the    *)
(* markers of exactly the completed attempts and every task's outputs as   *)
(* the workers completed them: not after a publication that was            *)
(* interrupted between two renames, not after markers of another run or    *)
(* other contents came to the volume, not after files were exchanged       *)
(* locally.  And a fetch that returned success has published a directory   *)
(* that verify accepts (fetch, verify_fetched_values,                      *)
(* publish_without_overwrite).                                             *)
(***************************************************************************)
FetchedExact ==
    /\ out # <<>> /\ DirectoryVerified(out[1], TheBundle) => Exact(out[1])
    /\ (\E f \in Fetchers : fpc[f] = "ok") /\ ~altered => DirectoryVerified(out[1], TheBundle)

-----------------------------------------------------------------------------
(* An inductive invariant.                                                 *)

\* Markers come from the worker or from the others that may lie at its key.
MarkersAt(w) == {Completed[w]} \union Strange[w]

DirectoryKnown(directory) ==
    /\ directory = [field \in DOMAIN EmptyDirectory |-> directory[field]]
    /\ \A w \in DOMAIN directory.markers :
          w \in Workers /\ directory.markers[w] \in MarkersAt(w)

RunKnown ==
    \A w \in Workers : MarkerKey(w) \in DOMAIN run => run[MarkerKey(w)] \in MarkersAt(w)

\* A fetcher has the output directory to itself.
Publishing(f) == fpc[f] \in {"move", "ok"}

OutKnown == out = <<>> \/ (out = <<out[1]>> /\ DirectoryKnown(out[1]))

\* What is verified is what is moved, and what is published once it has moved.
Fetching(f) ==
    /\ DirectoryKnown(staging[f])
    /\ fpc[f] = "markers" => fat[f] \in DOMAIN TheBundle.assignments
    /\ fpc[f] \in {"reserve", "move"} => DirectoryVerified(staging[f], TheBundle)
    /\ fpc[f] = "move" =>
          /\ fat[f] \in 1..3
          /\ ~altered => \A k \in 1..(fat[f] - 1) : \A field \in Entries[k] :
                             out[1][field] = staging[f][field]
    /\ Publishing(f) => out # <<>> /\ \A g \in Fetchers : Publishing(g) => g = f
    /\ fpc[f] = "ok" /\ ~altered => DirectoryVerified(out[1], TheBundle)

FetchInv ==
    /\ fpc \in [Fetchers -> {"idle", "markers", "outputs", "queries", "report",
                             "reserve", "move", "ok", "failed"}]
    /\ fat \in [Fetchers -> Nat]
    /\ staging = [f \in Fetchers |-> staging[f]]
    /\ RunKnown /\ OutKnown
    /\ \A f \in Fetchers : Fetching(f)
=============================================================================
