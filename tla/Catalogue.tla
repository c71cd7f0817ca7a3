----------------------------- MODULE Catalogue -----------------------------
(***************************************************************************)
(* The dataset catalogue (rag-pipeline/src/dataset_catalogue.rs and the    *)
(* admission of rag-builder/src/catalogue.rs): which catalogues are valid, *)
(* how one is built from artifacts on disk, and what must still be true of *)
(* those artifacts when it is admitted.                                    *)
(*                                                                         *)
(* disk maps a path to an artifact, a record with a kind:                  *)
(*   prepared [id, dataset, policy, documents, references, order]          *)
(*   plan     [id, version, prepared, profile, dims, normalization, tasks] *)
(*   results  [id, class, plan, prepared, profile, bound, documents,       *)
(*             order, tasks]                                               *)
(*   index    [id, provenance, snapshot, mapping, profile, documents,      *)
(*             references, order, test_only, rows]                         *)
(* An id stands for the component digest.  Dataset ids, relations and      *)
(* dataset digests are numbers, compared as the code compares their text.  *)
(***************************************************************************)
EXTENDS Common

Roles == {"prepared", "plan", "results", "index"}

\* What parsing leaves of a dataset and of a catalogue file.
DatasetParsed(dataset) == dataset.id \in Int /\ dataset.relations \in Seq(Int)

ArtifactParsed(artifact) == artifact.kind = "prepared" => DatasetParsed(artifact.dataset)

CatalogueParsed(cat) ==
    /\ Len(cat.datasets) \in Nat /\ DOMAIN cat.datasets = 1..Len(cat.datasets)
    /\ Len(cat.allowances) \in Nat /\ DOMAIN cat.allowances = 1..Len(cat.allowances)
    /\ \A k \in DOMAIN cat.datasets : DatasetParsed(cat.datasets[k].dataset)

-----------------------------------------------------------------------------
(* DatasetCatalogue::validate                                              *)

StrictlyAscending(seq) == \A k \in 1..Len(seq) - 1 : seq[k] < seq[k + 1]

\* One sealed entry against the catalogue it is in.
EntryBinds(cat, k) ==
    LET entry == cat.datasets[k]
    IN  /\ StrictlyAscending(entry.dataset.relations)
        /\ entry.dataset.relations # <<>>
        /\ entry.documents > 0
        /\ entry.references >= entry.documents
        /\ k > 1 => cat.datasets[k - 1].dataset.id < entry.dataset.id
        /\ entry.sha = entry.dataset.sha
        /\ entry.dataset.snapshot = cat.snapshot
        /\ entry.dataset.mapping = cat.mapping
        /\ entry.policy = cat.policy
        /\ entry.profile = cat.profile
        /\ entry.test_only = (cat.mode = "test_only")

\* No artifact path is named twice in a catalogue.
PathsDistinct(cat) ==
    \A k, l \in DOMAIN cat.datasets : \A r, s \in Roles :
        cat.datasets[k].paths[r] = cat.datasets[l].paths[s] => k = l /\ r = s

\* The ids of the datasets that include a relation, in catalogue order.
Owners(datasets, relation) ==
    LET having == {k \in DOMAIN datasets : relation \in Range(datasets[k].dataset.relations)}
    IN  MapSeq(LAMBDA k : datasets[k].dataset.id, Ascending(having))

Relations(datasets) == UNION {Range(datasets[k].dataset.relations) : k \in DOMAIN datasets}

Overlaps(datasets) == {r \in Relations(datasets) : Len(Owners(datasets, r)) > 1}

\* Every relation held by two datasets is allowed, with all its owners, and
\* no allowance is idle.
ValidateOverlapAllowances(allowances, datasets) ==
    /\ StrictlyAscending(MapSeq(LAMBDA a : a.relation, allowances))
    /\ \A a \in Range(allowances) :
        /\ a.relation \in Overlaps(datasets)
        /\ a.datasets = Owners(datasets, a.relation)
    /\ Len(allowances) = Cardinality(Overlaps(datasets))

CatalogueValid(cat) ==
    /\ cat.datasets # <<>>
    /\ \A k \in DOMAIN cat.datasets : EntryBinds(cat, k)
    /\ PathsDistinct(cat)
    /\ ValidateOverlapAllowances(cat.allowances, cat.datasets)

-----------------------------------------------------------------------------
(* The artifacts of one dataset, read from disk.                           *)

ExpectedProvenance(entry, prepared, plan, results) ==
    [dataset |-> entry.sha, prepared |-> prepared, plan |-> plan, results |-> results]

\* The part of a finalized result set that its own loading replays: it
\* belongs to the plan, and the profile stored with it is the index's.
LoadResults(results, plan, profile) ==
    /\ results.kind = "results"
    /\ results.plan = plan.id
    /\ results.tasks = plan.tasks
    /\ results.bound.component = plan.profile
    /\ results.bound.dims = plan.dims
    /\ results.bound.normalization = plan.normalization
    /\ results.bound = profile

OpenIndex(index, allowTestOnly) ==
    /\ index.kind = "index"
    /\ index.test_only => allowTestOnly

LoadDataset(disk, paths, allowTestOnly) ==
    LET at == [r \in Roles |-> disk[paths[r]]]
    IN  IF /\ at["prepared"].kind = "prepared"
           /\ at["plan"].kind = "plan" /\ at["plan"].version = 2
           /\ OpenIndex(at["index"], allowTestOnly)
           /\ LoadResults(at["results"], at["plan"], at["index"].profile)
        THEN Ok([at |-> at, paths |-> paths])
        ELSE Err("load")

\* validate_dataset_pipeline_binding
PipelineBinds(entry, prepared, plan, results) ==
    /\ plan.prepared = prepared.id
    /\ results.class \in {"final", "test", "derived"}
    /\ results.plan = plan.id
    /\ results.prepared = prepared.id
    /\ results.profile = plan.profile
    /\ results.documents = prepared.documents
    /\ results.order = prepared.order
    /\ entry.dataset = prepared.dataset
    /\ entry.sha = prepared.dataset.sha
    /\ entry.policy = prepared.policy
    /\ entry.ids["prepared"] = prepared.id
    /\ entry.ids["plan"] = plan.id
    /\ entry.ids["results"] = results.id
    /\ entry.profile = plan.profile
    /\ entry.documents = prepared.documents
    /\ entry.references = prepared.references
    /\ results.tasks = plan.tasks
    /\ entry.test_only = (results.class = "test")

\* What both admissions ask of an opened index.
IndexBinds(entry, index, provenance) ==
    /\ entry.ids["index"] = index.id
    /\ entry.documents = index.documents
    /\ entry.references = index.references
    /\ index.snapshot = entry.dataset.snapshot
    /\ index.mapping = entry.dataset.mapping
    /\ index.profile.component = entry.profile
    /\ index.provenance = provenance
    /\ index.test_only = entry.test_only

ValidateFinalIndexBinding(entry, plan, provenance, order, index) ==
    /\ IndexBinds(entry, index, provenance)
    /\ index.profile.dims = plan.dims
    /\ index.profile.normalization = plan.normalization
    /\ index.order = order

ValidateLoadedEntry(entry, at) ==
    /\ PipelineBinds(entry, at["prepared"], at["plan"], at["results"])
    /\ ValidateFinalIndexBinding(entry, at["plan"],
           ExpectedProvenance(entry, at["prepared"].id, at["plan"].id, at["results"].id),
           at["prepared"].order, at["index"])

\* Mutant: only the counts and the profile are compared at query time.
ValidateRuntimeIndexEntry_Counts(entry, index) ==
    /\ entry.documents = index.documents
    /\ entry.references = index.references
    /\ index.profile.component = entry.profile

\* Runtime admission trusts the parents' ids recorded in the entry.
ValidateRuntimeIndexEntry(entry, index) ==
    IndexBinds(entry, index,
        ExpectedProvenance(entry, entry.ids["prepared"], entry.ids["plan"], entry.ids["results"]))

OneProfile(indexes) == \A k \in DOMAIN indexes : indexes[k].profile = indexes[1].profile

-----------------------------------------------------------------------------
(* Admission: in full for `catalogue validate', of the indexes for queries. *)

AdmittedAs(cat, indexes) == [catalogue |-> cat, indexes |-> indexes]

AdmitCatalogue(cat, disk) ==
    LET load == [k \in DOMAIN cat.datasets |->
                    LoadDataset(disk, cat.datasets[k].paths, cat.mode = "test_only")]
        indexes == [k \in DOMAIN cat.datasets |-> load[k].value.at["index"]]
    IN  IF /\ CatalogueValid(cat)
           /\ \A k \in DOMAIN cat.datasets :
                 load[k].ok /\ ValidateLoadedEntry(cat.datasets[k], load[k].value.at)
           /\ OneProfile(indexes)
        THEN Ok(AdmittedAs(cat, indexes))
        ELSE Err("admission")

AdmitCatalogueForQuery(cat, disk) ==
    LET indexes == [k \in DOMAIN cat.datasets |-> disk[cat.datasets[k].paths["index"]]]
    IN  IF /\ CatalogueValid(cat)
           /\ \A k \in DOMAIN indexes :
                 /\ OpenIndex(indexes[k], cat.mode = "test_only")
                 /\ ValidateRuntimeIndexEntry(cat.datasets[k], indexes[k])
           /\ OneProfile(indexes)
        THEN Ok(AdmittedAs(cat, indexes))
        ELSE Err("admission")

-----------------------------------------------------------------------------
(* build_catalogue up to the file it writes.                               *)

ArtifactIds(at) == [r \in Roles |-> at[r].id]

CatalogueEntry(loaded, testOnly) ==
    LET at == loaded.at
    IN  [dataset |-> at["prepared"].dataset, sha |-> at["prepared"].dataset.sha,
         policy |-> at["prepared"].policy, paths |-> loaded.paths, ids |-> ArtifactIds(at),
         profile |-> at["plan"].profile, documents |-> at["index"].documents,
         references |-> at["index"].references, test_only |-> testOnly]

\* Each allowance names an overlap and gets all its owners; the requested
\* relations are given without repetition (a reason is not modelled).
OverlapAllowances(datasets, requested) ==
    IF NoRepeats(requested) /\ Range(requested) \subseteq Overlaps(datasets)
    THEN Ok(MapSeq(LAMBDA r : [relation |-> r, datasets |-> Ascending(Range(Owners(datasets, r)))],
                   Ascending(Range(requested))))
    ELSE Err("allowance")

\* The datasets that were loaded by id, equal ids in the order given.
ByDataset(loads) ==
    LET Id(k) == loads[k].value.at["prepared"].dataset.id
        Earlier(k, l) == Id(k) < Id(l) \/ (Id(k) = Id(l) /\ k < l)
    IN  MapSeq(LAMBDA k : loads[k].value, Ordered(DOMAIN loads, Earlier))

\* options: [datasets: sequence of paths by role, overlaps, test_only]
BuildCatalogue(options, disk) ==
    LET load == MapSeq(LAMBDA paths : LoadDataset(disk, paths, options.test_only), options.datasets)
        loaded == ByDataset(load)
        entries == MapSeq(LAMBDA one : CatalogueEntry(one, options.test_only), loaded)
        allowances == OverlapAllowances(entries, options.overlaps)
        cat == [mode |-> IF options.test_only THEN "test_only" ELSE "normal",
                snapshot |-> entries[1].dataset.snapshot, mapping |-> entries[1].dataset.mapping,
                policy |-> entries[1].policy, profile |-> entries[1].profile,
                datasets |-> entries, allowances |-> allowances.value]
    IN  IF /\ options.datasets # <<>>
           /\ \A k \in DOMAIN load : load[k].ok
           /\ OneProfile(MapSeq(LAMBDA one : one.at["index"], loaded))
           /\ \A k \in DOMAIN entries : ValidateLoadedEntry(entries[k], loaded[k].at)
           /\ allowances.ok
           /\ CatalogueValid(cat)
        THEN Ok(cat)
        ELSE Err("build")
=============================================================================
