--------------------------- MODULE SealedVectors ---------------------------
(***************************************************************************)
(* Writing and opening a sealed query-vector set                           *)
(* (rag-pipeline/src/query_vector_set.rs), the embedding profile's way of  *)
(* composing a query and adapting a model's vector                         *)
(* (rag-embedding/src/lib.rs).                                             *)
(*                                                                         *)
(* A profile is [component, model, dims, normalization, instruction,       *)
(* parent]; parent is 0, or the dimensions of the vectors it reduces.      *)
(* A vector is a sequence of integers; a normalized one is represented by  *)
(* the primitive vector of its direction.                                  *)
(***************************************************************************)
EXTENDS Common, QueryVectorSet

\* The largest integer dividing every component.
Content(v) == CHOOSE d \in 1..Max({1} \cup {IF x < 0 THEN -x ELSE x : x \in Range(v)}) :
    /\ \A x \in Range(v) : x % d = 0
    /\ \A e \in d + 1..Max({1} \cup {IF x < 0 THEN -x ELSE x : x \in Range(v)}) :
          \E x \in Range(v) : x % e # 0

IsZero(v) == Range(v) \subseteq {0}

ValidateVector(v, dims, normalization) ==
    /\ v # <<>> /\ Len(v) = dims
    /\ normalization = "l2" => ~ IsZero(v) /\ Content(v) = 1

\* A reduced profile keeps a prefix, which must be normalized again.
AdaptModelVector(profile, v) ==
    LET prefix == SubSeq(v, 1, profile.dims)
        reduced == MapSeq(LAMBDA x : x \div Content(prefix), prefix)
    IN  IF profile.parent = 0
        THEN IF ValidateVector(v, profile.dims, profile.normalization) THEN Ok(v) ELSE Err("vector")
        ELSE IF Len(v) = profile.parent /\ ~ IsZero(prefix) THEN Ok(reduced) ELSE Err("vector")

TryComposeQuery(profile, query) == << profile.instruction, query >>

-----------------------------------------------------------------------------
(* A set on disk: [plan, manifest, vectors], the manifest being            *)
(* [plan, rows, semantic, profile, model, dims, normalization, queries,    *)
(* vectors], where plan and vectors stand for the digests of the files.    *)

SemanticRows(plan) == Cardinality({k \in DOMAIN plan : Semantic(plan[k])})

ManifestValid(manifest) ==
    /\ manifest.rows > 0
    /\ manifest.semantic \in 1..manifest.rows
    /\ manifest.queries # <<>>
    /\ Len(manifest.vectors) = Len(manifest.queries)
    /\ manifest.normalization \in {"l2", "none"}
    /\ manifest.dims > 0
    /\ NoRepeats(MapSeq(LAMBDA row : row.id, manifest.queries))

\* inputs: sequence of [id, query, composed, vector] in the plan's order
WriteQueryVectorSet(plan, execution, profile, inputs) ==
    LET planned == UniqueQueries(plan)
        vectors == MapSeq(LAMBDA input : input.vector, inputs)
        manifest == [plan |-> plan, rows |-> Len(plan), semantic |-> SemanticRows(plan),
                     profile |-> execution.profile, model |-> execution.model,
                     dims |-> profile.dims, normalization |-> profile.normalization,
                     queries |-> inputs, vectors |-> vectors]
    IN  IF /\ PlanValid(plan)
           /\ Len(planned) = Len(inputs)
           /\ \A k \in DOMAIN planned :
                 /\ planned[k].id = inputs[k].id
                 /\ planned[k].query = inputs[k].query
                 /\ ValidateVector(inputs[k].vector, profile.dims, profile.normalization)
           /\ ManifestValid(manifest)
        THEN Ok([plan |-> plan, manifest |-> manifest, vectors |-> vectors])
        ELSE Err("write")

\* file: the requests file the set must be for
OpenSealed(set, profile, file) ==
    /\ ManifestValid(set.manifest)
    /\ set.manifest.profile = profile.component
    /\ set.manifest.model = profile.model
    /\ set.manifest.dims = profile.dims
    /\ set.manifest.normalization = profile.normalization
    /\ set.plan = set.manifest.plan
    /\ file = set.manifest.plan
    /\ PlanValid(set.plan)
    /\ Len(set.plan) = set.manifest.rows
    /\ SemanticRows(set.plan) = set.manifest.semantic
    /\ LET planned == UniqueQueries(set.plan)
       IN  /\ Len(planned) = Len(set.manifest.queries)
           /\ \A k \in DOMAIN planned :
                 /\ planned[k].id = set.manifest.queries[k].id
                 /\ planned[k].query = set.manifest.queries[k].query
    /\ set.vectors = set.manifest.vectors
    /\ \A k \in DOMAIN set.vectors :
          /\ ValidateVector(set.vectors[k], profile.dims, profile.normalization)
          /\ set.vectors[k] = set.manifest.queries[k].vector

\* The row of a query id, if its text and composition are the sealed ones.
VectorFor(set, id, query, composed) ==
    LET rows == {k \in DOMAIN set.manifest.queries :
                    LET row == set.manifest.queries[k]
                    IN  row.id = id /\ row.query = query /\ row.composed = composed}
    IN  IF rows = {} THEN Err("not sealed") ELSE Ok(set.vectors[CHOOSE k \in rows : TRUE])

VectorForRequest(set, request, composed) ==
    IF Surface(request.id, request) \in Surfaces(set.plan)
    THEN VectorFor(set, request.id, request.query, composed)
    ELSE Err("surface")
=============================================================================
