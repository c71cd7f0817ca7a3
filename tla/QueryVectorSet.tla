--------------------------- MODULE QueryVectorSet ---------------------------
(***************************************************************************)
(* Sealed query vectors (rag-pipeline/src/query_vector_set.rs): which      *)
(* query plans are accepted, which queries get a vector and in which       *)
(* order, and which vector a search request without a query id is given.   *)
(*                                                                         *)
(* A plan is a sequence of requests [id, query, mode, topN, relations];    *)
(* relations are numbers, compared as the code compares their names.       *)
(***************************************************************************)
EXTENDS Integers, SequencesExt

MaxTopN == 100

Semantic(r) == r.mode \in {"dense", "fused"}

\* The surface of a request, without and with a query id.
Wanted(r) == << r.mode, r.topN, r.relations >>
Surface(id, r) == << id, Wanted(r) >>

RowValid(r) ==
    /\ r.mode \in {"dense", "lexical", "fused"}
    /\ r.topN \in 1 .. MaxTopN
    /\ \A i \in 1 .. Len(r.relations) - 1 : r.relations[i] < r.relations[i + 1]

(* parse_query_plan: an id has every mode once and one query, one top_n    *)
(* and one list of relations in all of them.                               *)
PlanValid(plan) ==
    /\ \E i \in DOMAIN plan : Semantic(plan[i])
    /\ \A i \in DOMAIN plan : RowValid(plan[i])
    /\ \A i, j \in DOMAIN plan : i # j /\ plan[i].id = plan[j].id =>
         /\ plan[i].mode # plan[j].mode
         /\ plan[i].query = plan[j].query
         /\ plan[i].topN = plan[j].topN
         /\ plan[i].relations = plan[j].relations

Surfaces(plan) == { Surface(plan[i].id, plan[i]) : i \in DOMAIN plan }

\* A semantic request whose id is new gets the next row.
WithQuery(rows, r) ==
    IF Semantic(r) /\ \A i \in DOMAIN rows : rows[i].id # r.id
    THEN Append(rows, [id |-> r.id, query |-> r.query])
    ELSE rows

(* unique_semantic_queries: the order of their first semantic request is   *)
(* the order of the vectors.                                               *)
UniqueQueries(plan) == FoldLeft(WithQuery, << >>, plan)

(* The text a model is given for a query; the profile fixes the template.  *)
ComposeQuery(profile, query) == << profile, query >>

(* vector_for_unique_request: the rows with the request's text, composed   *)
(* text and surface, in a set made for a plan under an embedding profile.  *)
Matches(plan, profile, composed, r) ==
    LET rows == UniqueQueries(plan) IN
    { i \in DOMAIN rows :
        /\ rows[i].query = r.query
        /\ ComposeQuery(profile, rows[i].query) = composed
        /\ Surface(rows[i].id, r) \in Surfaces(plan) }

Admitted(plan, profile, composed, r) == Cardinality(Matches(plan, profile, composed, r)) = 1

VectorRow(plan, profile, composed, r) == CHOOSE i \in Matches(plan, profile, composed, r) : TRUE
=============================================================================
