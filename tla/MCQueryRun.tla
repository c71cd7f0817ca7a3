----------------------------- MODULE MCQueryRun -----------------------------
(***************************************************************************)
(* Three datasets: two that share a relation, and a test-only one; a       *)
(* reduced index of the first.  Each path may get an artifact that is      *)
(* sound by itself and does not belong to the rest of its chain.           *)
(***************************************************************************)
EXTENDS QueryRun

Wide == [component |-> "wide", model |-> "model", dims |-> 2, normalization |-> "l2",
         instruction |-> "find", parent |-> 0, parent_profile |-> "none"]
Narrow == [Wide EXCEPT !.component = "narrow", !.dims = 1, !.parent = 2, !.parent_profile = "wide"]
Loose == [Wide EXCEPT !.component = "loose", !.normalization = "none"]

Dataset(id, sha, relations) ==
    [id |-> id, sha |-> sha, snapshot |-> "snapshot", mapping |-> "mapping", relations |-> relations]

\* The first dataset has the larger digest.
First == Dataset(1, 20, << 1, 2 >>)
Second == Dataset(2, 10, << 2, 3 >>)
Test == Dataset(3, 30, << 4 >>)

Row(vector, relation, words) == [vector |-> vector, relations |-> {relation}, words |-> words]

Prepared(id, dataset, count) ==
    [kind |-> "prepared", id |-> id, dataset |-> dataset, policy |-> "policy",
     documents |-> count, references |-> count + 1, order |-> id]
Plan(id, prepared, profile) ==
    [kind |-> "plan", id |-> id, version |-> 2, prepared |-> prepared.id, profile |-> profile.component,
     dims |-> profile.dims, normalization |-> profile.normalization, tasks |-> << id >>]
Results(id, class, plan, prepared, profile) ==
    [kind |-> "results", id |-> id, class |-> class, plan |-> plan.id, prepared |-> prepared.id,
     profile |-> plan.profile, bound |-> profile, documents |-> prepared.documents,
     order |-> prepared.order, tasks |-> plan.tasks]
Index(id, prepared, plan, results, rows) ==
    [kind |-> "index", id |-> id,
     provenance |-> [dataset |-> prepared.dataset.sha, prepared |-> prepared.id, plan |-> plan.id,
                     results |-> results.id],
     snapshot |-> "snapshot", mapping |-> "mapping", profile |-> results.bound,
     documents |-> prepared.documents, references |-> prepared.references, order |-> prepared.order,
     test_only |-> results.class = "test", rows |-> rows]

FirstRows == 1 :> Row(<< 1, 0 >>, 1, {"q1"}) @@ 2 :> Row(<< 1, 1 >>, 2, {"q1", "q2"})
SecondRows == 1 :> Row(<< 0, 1 >>, 2, {"q1"}) @@ 3 :> Row(<< 1, -1 >>, 3, {"q2"})

P1 == Prepared("p1", First, 2)    L1 == Plan("l1", P1, Wide)
R1 == Results("r1", "final", L1, P1, Wide)    X1 == Index("x1", P1, L1, R1, FirstRows)
P2 == Prepared("p2", Second, 2)    L2 == Plan("l2", P2, Wide)
R2 == Results("r2", "derived", L2, P2, Wide)    X2 == Index("x2", P2, L2, R2, SecondRows)
P3 == Prepared("p3", Test, 1)    L3 == Plan("l3", P3, Wide)
R3 == Results("r3", "test", L3, P3, Wide)
X3 == Index("x3", P3, L3, R3, 1 :> Row(<< 1, 0 >>, 4, {"q1"}))
X4 == [Index("x4", P1, L1, R1, 1 :> Row(<< 1 >>, 1, {"q1"}) @@ 2 :> Row(<< -1 >>, 2, {"q1", "q2"}))
        EXCEPT !.profile = Narrow]

\* Sound artifacts of other chains, with the same counts.
OtherResults == Results("r1b", "final", L1, P1, Wide)
OtherPlan == Plan("l1b", P1, Wide)
OtherProfile == Results("r1c", "final", Plan("l1c", P1, Loose), P1, Loose)
OtherPrepared == [P2 EXCEPT !.id = "p2b", !.order = "p2b"]
OtherIndexes == {Index("x1b", P1, L1, OtherResults, 1 :> Row(<< 0, 1 >>, 1, {"q1"}) @@ 2 :> Row(<< 1, 0 >>, 2, {"q1"})),
                 [X1 EXCEPT !.id = "x1c", !.profile = Loose],
                 [X1 EXCEPT !.id = "x1d", !.provenance.dataset = 10]}

Path(area, role) == << area, role >>
PathsOf(area) == [role \in Roles |-> Path(area, role)]

MCOriginal ==
    Path("a", "prepared") :> P1 @@ Path("a", "plan") :> L1 @@ Path("a", "results") :> R1 @@
    Path("a", "index") :> X1 @@ Path("b", "prepared") :> P2 @@ Path("b", "plan") :> L2 @@
    Path("b", "results") :> R2 @@ Path("b", "index") :> X2 @@ Path("t", "prepared") :> P3 @@
    Path("t", "plan") :> L3 @@ Path("t", "results") :> R3 @@ Path("t", "index") :> X3 @@
    Path("n", "index") :> X4

Gone == [kind |-> "absent", id |-> "none"]

AllVariants ==
    Path("a", "index") :> (OtherIndexes \cup {X2, Gone}) @@
    Path("a", "results") :> {OtherResults, OtherProfile} @@
    Path("a", "plan") :> {OtherPlan} @@
    Path("b", "prepared") :> {OtherPrepared} @@
    Path("b", "index") :> {X3, X2}

BuildOf(areas, overlaps, test) ==
    [datasets |-> [k \in DOMAIN areas |-> PathsOf(areas[k])], overlaps |-> overlaps, test_only |-> test]

AllBuilds == {BuildOf(<< "b", "a" >>, << 2 >>, FALSE), BuildOf(<< "a", "b" >>, <<>>, FALSE),
             BuildOf(<< "a" >>, <<>>, FALSE), BuildOf(<< "a", "a" >>, <<>>, FALSE),
             BuildOf(<< "t" >>, <<>>, TRUE), BuildOf(<< "t" >>, <<>>, FALSE),
             BuildOf(<< "a", "b" >>, << 1, 2 >>, FALSE), BuildOf(<< "a", "t" >>, <<>>, TRUE)}

Good == BuildCatalogue(BuildOf(<< "a", "b" >>, << 2 >>, FALSE), MCOriginal).value
OfTest == BuildCatalogue(BuildOf(<< "t" >>, <<>>, TRUE), MCOriginal).value

\* Sealed catalogues that no build would write, but one.
ForeignOf(good, of_test) ==
    {good,
     [good EXCEPT !.allowances = <<>>],
     [good EXCEPT !.allowances[1].datasets = << 1 >>],
     [good EXCEPT !.datasets = Reverse(@)],
     [good EXCEPT !.datasets[2] = good.datasets[1], !.allowances = <<>>],
     [of_test EXCEPT !.mode = "normal"],
     [good EXCEPT !.datasets[1].documents = 1],
     [good EXCEPT !.datasets[1].paths["plan"] = Path("b", "plan")]}

AllForeign == ForeignOf(Good, OfTest)

Request(id, query, mode, topN, relations) ==
    [id |-> id, query |-> query, mode |-> mode, topN |-> topN, relations |-> relations]

\* Two ids ask one query; an edit that changes one query; lexical only; a
\* row that repeats an id and a mode; a relation no dataset has.
AllFiles ==
    {<< Request("x", "q1", "dense", 3, <<>>), Request("y", "q1", "fused", 2, << 2 >>),
        Request("x", "q1", "lexical", 3, <<>>) >>,
     << Request("x", "q2", "dense", 3, <<>>), Request("y", "q1", "fused", 2, << 2 >>),
        Request("x", "q2", "lexical", 3, <<>>) >>,
     << Request("x", "q1", "lexical", 1, <<>>) >>,
     << Request("x", "q1", "dense", 3, <<>>), Request("x", "q1", "dense", 3, <<>>) >>,
     << Request("x", "q1", "lexical", 1, << 9 >>) >>}

Answer(model, vectors, micros) == [ok |-> TRUE, model |-> model, vectors |-> vectors, micros |-> micros]

MCModelAnswers(composed) ==
    {[ok |-> FALSE], Answer("other", << << 1, 0 >> >>, 1), Answer("model", << << 2, 2 >> >>, 1),
     Answer("model", << << 1, 1 >> >>, 1), Answer("model", << << 1, 1 >> >>, 3),
     Answer("model", << << 0, 1 >> >>, 2)}

AllSets == {[profile |-> p.component, model |-> "model", of |-> p, vectors |-> {<< 1, 1 >>, << 0, 1 >>}] : p \in {Wide, Loose}}

AllBatches == {[endpoint |-> e, set |-> s, workers |-> 1, allow |-> a] :
                e, s \in BOOLEAN, a \in {FALSE}}
             \cup {[endpoint |-> FALSE, set |-> FALSE, workers |-> 1, allow |-> TRUE]}

AllSearches == {[request |-> Request("", "q1", mode, 2, <<>>), workers |-> 1, allow |-> allow] :
                 mode \in {"dense", "lexical"}, allow \in BOOLEAN}
AllSimilars == {[dataset |-> 1, document |-> 1, topN |-> n, relations |-> <<>>, exclude |-> e,
                workers |-> 1, allow |-> FALSE] : n \in {1, 3}, e \in BOOLEAN}
              \cup {[dataset |-> 2, document |-> 2, topN |-> 1, relations |-> <<>>, exclude |-> TRUE,
                     workers |-> 1, allow |-> FALSE]}
AllQueries == {[path |-> Path("a", "index"), request |-> Request("x", "q1", mode, 3, <<>>),
                    endpoint |-> e, set |-> s, timed |-> t] :
                     mode \in {"dense", "lexical"}, e, s, t \in BOOLEAN}
AllBenchmarks == {[path |-> Path("a", "index"), request |-> Request("x", "q1", "fused", 2, <<>>),
                  warmups |-> 0, repeats |-> 3, ends |-> 1]}
AllComparisons == {[full |-> Path("a", "index"), reduced |-> Path("n", "index"),
                   request |-> Request("x", "q1", "fused", 2, <<>>)]}

Closed == [variants |-> << >>, foreign |-> {}, files |-> AllFiles, sets |-> {}, builds |-> {},
           batches |-> {}, searches |-> {}, similars |-> {}, queries |-> {}, lines |-> {},
           benchmarks |-> {}, comparisons |-> {}]

\* Catalogues that are built, received and searched while artifacts change;
\* batch runs while the requests change; commands on one index.
MCMenus ==
    "catalogues" :>
     [Closed EXCEPT !.variants = AllVariants, !.foreign = AllForeign, !.builds = AllBuilds,
                    !.files = {CHOOSE file \in AllFiles : TRUE},
                    !.searches = AllSearches, !.similars = AllSimilars] @@
    "batches" :>
     [Closed EXCEPT !.variants = Path("a", "index") :> {CHOOSE index \in OtherIndexes : index.id = "x1b"}, !.foreign = {Good, OfTest},
                    !.sets = AllSets, !.batches = AllBatches] @@
    "indexes" :>
     [Closed EXCEPT !.sets = AllSets, !.queries = AllQueries, !.lines = {Path("a", "index")},
                    !.benchmarks = AllBenchmarks, !.comparisons = AllComparisons]

Dot(a, b) == SumOf([k \in DOMAIN a |-> a[k] * b[k]])

MCSearchIndex(index, mode, query, vector, relations, topN, excluded) ==
    LET rows == index.rows
        eligible == {d \in DOMAIN rows \ excluded :
                       /\ relations = {} \/ relations \cap rows[d].relations # {}
                       /\ mode # "lexical" \/ query \in rows[d].words}
        Score(d) == (IF mode # "lexical" THEN Dot(rows[d].vector, vector) ELSE 0)
                    + (IF mode # "dense" /\ query \in rows[d].words THEN 2 ELSE 0)
        ordered == Ordered(eligible, LAMBDA a, b :
                     \/ Score(a) > Score(b)
                     \/ Score(a) = Score(b) /\ a < b)
    IN  SubSeq(ordered, 1, Smaller(topN, Len(ordered)))
=============================================================================
