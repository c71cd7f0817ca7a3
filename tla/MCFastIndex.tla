---------------------------- MODULE MCFastIndex ----------------------------
(***************************************************************************)
(* Three documents whose dense and lexical rankings differ and tie, with   *)
(* occurrences of two relations at times on both sides of each bound, one  *)
(* document with more occurrences than a hit returns, and streams that     *)
(* break one rule of the assembly each.                                    *)
(***************************************************************************)
EXTENDS FastIndex

\* 1000 ln(a / b) for the quotients that three documents can produce.
MCLn(a, b) ==
    CASE a = 8 /\ b = 3 -> 981
      [] a = 8 /\ b = 5 -> 470
      [] a = 8 /\ b = 7 -> 134
      [] a = 4 /\ b = 3 -> 288

Char(class, form) == [class |-> class, form |-> form]
a == Char("lower", "a")
A == Char("upper", "a")
b == Char("lower", "b")
B == Char("upper", "b")
Space == Char("other", " ")

MCProfile == [name |-> "p", dims |-> 2, normalization |-> "l2", unit |-> 25]
OtherProfile == [MCProfile EXCEPT !.name = "q"]

Source == [snapshot |-> "s", mapping |-> "m"]

Document(id, ordinal, text, count) ==
    [id |-> id, ordinal |-> ordinal, text |-> text, count |-> count]

Row(id, document, time, relation) ==
    [id |-> id, document |-> document, time |-> time, relation |-> relation, event |-> 10 + id,
     snapshot |-> "s", mapping |-> "m"]

Shard(first, rows) ==
    [first |-> first, count |-> Len(rows), dims |-> 2, order |-> first,
     file |-> [count |-> Len(rows), dims |-> 2, order |-> first, rows |-> rows]]

Documents3 == <<Document(1, 0, <<a, b, B, Space, b>>, 3),
                Document(2, 1, <<A, b, A, Space, a>>, 1),
                Document(3, 2, <<a, b, Space, A, B>>, 2)>>

\* Document 1 has relation 1 early and relation 2 late, document 3 the reverse.
Occurrences3 == <<Row(4, 3, 2, 2), Row(2, 1, 5, 2), Row(1, 1, 2, 1), Row(3, 1, 3, 1),
                  Row(5, 2, Absent, 1), Row(6, 3, 5, 1)>>

Shards3 == <<Shard(0, <<<<3, 4>>, <<4, 3>>>>), Shard(2, <<<<3, 4>>>>)>>

Base ==
    [source |-> Source, profile |-> MCProfile, scope |-> "full", provenance |-> "none",
     test_only |-> FALSE, documents |-> <<SubSeq(Documents3, 1, 2), <<Documents3[3]>>>>,
     occurrences |-> <<SubSeq(Occurrences3, 1, 4), SubSeq(Occurrences3, 5, 6)>>,
     shards |-> Shards3]

Single ==
    [Base EXCEPT !.documents = <<<<Document(2, 0, <<a>>, 1)>>>>,
                 !.occurrences = <<<<Row(5, 2, 4, 2)>>>>,
                 !.shards = <<Shard(0, <<<<5, 0>>>>)>>]

Diagnostic == [Base EXCEPT !.test_only = TRUE, !.scope = "partial", !.provenance = "sha256"]

\* One event at another time.
Later == [Diagnostic EXCEPT !.occurrences[1][1].time = 3]

\* Each breaks one rule.
Broken ==
    {[Base EXCEPT !.documents = <<@[2], @[1]>>],
     [Base EXCEPT !.documents = <<>>, !.occurrences = <<>>, !.shards = <<>>],
     [Base EXCEPT !.documents[1][1].count = 2],
     [Base EXCEPT !.documents[1][2].ordinal = 2],
     [Base EXCEPT !.occurrences = Tail(@)],
     [Base EXCEPT !.occurrences[1][1].document = 4],
     [Base EXCEPT !.occurrences[1][1].id = 6],
     [Base EXCEPT !.occurrences[1][1].event = 16],
     [Base EXCEPT !.occurrences[1][1].snapshot = "t"],
     [Base EXCEPT !.occurrences[1][1].time = MaxTime + 1],
     [Base EXCEPT !.shards = <<Shards3[1]>>],
     [Base EXCEPT !.shards = <<Shards3[2], Shards3[1]>>],
     [Base EXCEPT !.shards[2].file.order = 0],
     [Base EXCEPT !.shards[2].file.rows = <<<<4, 4>>>>]}

MCInputs == {Base, Later, Single, Diagnostic} \union Broken

MCStrays == {Assemble(Later, "json").value, Assemble(Diagnostic, "json").value}

Filter(relations, start, end) == [relations |-> relations, start |-> start, end |-> end]

MCFilters ==
    {Filter({}, Absent, Absent), Filter({1}, Absent, Absent), Filter({1}, 4, Absent),
     Filter({2}, Absent, 5), Filter({}, 2, 5), Filter({1, 2}, 5, MaxTime + 3),
     Filter({3}, Absent, Absent), Filter({}, 5, 5), Filter({}, MaxTime + 2, Absent)}

SearchQuery(mode, text, vector, filters, top_n) ==
    [kind |-> "search", mode |-> mode, text |-> text, vector |-> vector, filters |-> filters,
     top_n |-> top_n]

BoundQuery(mode, text, profile) ==
    [kind |-> "bound", mode |-> mode, text |-> text, vector |-> <<3, 4>>, profile |-> profile,
     filters |-> Filter({}, Absent, Absent), top_n |-> 2]

SimilarQuery(seed, filters, exclude_seed, top_n) ==
    [kind |-> "similar", seed |-> seed, filters |-> filters, exclude_seed |-> exclude_seed,
     top_n |-> top_n]

MCQueries ==
    {SearchQuery(mode, text, <<3, 4>>, filters, 2) :
        mode \in {"dense", "lexical", "fused"}, text \in {<<a, b>>, <<b, Space, A, b>>},
        filters \in MCFilters}
      \union {SearchQuery("fused", <<A, Space, b>>, vector, Filter({}, Absent, Absent), top_n) :
                 vector \in {<<4, 3>>, <<4, 4>>, <<>>}, top_n \in {0, 1, 3, 4}}
      \union {BoundQuery(mode, <<b>>, profile) :
                 mode \in {"dense", "lexical", "fused"}, profile \in {MCProfile, OtherProfile}}
      \union {SimilarQuery(seed, filters, exclude_seed, 1) :
                 seed \in {1, 4}, filters \in {Filter({}, Absent, Absent), Filter({2}, Absent, 5)},
                 exclude_seed \in BOOLEAN}

Symmetry == Permutations(Processes)
=============================================================================
