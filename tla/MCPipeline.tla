----------------------------- MODULE MCPipeline -----------------------------
(***************************************************************************)
(* Two corpora over bodies of 128, 129 and 1025 tokens, so that a task can *)
(* be filled exactly and every document lies at the edge of a length       *)
(* bucket; two profiles of one size; runs whose tasks overlap, contain     *)
(* each other or take no measurable time.                                  *)
(***************************************************************************)
EXTENDS Pipeline

MCFullDims == 4096

MCTokens ==
    [file \in {"tok", "cut"} |->
        [input \in {"plain", "prefixed"} \X {"a", "b", "c", "empty"} |->
            (CASE input[2] = "a" -> 128 [] input[2] = "b" -> 129
               [] input[2] = "c" -> 1025 [] OTHER -> 0)]]

Row(id, body) == [id |-> id, body |-> body]

Occurs(relation, rows) == [relation |-> relation, rows |-> rows]

Corpus1 ==
    [id |-> "c1", snapshot |-> "s1",
     documents |-> <<<<Row(1, "a"), Row(2, "b")>>, <<Row(3, "c")>>>>,
     occurrences |-> <<Occurs(1, <<1, 2, 1>>), Occurs(2, <<3>>)>>,
     source_rows |-> 6, structured_rows |-> 1, excluded_rows |-> 1]

\* Its second document fills a task of 1154 tokens exactly.
Corpus2 ==
    [id |-> "c2", snapshot |-> "s1",
     documents |-> <<<<Row(1, "b")>>, <<Row(2, "c"), Row(3, "c"), Row(4, "c")>>>>,
     occurrences |-> <<Occurs(1, <<1, 2, 3, 4>>)>>,
     source_rows |-> 4, structured_rows |-> 0, excluded_rows |-> 0]

MCCorpora == {Corpus1, Corpus2}

\* Profile q is an embedding policy, which names its executable tokenizer.
Profile(name, model, executable) ==
    [name |-> name, executable |-> executable, model |-> model, tokenizer |-> "target", max_tokens |-> 2048,
     format |-> "plain", dims |-> MCFullDims, runtime |-> "cuda", parent |-> "none"]

Tokenizer(model) == [artifact |-> "tok", model |-> model, target |-> "target"]

Whole == [id |-> "tok", truncates |-> FALSE]

Truncating == [id |-> "tok", truncates |-> TRUE]

Limits(tokens, documents) == [tokens |-> tokens, documents |-> documents]

Request(corpus, profile, tokenizer, file, limits) ==
    [corpus |-> corpus, profile |-> profile, tokenizer |-> tokenizer, file |-> file,
     limits |-> limits]

MCRequests ==
    LET p == Profile("p", "m1", "none")
        q == Profile("q", "m2", "tok")
    IN  {Request(Corpus1, p, Tokenizer("m1"), Whole, Limits(1282, 3)),
         Request(Corpus1, q, Tokenizer("m2"), Whole, Limits(2000, 3)),
         Request(Corpus1, q, Tokenizer("m1"), Whole, Limits(1154, 2)),
         Request(Corpus2, p, Tokenizer("m1"), Whole, Limits(1154, 2)),
         Request(Corpus2, p, Tokenizer("m1"), Whole, Limits(257, 3)),
         Request(Corpus2, p, Tokenizer("m1"), Truncating, Limits(1154, 2))}

Symmetry == Permutations(Areas)

Interval(started, finished, elapsed) ==
    [started |-> started, finished |-> finished, elapsed |-> elapsed, requests |-> 1]

MCExecutions ==
    LET host == [worker_binary |-> "w"]
        sealed == [worker_binary |-> "w", accelerator |-> "a100"]
        run(version, provenance, observed, executions) ==
            [version |-> version, provenance |-> provenance, observed |-> observed,
             executions |-> executions]
    IN  {run(1, host, None,
             <<Interval(0, 6, 6000), Interval(2, 4, 2000), Interval(9, 11, 2000)>>)}
          \union {run(2, sealed, seen,
                      <<Interval(9, 9, 500), Interval(9, 9, 700), Interval(9, 9, 300)>>) :
                     seen \in {"a100", "t4"}}
=============================================================================
