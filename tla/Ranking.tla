------------------------------- MODULE Ranking -------------------------------
(***************************************************************************)
(* How an index ranks documents (rag-index/src/lib.rs): the tokenizer, the *)
(* two stored forms of the lexical index, BM25 over each of them, exact    *)
(* dot products, reciprocal rank fusion and the order of equal scores.     *)
(*                                                                         *)
(* Documents are numbered in the order of their ids.  A text is a sequence *)
(* of characters, each with its class and its lower-case form.  Scores are *)
(* fixed-point numbers; a ranking is a sequence of [id, score].            *)
(***************************************************************************)
EXTENDS Common

CONSTANTS
    Ln(_, _),       \* a thousand times the natural logarithm of a quotient
    FusionScale     \* fixed-point unit of the fused score

-----------------------------------------------------------------------------
(* tokenize: words of letters, digits and underscores, cut where an upper  *)
(* case letter follows a lower case one, in lower case.                    *)

CloseToken(state) ==
    IF state.token = <<>> THEN state
    ELSE [state EXCEPT !.tokens = Append(@, state.token), !.token = <<>>]

TokenStep(state, character) ==
    IF character.class = "other"
    THEN [CloseToken(state) EXCEPT !.lower = FALSE]
    ELSE LET cut == IF character.class = "upper" /\ state.lower THEN CloseToken(state) ELSE state
         IN  [cut EXCEPT !.token = Append(@, character.form),
                         !.lower = character.class = "lower"]

Tokenize(text) ==
    CloseToken(Loop(TokenStep, [tokens |-> <<>>, token |-> <<>>, lower |-> FALSE], text)).tokens

\* How often each term occurs in a text.
TermCounts(text) ==
    LET tokens == Tokenize(text)
    IN  [term \in Range(tokens) |-> Cardinality({k \in DOMAIN tokens : tokens[k] = term})]

LengthOf(counts) == MapThenSumSet(LAMBDA term : counts[term], DOMAIN counts)

\* In how many of the documents each term occurs.
DocumentFrequency(documents) ==
    LET counts == MapSeq(LAMBDA document : DOMAIN TermCounts(document.text), documents)
    IN  [term \in UNION Range(counts) |-> Cardinality({k \in DOMAIN counts : term \in counts[k]})]

-----------------------------------------------------------------------------
(* The lexical index as one JSON value, which keeps the terms of every     *)
(* document, and as SQLite tables with one row per term and document.      *)

JsonLexical(documents) ==
    LET lexical == [k \in DOMAIN documents |->
                        LET counts == TermCounts(documents[k].text)
                        IN  [id |-> documents[k].id, length |-> LengthOf(counts), terms |-> counts]]
    IN  [documents |-> lexical,
         document_count |-> Len(documents),
         total_length |-> SumOf(MapSeq(LAMBDA document : Len(Tokenize(document.text)), documents)),
         document_frequency |-> DocumentFrequency(documents)]

Postings(documents) ==
    UNION {LET counts == TermCounts(documents[k].text)
           IN  {[term |-> term, ordinal |-> documents[k].ordinal, frequency |-> counts[term]] :
                    term \in DOMAIN counts} : k \in DOMAIN documents}

SqliteLexical(documents, order) ==
    LET rows == [k \in DOMAIN documents |->
                    [ordinal |-> documents[k].ordinal, id |-> documents[k].id,
                     text |-> documents[k].text,
                     length |-> LengthOf(TermCounts(documents[k].text))]]
    IN  [documents |-> rows,
         postings |-> Postings(documents),
         term_stats |-> DocumentFrequency(documents),
         metadata |-> [document_count |-> Len(documents), order |-> order,
                       total_length |-> SumOf(MapSeq(LAMBDA row : row.length, rows))]]

-----------------------------------------------------------------------------
(* A document is eligible when no filter was given or the filter names it. *)

AllEligible == [all |-> TRUE, ids |-> {}]

OnlyEligible(ids) == [all |-> FALSE, ids |-> ids]

Admits(eligible, id) == eligible.all \/ id \in eligible.ids

\* Higher scores first; equal scores in the order of their ids.
Before(left, right) ==
    left.score > right.score \/ (left.score = right.score /\ left.id < right.id)

SortScores(scores) ==
    Ordered(scores, Before)

IdfOf(count, frequency) ==
    Ln((2 * (count - frequency) + 1) + (2 * frequency + 1), 2 * frequency + 1)

\* idf * 2.2 tf / (tf + 1.2 (0.25 + 0.75 length / average)); the average
\* length is total / count, and at least 1.
TermScore(idf, tf, length, total, count) ==
    LET average == IF total >= count THEN total ELSE 1
        scale == IF total >= count THEN count ELSE 1
    IN  (idf * 22 * tf * average * 10)
            \div (10 * tf * average + 3 * average + 9 * length * scale)

\* Every eligible document is scored; those that match nothing are dropped.
JsonScores(lexical, query, eligible) ==
    LET terms == Range(Tokenize(query))
        ScoreIn(document) ==
            MapThenSumSet(LAMBDA term :
                TermScore(IdfOf(lexical.document_count, lexical.document_frequency[term]),
                          document.terms[term], document.length,
                          lexical.total_length, lexical.document_count),
                terms \intersect DOMAIN document.terms)
        scored == {[id |-> document.id, score |-> ScoreIn(document)] :
                      document \in {d \in Range(lexical.documents) : Admits(eligible, d.id)}}
    IN  SortScores({entry \in scored : entry.score > 0})

\* The postings of each query term add to the score of their documents.
SqliteScores(lexical, query, eligible) ==
    LET terms == Range(Tokenize(query)) \intersect DOMAIN lexical.term_stats
        count == lexical.metadata.document_count
        RowOf(posting) ==
            CHOOSE row \in Range(lexical.documents) : row.ordinal = posting.ordinal
        hits == {posting \in lexical.postings :
                    posting.term \in terms /\ Admits(eligible, RowOf(posting).id)}
        ScoreOf(id) ==
            MapThenSumSet(LAMBDA posting :
                TermScore(IdfOf(count, lexical.term_stats[posting.term]), posting.frequency,
                          RowOf(posting).length, lexical.metadata.total_length, count),
                {posting \in hits : RowOf(posting).id = id})
    IN  SortScores({[id |-> id, score |-> ScoreOf(id)] : id \in {RowOf(hit).id : hit \in hits}})

-----------------------------------------------------------------------------
(* Dense scores are dot products with the row at the document's ordinal.   *)

Dot(left, right) == SumOf([k \in 1..Smaller(Len(left), Len(right)) |-> left[k] * right[k]])

DenseScores(documents, rows, query, eligible, excluded) ==
    SortScores({[id |-> document.id, score |-> Dot(rows[document.ordinal + 1], query)] :
                   document \in {d \in Range(documents) :
                                    Admits(eligible, d.id) /\ d.id \notin excluded}})

\* 1 / (60 + rank), with ranks from 1, summed over the two rankings.
ReciprocalRankFusion(dense, lexical) ==
    LET ids == {entry.id : entry \in Range(dense) \union Range(lexical)}
        Share(ranking, id) ==
            SumOf([k \in DOMAIN ranking |->
                      IF ranking[k].id = id THEN FusionScale \div (60 + k) ELSE 0])
    IN  SortScores({[id |-> id, score |-> Share(dense, id) + Share(lexical, id)] : id \in ids})
=============================================================================
