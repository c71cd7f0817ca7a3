------------------------------ MODULE FastIndex ------------------------------
(***************************************************************************)
(* The file-backed index (rag-index/src/lib.rs): its assembly from one-    *)
(* pass streams in a staging directory, its publication by a rename, its   *)
(* validation when it is opened, and the queries an opened index answers.  *)
(*                                                                         *)
(* Several assemblies may aim at one output, any of them may be killed,    *)
(* and files of another index may be copied over those of a closed one.    *)
(* A digest is modelled by the content it is taken of.                     *)
(***************************************************************************)
EXTENDS Ranking

CONSTANTS
    Processes,       \* process ids an assembly may run under
    Inputs,          \* [source, profile, scope, provenance, test_only, documents,
                     \*  occurrences, shards]: what an assembly is given
    Writers,         \* the entry points an assembly may use
    Strays,          \* index directories whose files may be copied over this one's
    Queries,
    MaxTime,         \* largest storable time, i64::MAX in the code
    MaxTopN,         \* 100 in the code
    MaxEvidence,     \* MAX_RETURNED_OCCURRENCES_PER_HIT, 50 in the code
    MaxStarts        \* bound: assemblies started

\* What reading leaves of a list of Parquet files.
FilesRead(files) ==
    /\ files \in Seq(Range(files))
    /\ \A file \in Range(files) : file \in Seq(Range(file))

ASSUME FastIndexAssumption ==
    /\ MaxTime \in Nat \ {0} /\ MaxTopN \in Nat \ {0}
    /\ MaxEvidence \in Nat \ {0} /\ MaxStarts \in Nat
    /\ \A input \in Inputs : FilesRead(input.occurrences)

Absent == -1      \* an optional time that is not given

Nothing == [kind |-> "nothing"]

-----------------------------------------------------------------------------
(* The entry points differ in the lexical format, and in whether the index *)
(* is bound to the pipeline that made it; only those may be test-only.     *)

FormatOf(writer) ==
    IF writer \in {"scalable", "bound_scalable"} THEN "sqlite" ELSE "json"

WriterTakes(writer, input) ==
    IF writer \in {"bound", "bound_scalable"} THEN input.provenance = "sha256"
    ELSE input.provenance = "none" /\ ~ input.test_only

\* The rows of a list of Parquet files, one after the other.
RowStream(files) == Loop(LAMBDA rows, file : rows \o file, <<>>, files)

-----------------------------------------------------------------------------
(* Vectors arrive in embedding shards that must follow one another.        *)

VectorsFromEmbeddingShards(shards) ==
    LET Accept(seen, shard) ==
            IF /\ shard.count > 0
               /\ shard.first = seen.next
               /\ (seen.dims = 0 \/ shard.dims = seen.dims)
            THEN Ok([next |-> seen.next + shard.count, dims |-> shard.dims])
            ELSE Err("embedding vector shard order")
    IN  TryFold(Accept, [next |-> 0, dims |-> 0], shards)

\* The header of a shard file must agree with the shard it is read for.
ShardOpens(shard) ==
    /\ shard.file.count = shard.count
    /\ shard.file.dims = shard.dims
    /\ shard.file.order = shard.order
    /\ Len(shard.file.rows) = shard.count

VectorStream(shards) == Loop(LAMBDA rows, shard : rows \o shard.file.rows, <<>>, shards)

NormalizedRow(row, profile) ==
    /\ Len(row) = profile.dims
    /\ profile.normalization = "l2" => Dot(row, row) = profile.unit

WriteVectors(input, order) ==
    LET rows == VectorStream(input.shards)
    IN  IF /\ VectorsFromEmbeddingShards(input.shards).ok
           /\ \A shard \in Range(input.shards) : ShardOpens(shard)
           /\ \A k \in DOMAIN rows : NormalizedRow(rows[k], input.profile)
        THEN Ok([count |-> Len(rows), dims |-> input.profile.dims, order |-> order, rows |-> rows])
        ELSE Err("vectors")

-----------------------------------------------------------------------------
(* Documents come in strictly ascending order, each with its ordinal and   *)
(* the number of its occurrences.                                          *)

DocumentOrder(documents) == MapSeq(LAMBDA document : document.id, documents)

DocumentAccepted(documents, k) ==
    /\ documents[k].count > 0
    /\ documents[k].ordinal = k - 1
    /\ k > 1 => documents[k - 1].id < documents[k].id

WriteDocuments(documents) ==
    IF documents # <<>> /\ \A k \in DOMAIN documents : DocumentAccepted(documents, k)
        THEN Ok(documents) ELSE Err("document association")

\* Occurrences come in any order, all from the source the index is bound to.
OccurrenceAccepted(row, source) ==
    /\ row.snapshot = source.snapshot
    /\ row.mapping = source.mapping
    /\ row.time <= MaxTime

\* Occurrence ids and event ids are unique, every document has as many
\* occurrences as it announced, and no occurrence lacks its document.
LookupCloses(documents, rows) ==
    /\ NoRepeats(MapSeq(LAMBDA row : row.id, rows))
    /\ NoRepeats(MapSeq(LAMBDA row : row.event, rows))
    /\ \A document \in Range(documents) :
           document.count = Cardinality({k \in DOMAIN rows : rows[k].document = document.id})
    /\ \A row \in Range(rows) : \E document \in Range(documents) : row.document = document.id

WriteOccurrences(documents, rows, source) ==
    IF (\A row \in Range(rows) : OccurrenceAccepted(row, source)) /\ LookupCloses(documents, rows)
        THEN Ok([rows |-> Range(rows),
                 metadata |-> [rows |-> Len(rows), source |-> source]])
        ELSE Err("occurrences")

\* The SQLite form checks the ordinals of the stored documents once more.
WriteLexical(documents, format) ==
    IF format = "json" THEN JsonLexical(documents)
    ELSE SqliteLexical(documents, DocumentOrder(documents))

SchemaVersion(format, test_only) ==
    IF test_only THEN 4 ELSE IF format = "json" THEN 2 ELSE 3

\* The identity of a manifest covers every other field of it.
ManifestComponent(manifest) == [manifest EXCEPT !.component = "none"]

SealedManifest(manifest) == [manifest EXCEPT !.component = ManifestComponent(manifest)]

ManifestOf(input, format, documents, occurrences, lookup, vectors, lexical) ==
    SealedManifest(
        [version |-> SchemaVersion(format, input.test_only),
         component |-> "none",
         source |-> input.source,
         scope |-> input.scope,
         complete |-> input.scope = "full",
         documents |-> [rows |-> Len(documents), content |-> documents,
                        order |-> DocumentOrder(documents)],
         occurrences |-> [rows |-> Len(occurrences), content |-> occurrences],
         vectors |-> [count |-> vectors.count, dims |-> vectors.dims, order |-> vectors.order,
                      content |-> vectors],
         lexical |-> [documents |-> Len(documents), content |-> lexical, schema |-> format],
         lookup |-> [rows |-> Len(occurrences), content |-> lookup],
         profile |-> input.profile,
         provenance |-> input.provenance,
         test_only |-> input.test_only])

\* The files of an index, or the error that removes the staging directory.
Assemble(input, format) ==
    LET documents == WriteDocuments(RowStream(input.documents))
        occurrences == RowStream(input.occurrences)
        lookup == WriteOccurrences(documents.value, occurrences, input.source)
        vectors == WriteVectors(input, DocumentOrder(documents.value))
        lexical == WriteLexical(documents.value, format)
    IN  IF ~ documents.ok THEN documents
        ELSE IF ~ lookup.ok THEN lookup
        ELSE IF ~ vectors.ok THEN vectors
        ELSE IF vectors.value.count # Len(documents.value) THEN Err("document/vector count")
        ELSE Ok([manifest |-> ManifestOf(input, format, documents.value, occurrences,
                                         lookup.value, vectors.value, lexical),
                 documents |-> documents.value,
                 occurrences |-> occurrences,
                 vectors |-> vectors.value,
                 lexical |-> lexical,
                 lookup |-> lookup.value])

\* What an assembly can publish.  The index directories that files are
\* copied from were published once.
Publishable ==
    {result.value : result \in
        {r \in {Assemble(input, format) : input \in Inputs, format \in {"json", "sqlite"}} : r.ok}}

ASSUME StraysPublished == Strays \subseteq Publishable

-----------------------------------------------------------------------------
(* open: the manifest agrees with itself, and every file with it.          *)

VersionBound(manifest) ==
    /\ manifest.version \in {2, 3, 4}
    /\ (manifest.version = 4) = manifest.test_only
    /\ manifest.version = 2 => manifest.lexical.schema = "json"
    /\ manifest.version = 3 => manifest.lexical.schema = "sqlite"

ManifestBound(manifest) ==
    /\ manifest.complete = (manifest.scope = "full")
    /\ manifest.vectors.count = manifest.documents.rows
    /\ manifest.vectors.dims = manifest.profile.dims
    /\ manifest.lexical.documents = manifest.documents.rows
    /\ manifest.lookup.rows = manifest.occurrences.rows
    /\ manifest.component = ManifestComponent(manifest)

VectorFileBound(vectors, summary) ==
    /\ vectors.count = summary.count
    /\ vectors.dims = summary.dims
    /\ vectors.order = summary.order
    /\ Len(vectors.rows) = summary.count

LookupBound(lookup, manifest) ==
    /\ lookup.metadata = [rows |-> manifest.occurrences.rows, source |-> manifest.source]
    /\ Cardinality(lookup.rows) = manifest.occurrences.rows

SqliteLexicalBound(lexical, manifest) ==
    LET ordinals == {row.ordinal : row \in Range(lexical.documents)}
    IN  /\ lexical.metadata.order = manifest.vectors.order
        /\ lexical.metadata.document_count = manifest.documents.rows
        /\ ordinals = 0..(manifest.documents.rows - 1)
        /\ \A posting \in lexical.postings : posting.ordinal \in ordinals
        /\ \A term \in DOMAIN lexical.term_stats :
               lexical.term_stats[term] \in 1..manifest.documents.rows

\* Mutant: the lookup is not compared with its digest.
ArtifactsBound_NoLookup(dir) ==
    /\ dir.documents = dir.manifest.documents.content
    /\ dir.occurrences = dir.manifest.occurrences.content
    /\ dir.vectors = dir.manifest.vectors.content
    /\ dir.lexical = dir.manifest.lexical.content

\* Every file is the one the manifest's digest was taken of.
ArtifactsBound(dir) ==
    /\ dir.documents = dir.manifest.documents.content
    /\ dir.occurrences = dir.manifest.occurrences.content
    /\ dir.vectors = dir.manifest.vectors.content
    /\ dir.lexical = dir.manifest.lexical.content
    /\ dir.lookup = dir.manifest.lookup.content

Opens(dir, allow_test_only) ==
    /\ dir.manifest.test_only => allow_test_only
    /\ VersionBound(dir.manifest)
    /\ ManifestBound(dir.manifest)
    /\ Len(dir.documents) = dir.manifest.documents.rows
    /\ Len(dir.occurrences) = dir.manifest.occurrences.rows
    /\ VectorFileBound(dir.vectors, dir.manifest.vectors)
    /\ ArtifactsBound(dir)
    /\ LookupBound(dir.lookup, dir.manifest)
    /\ dir.manifest.lexical.schema = "sqlite" => SqliteLexicalBound(dir.lexical, dir.manifest)

-----------------------------------------------------------------------------
(* Queries.  Filters apply to occurrences: a document is eligible when one *)
(* occurrence of it has a wanted relation and a time in the wanted range.  *)

NoFilters(filters) ==
    filters.relations = {} /\ filters.start = Absent /\ filters.end = Absent

OccurrenceMatches(row, filters) ==
    /\ filters.relations # {} => row.relation \in filters.relations
    /\ filters.start # Absent => row.time # Absent /\ row.time >= Smaller(filters.start, MaxTime)
    /\ filters.end # Absent => row.time # Absent /\ row.time < Smaller(filters.end, MaxTime)

\* Mutant: each filter satisfied by some occurrence of the document.
ReadEligibleDocumentIds_PerDocument(lookup, filters) ==
    LET Having(part) == {row.document : row \in {r \in lookup.rows : OccurrenceMatches(r, part)}}
    IN  Having([filters EXCEPT !.relations = {}])
            \intersect Having([filters EXCEPT !.start = Absent, !.end = Absent])

ReadEligibleDocumentIds(lookup, filters) ==
    {row.document : row \in {r \in lookup.rows : OccurrenceMatches(r, filters)}}

Eligible(lookup, filters) ==
    IF NoFilters(filters) THEN AllEligible
    ELSE OnlyEligible(ReadEligibleDocumentIds(lookup, filters))

\* The matching occurrences of a document in the order of their ids, all of
\* them counted and the first of them returned.
ReadMatchingOccurrences(lookup, id, filters) ==
    LET rows == Ordered({row \in lookup.rows : row.document = id /\ OccurrenceMatches(row, filters)},
                        LAMBDA left, right : left.id < right.id)
    IN  [eligible |-> Len(rows), rows |-> SubSeq(rows, 1, Smaller(Len(rows), MaxEvidence))]

\* The ordered documents, read once and kept.
DocumentsBound(dir) ==
    /\ DocumentOrder(dir.documents) = dir.manifest.vectors.order
    /\ dir.manifest.documents.order = dir.manifest.vectors.order
    /\ \A k \in DOMAIN dir.documents : dir.documents[k].ordinal = k - 1

LexicalAssociated(dir) ==
    /\ dir.lexical.document_count = Len(dir.documents)
    /\ NoRepeats(DocumentOrder(dir.lexical.documents))
    /\ Range(DocumentOrder(dir.lexical.documents)) = Range(DocumentOrder(dir.documents))

LexicalScores(dir, text, eligible) ==
    IF dir.manifest.lexical.schema = "sqlite" THEN SqliteScores(dir.lexical, text, eligible)
    ELSE JsonScores(dir.lexical, text, eligible)

FiltersValid(filters) ==
    (filters.start # Absent /\ filters.end # Absent) => filters.start < filters.end

Refused == [kind |-> "refused"]

\* A ranking cut to top_n, each hit with its scores and its evidence.
HitsOf(dir, ranking, dense, lexical, filters, top_n) ==
    LET ScoreIn(scores, id) == {entry.score : entry \in {e \in Range(scores) : e.id = id}}
    IN  [k \in 1..Smaller(top_n, Len(ranking)) |->
            LET id == ranking[k].id
                matched == ReadMatchingOccurrences(dir.lookup, id, filters)
            IN  [rank |-> k, id |-> id, score |-> ranking[k].score,
                 dense |-> ScoreIn(dense, id), lexical |-> ScoreIn(lexical, id),
                 eligible |-> matched.eligible,
                 exhausted |-> matched.eligible > 0 /\ Len(matched.rows) = matched.eligible,
                 occurrences |-> matched.rows]]

SearchInternal(dir, mode, text, vector, filters, top_n, excluded) ==
    LET eligible == Eligible(dir.lookup, filters)
        dense == IF mode = "lexical" THEN <<>>
                 ELSE DenseScores(dir.documents, dir.vectors.rows, vector, eligible, excluded)
        lexical == IF mode = "dense" THEN <<>> ELSE LexicalScores(dir, text, eligible)
        ranking == CASE mode = "dense" -> dense
                     [] mode = "lexical" -> lexical
                     [] mode = "fused" -> ReciprocalRankFusion(dense, lexical)
    IN  IF /\ top_n \in 1..MaxTopN
           /\ FiltersValid(filters)
           /\ mode # "lexical" => NormalizedRow(vector, dir.manifest.profile)
           /\ (mode # "lexical" \/ dir.manifest.lexical.schema = "json") => DocumentsBound(dir)
           /\ (mode # "dense" /\ dir.manifest.lexical.schema = "json") => LexicalAssociated(dir)
        THEN [kind |-> "hits", hits |-> HitsOf(dir, ranking, dense, lexical, filters, top_n)]
        ELSE Refused

\* search: the caller's own vector, or none.
Search(dir, query) ==
    SearchInternal(dir, query.mode, query.text, query.vector, query.filters, query.top_n, {})

\* search_dense_with_vector, search_fused_with_vector: a vector that another
\* index of the same profile may have validated.
SearchWithBoundVector(dir, query) ==
    IF query.mode \in {"dense", "fused"} /\ query.profile = dir.manifest.profile
        THEN Search(dir, query) ELSE Refused

\* document_vector: by the SQLite table or by the ordered documents.
DocumentOrdinal(dir, id) ==
    LET rows == IF dir.manifest.lexical.schema = "sqlite" THEN dir.lexical.documents
                ELSE dir.documents
    IN  {row.ordinal : row \in {r \in Range(rows) : r.id = id}}

StoredVector(dir, ordinal) == dir.vectors.rows[ordinal + 1]

\* similar: the stored vector of a document as the query.
Similar(dir, query) ==
    LET ordinals == DocumentOrdinal(dir, query.seed)
    IN  IF ordinals = {} THEN [kind |-> "no_seed"]
        ELSE SearchInternal(dir, "dense", <<>>,
                            StoredVector(dir, CHOOSE ordinal \in ordinals : TRUE),
                            query.filters, query.top_n,
                            IF query.exclude_seed THEN {query.seed} ELSE {})

Answer(dir, query) ==
    CASE query.kind = "search" -> Search(dir, query)
      [] query.kind = "bound" -> SearchWithBoundVector(dir, query)
      [] query.kind = "similar" -> Similar(dir, query)

-----------------------------------------------------------------------------
VARIABLES
    index,       \* the output path: Nothing, or [origin, dir] with its files
    job,         \* the assembly of each process
    staging,     \* processes whose staging directory exists
    handle,      \* "closed", "open" or "diagnostic" (test-only allowed)
    reply,       \* the last query and its answer
    starts,      \* assemblies started
    copied       \* files copied over the index by hand

vars == <<index, job, staging, handle, reply, starts, copied>>

Init ==
    /\ index = Nothing
    /\ job = [p \in Processes |-> Nothing]
    /\ staging = {}
    /\ handle = "closed"
    /\ reply = Nothing
    /\ starts = 0
    /\ copied = FALSE

\* An assembly starts only where neither its output nor its staging directory
\* exists; otherwise it fails at once.
Begin(p, input, writer) ==
    /\ job[p] = Nothing
    /\ WriterTakes(writer, input)
    /\ starts < MaxStarts
    /\ index = Nothing
    /\ p \notin staging
    /\ starts' = starts + 1
    /\ staging' = staging \union {p}
    /\ job' = [job EXCEPT ![p] = [kind |-> "staged", input |-> input, format |-> FormatOf(writer)]]
    /\ UNCHANGED <<index, handle, reply, copied>>

\* Any error removes the staging directory.
FailAssembly(p) ==
    /\ staging' = staging \ {p}
    /\ job' = [job EXCEPT ![p] = Nothing]
    /\ UNCHANGED <<index, handle, reply, starts, copied>>

Build(p) ==
    /\ job[p].kind = "staged"
    /\ IF Assemble(job[p].input, job[p].format).ok
       THEN /\ job' = [job EXCEPT ![p].kind = "built"]
            /\ UNCHANGED <<index, staging, handle, reply, starts, copied>>
       ELSE FailAssembly(p)

\* Mutant: the rename replaces what is there.
RenameAllowed_Replace ==
    TRUE

\* rename(2) does not replace a directory that has files in it.
RenameAllowed ==
    index = Nothing

Publish(p) ==
    /\ job[p].kind = "built"
    /\ IF RenameAllowed
       THEN /\ index' = [kind |-> "index",
                         origin |-> [input |-> job[p].input, format |-> job[p].format],
                         dir |-> Assemble(job[p].input, job[p].format).value]
            /\ staging' = staging \ {p}
            /\ job' = [job EXCEPT ![p] = Nothing]
            /\ UNCHANGED <<handle, reply, starts, copied>>
       ELSE FailAssembly(p)

\* A killed assembly leaves its staging directory behind.
Kill(p) ==
    /\ job[p] # Nothing
    /\ job' = [job EXCEPT ![p] = Nothing]
    /\ UNCHANGED <<index, staging, handle, reply, starts, copied>>

\* A file of another index is copied over this one's while nobody has it open.
CopyOver(file, stray) ==
    /\ index # Nothing
    /\ handle = "closed"
    /\ ~ copied
    /\ stray[file] # index.dir[file]
    /\ index' = [index EXCEPT !.dir[file] = stray[file]]
    /\ copied' = TRUE
    /\ UNCHANGED <<job, staging, handle, reply, starts>>

Open(allow_test_only) ==
    /\ handle = "closed"
    /\ index # Nothing
    /\ Opens(index.dir, allow_test_only)
    /\ handle' = IF allow_test_only THEN "diagnostic" ELSE "open"
    /\ UNCHANGED <<index, job, staging, reply, starts, copied>>

Query(query) ==
    /\ handle # "closed"
    /\ reply = Nothing
    /\ reply' = [kind |-> "reply", query |-> query, answer |-> Answer(index.dir, query)]
    /\ UNCHANGED <<index, job, staging, handle, starts, copied>>

Close ==
    /\ handle # "closed"
    /\ handle' = "closed"
    /\ reply' = Nothing
    /\ UNCHANGED <<index, job, staging, starts, copied>>

Next ==
    \/ \E p \in Processes, input \in Inputs, writer \in Writers : Begin(p, input, writer)
    \/ \E p \in Processes : Build(p) \/ Publish(p) \/ Kill(p)
    \/ \E stray \in Strays : \E file \in DOMAIN stray : CopyOver(file, stray)
    \/ \E allow_test_only \in BOOLEAN : Open(allow_test_only)
    \/ \E query \in Queries : Query(query)
    \/ Close

Spec == Init /\ [][Next]_vars

-----------------------------------------------------------------------------
(* What a query means, said of the streams the index was assembled from.   *)

Input == index.origin.input

InputDocuments == RowStream(Input.documents)

InputOccurrences == Range(RowStream(Input.occurrences))

\* The occurrences of a document that satisfy the filters.
Matching(id, filters) ==
    {row \in InputOccurrences :
        /\ row.document = id
        /\ filters.relations = {} \/ row.relation \in filters.relations
        /\ filters.start = Absent \/ row.time >= filters.start
        /\ filters.end = Absent \/ row.time \in 0..(filters.end - 1)}

Candidates(query) ==
    {document.id : document \in Range(InputDocuments)}
        \ (IF query.kind = "similar" /\ query.exclude_seed THEN {query.seed} ELSE {})

\* The vector of a document is the row at its position in the stream.
VectorOf(id) ==
    VectorStream(Input.shards)[CHOOSE k \in DOMAIN InputDocuments : InputDocuments[k].id = id]

DenseValue(query, id) ==
    Dot(VectorOf(id), IF query.kind = "similar" THEN VectorOf(query.seed) ELSE query.vector)

LexicalValue(query, id) ==
    LET count == Len(InputDocuments)
        TokensOf(document) == Tokenize(document.text)
        wanted == Range(Tokenize(query.text))
        own == TokensOf(CHOOSE document \in Range(InputDocuments) : document.id = id)
        total == SumOf(MapSeq(LAMBDA document : Len(TokensOf(document)), InputDocuments))
        Holding(term) ==
            Cardinality({k \in 1..count : term \in Range(TokensOf(InputDocuments[k]))})
    IN  MapThenSumSet(LAMBDA term :
            TermScore(IdfOf(count, Holding(term)),
                      Cardinality({k \in DOMAIN own : own[k] = term}), Len(own), total, count),
            wanted \intersect Range(own))

\* One more than the number of documents that rank before this one.
RankAmong(ids, Value(_), id) ==
    1 + Cardinality({other \in ids :
            Value(other) > Value(id) \/ (Value(other) = Value(id) /\ other < id)})

\* The documents a query ranks, and their ranks.
Ranked(query) ==
    LET eligible == {id \in Candidates(query) : Matching(id, query.filters) # {}}
        Dense(id) == DenseValue(query, id)
        Lexical(id) == LexicalValue(query, id)
        matched == {id \in eligible : Lexical(id) > 0}
        Fused(id) ==
            (FusionScale \div (60 + RankAmong(eligible, Dense, id)))
                + (IF id \in matched
                       THEN FusionScale \div (60 + RankAmong(matched, Lexical, id)) ELSE 0)
    IN  IF query.kind = "similar" \/ query.mode = "dense"
            THEN [id \in eligible |-> RankAmong(eligible, Dense, id)]
        ELSE IF query.mode = "lexical"
            THEN [id \in matched |-> RankAmong(matched, Lexical, id)]
        ELSE [id \in eligible |-> RankAmong(eligible, Fused, id)]

WellPosed(query) ==
    /\ query.top_n \in 1..MaxTopN
    /\ query.filters.start = Absent \/ query.filters.end = Absent
           \/ query.filters.start < query.filters.end
    /\ query.kind = "bound" => query.profile = Input.profile /\ query.mode # "lexical"
    /\ query.kind = "similar" \/ query.mode = "lexical"
           \/ (Len(query.vector) = Input.profile.dims
                   /\ (Input.profile.normalization = "l2" =>
                           Dot(query.vector, query.vector) = Input.profile.unit))

\* A query is answered exactly: the hits are the first top_n documents of the
\* ranking among those with an occurrence that satisfies all filters at once
\* (search_internal, similar; relation_filter_is_occurrence_first), each with
\* the number of its matching occurrences, the first of them, and whether
\* these are all; in both lexical formats, and with the seed left out before
\* the cut.  Only ill-posed queries are refused.
HitsExact ==
    reply # Nothing =>
        LET query == reply.query
            ranks == Ranked(query)
            hits == reply.answer.hits
            Evidence(id) == Matching(id, query.filters)
        IN  IF query.kind = "similar" /\ query.seed \notin {d.id : d \in Range(InputDocuments)}
                THEN reply.answer.kind = "no_seed"
            ELSE IF ~ WellPosed(query) THEN reply.answer = Refused
            ELSE /\ reply.answer.kind = "hits"
                 /\ Len(hits) = Smaller(query.top_n, Cardinality(DOMAIN ranks))
                 /\ \A k \in DOMAIN hits :
                        LET evidence == Evidence(hits[k].id)
                        IN  /\ hits[k].id \in DOMAIN ranks
                            /\ ranks[hits[k].id] = k
                            /\ hits[k].eligible = Cardinality(evidence)
                            /\ hits[k].exhausted = (Range(hits[k].occurrences) = evidence)
                            /\ Len(hits[k].occurrences)
                                   = Smaller(Cardinality(evidence), MaxEvidence)
                            /\ \A row \in Range(hits[k].occurrences) :
                                   /\ row \in evidence
                                   /\ {o \in evidence : o.id < row.id}
                                          \subseteq Range(hits[k].occurrences)

\* An index that opens is whole: its files are those one assembly published
\* together from streams that belong together, whatever was copied over them,
\* and diagnostic vectors are never opened without asking for them
\* (open_internal; open_verifies_content_bound_artifacts_before_use).
OpenedAsPublished ==
    handle # "closed" =>
        /\ index.dir \in Publishable
        /\ \A document \in Range(InputDocuments) :
               document.count = Cardinality({row \in InputOccurrences :
                                                row.document = document.id})
        /\ Len(VectorStream(Input.shards)) = Len(InputDocuments)
        /\ index.dir.manifest.test_only => handle = "diagnostic"

\* Whatever other assemblies of the same output do, a published index stays
\* as it is: only a hand that copies a file over it changes it
\* (write_fast_index_from_streams_with_format).
PublishedStays ==
    [][index # Nothing => index' = index \/ copied' # copied]_vars

-----------------------------------------------------------------------------
(* The inductive invariant behind OpenedAsPublished.                       *)

Formats == {"json", "sqlite"}

\* What is built is an assembly that succeeded.
JobsSound ==
    /\ job \in [Processes -> {Nothing} \union
                   [kind : {"staged", "built"}, input : Inputs, format : Formats]]
    /\ \A p \in Processes :
           job[p].kind = "built" => Assemble(job[p].input, job[p].format).ok

\* The index was assembled from its origin; at most one file was copied over it.
FromOrigin ==
    index # Nothing =>
        LET assembled == Assemble(index.origin.input, index.origin.format)
        IN  /\ index.origin.input \in Inputs /\ index.origin.format \in Formats
            /\ assembled.ok
            /\ index = [kind |-> "index", origin |-> index.origin, dir |-> index.dir]
            /\ \/ index.dir = assembled.value
               \/ /\ copied
                  /\ \E stray \in Strays : \E file \in DOMAIN stray :
                         index.dir = [assembled.value EXCEPT ![file] = stray[file]]

\* An index in use was validated as it is.
Validated ==
    /\ handle \in {"closed", "open", "diagnostic"}
    /\ handle # "closed" => index # Nothing /\ Opens(index.dir, handle = "diagnostic")

IndInv == JobsSound /\ FromOrigin /\ Validated
=============================================================================
