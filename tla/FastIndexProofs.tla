-------------------------- MODULE FastIndexProofs --------------------------
(***************************************************************************)
(* Proofs about FastIndex, for every set of inputs and queries and every   *)
(* number of assemblies: an index that opens is one that was published.    *)
(* The inductive invariant IndInv is stated at the end of FastIndex.       *)
(***************************************************************************)
EXTENDS FastIndex, FiniteSetTheorems, TLAPS

-----------------------------------------------------------------------------
(* Streams.                                                                *)

(* A set of numbers has a least one.                                       *)
LEMMA LeastNumber ==
    ASSUME NEW T, T \subseteq Nat, T # {}
    PROVE  \E x \in T : \A y \in T : x <= y
<1>1. PICK x \in T : \A y \in T : << y, x >> \notin OpToRel(<, Nat)
  BY NatLessThanWellFounded, WFMin
<1>2. ASSUME NEW y \in T
      PROVE  x <= y
  <2>1. x \in Nat /\ y \in Nat
    OBVIOUS
  <2>2. ~ (y < x)
    BY <1>1, <2>1 DEF OpToRel
  <2>3. QED
    BY <2>1, <2>2
<1>3. QED
  BY <1>2

\* The files up to each of them, one after the other.
Joined(h, files, n) ==
    h = [k \in 0 .. n |-> IF k = 0 THEN <<>> ELSE h[k - 1] \o files[k]]

(* Files can be joined.                                                    *)
LEMMA JoinedExists ==
    ASSUME NEW T, NEW files \in Seq(Seq(T)), NEW n \in 0 .. Len(files)
    PROVE  \E h \in [0 .. n -> Seq(T)] : Joined(h, files, n)
<1> DEFINE Bad == {m \in 0 .. n : ~ \E h \in [0 .. m -> Seq(T)] : Joined(h, files, m)}
<1>1. Len(files) \in Nat /\ \A k \in 1 .. Len(files) : files[k] \in Seq(T)
  OBVIOUS
<1>2. SUFFICES ASSUME n \in Bad PROVE FALSE
  BY <1>1
<1>3. Bad \subseteq Nat /\ \A m \in Bad : m \in 0 .. n
  BY <1>1
<1>4. \A m \in 0 .. n : m \in Bad \/ \E h \in [0 .. m -> Seq(T)] : Joined(h, files, m)
  OBVIOUS
<1>5. \A m \in Bad : ~ \E h \in [0 .. m -> Seq(T)] : Joined(h, files, m)
  OBVIOUS
<1> HIDE DEF Bad
<1>6. PICK m \in Bad : \A j \in Bad : m <= j
  BY <1>2, <1>3, LeastNumber
<1>7. CASE m = 0
  <2> DEFINE h == [k \in 0 .. 0 |-> IF k = 0 THEN <<>> ELSE <<>>]
  <2>1. h \in [0 .. m -> Seq(T)]
    BY <1>7
  <2>2. Joined(h, files, m)
    BY <1>7 DEF Joined
  <2>3. QED
    BY <1>5, <2>1, <2>2
<1>8. CASE m # 0
  <2>1. m \in 1 .. n /\ m - 1 \in 0 .. n /\ m \in 1 .. Len(files) /\ ~ m <= m - 1
    BY <1>1, <1>3, <1>8
  <2>2. PICK g \in [0 .. m - 1 -> Seq(T)] : Joined(g, files, m - 1)
    BY <1>4, <1>6, <2>1
  <2>3. \A k \in 0 .. m - 1 : g[k] = IF k = 0 THEN <<>> ELSE g[k - 1] \o files[k]
    BY <2>2 DEF Joined
  <2> DEFINE h == [k \in 0 .. m |-> IF k = m THEN g[m - 1] \o files[m] ELSE g[k]]
  <2>4. \A k \in 0 .. m : k = m \/ k \in 0 .. m - 1
    BY <2>1
  <2>5. g[m - 1] \in Seq(T) /\ files[m] \in Seq(T)
    BY <1>1, <2>1
  <2>6. h \in [0 .. m -> Seq(T)]
    BY <2>4, <2>5
  <2>7. ASSUME NEW k \in 0 .. m
        PROVE  h[k] = IF k = 0 THEN <<>> ELSE h[k - 1] \o files[k]
    <3>1. CASE k = m
      <4>1. m \in 0 .. m /\ m - 1 \in 0 .. m /\ m - 1 # m
        BY <2>1
      <4>2. h[m] = g[m - 1] \o files[m] /\ h[m - 1] = g[m - 1]
        BY <4>1
      <4>3. QED
        BY <1>8, <3>1, <4>2
    <3>2. CASE k # m
      <4>1. k \in 0 .. m - 1 /\ (k = 0 \/ (k - 1 \in 0 .. m /\ k - 1 # m))
        BY <2>1, <3>2
      <4>2. h[k] = g[k] /\ (k = 0 \/ h[k - 1] = g[k - 1])
        BY <3>2, <4>1
      <4> HIDE DEF h
      <4>3. QED
        BY <2>3, <4>1, <4>2
    <3>3. QED
      BY <3>1, <3>2
  <2>8. h = [k \in 0 .. m |-> h[k]]
    BY <2>6
  <2>9. Joined(h, files, m)
    <3> HIDE DEF h
    <3>1. QED
      BY <2>6, <2>7 DEF Joined
  <2>10. QED
    BY <1>5, <2>6, <2>9
<1>9. QED
  BY <1>7, <1>8

(* The rows of files that were read are a sequence.                        *)
LEMMA StreamIsSequence ==
    ASSUME NEW files, FilesRead(files)
    PROVE  \E T : RowStream(files) \in Seq(T)
<1> DEFINE T == UNION {Range(file) : file \in Range(files)}
           n == Len(files)
           g == CHOOSE h : Joined(h, files, n)
<1>1. files \in Seq(Seq(T))
  <2>1. files \in Seq(Range(files)) /\ \A file \in Range(files) : file \in Seq(Range(file))
    BY DEF FilesRead
  <2>2. Len(files) \in Nat /\ files \in [1 .. Len(files) -> Range(files)]
    BY <2>1
  <2>3. \A file \in Range(files) : file \in Seq(T)
    <3>1. SUFFICES ASSUME NEW file \in Range(files) PROVE file \in Seq(T)
      OBVIOUS
    <3>2. file \in Seq(Range(file)) /\ Range(file) \subseteq T
      BY <2>1
    <3> HIDE DEF T
    <3>3. Len(file) \in Nat /\ file \in [1 .. Len(file) -> Range(file)]
      BY <3>2
    <3>4. QED
      BY <3>2, <3>3
  <2> HIDE DEF T
  <2>4. files \in [1 .. Len(files) -> Seq(T)]
    BY <2>2, <2>3
  <2>5. QED
    BY <2>2, <2>4
<1>2. RowStream(files) = g[n]
  BY DEF RowStream, Loop, Joined
<1> HIDE DEF T
<1>3. n \in 0 .. Len(files) /\ n \in Nat
  BY <1>1
<1>4. \E h : Joined(h, files, n)
  BY <1>1, <1>3, JoinedExists
<1>5. Joined(g, files, n)
  BY <1>4
<1> HIDE DEF g
<1>6. \A k \in 0 .. n : g[k] = IF k = 0 THEN <<>> ELSE g[k - 1] \o files[k]
  BY <1>5 DEF Joined
<1>7. \A k \in 1 .. n : files[k] \in Seq(T)
  BY <1>1
<1> DEFINE Bad == {k \in 0 .. n : g[k] \notin Seq(T)}
<1>8. Bad \subseteq Nat /\ \A k \in 0 .. n : k \in Bad \/ g[k] \in Seq(T)
  BY <1>3
<1>9. \A k \in Bad : k \in 0 .. n /\ g[k] \notin Seq(T)
  OBVIOUS
<1> HIDE DEF Bad, n
<1>10. Bad = {}
  <2>1. SUFFICES ASSUME Bad # {} PROVE FALSE
    OBVIOUS
  <2>2. PICK k \in Bad : \A j \in Bad : k <= j
    BY <1>8, <2>1, LeastNumber
  <2>3. k # 0
    <3>1. CASE k = 0
      <4>1. g[0] = <<>>
        BY <1>3, <1>6
      <4>2. g[0] \in Seq(T)
        BY <4>1
      <4>3. QED
        BY <1>9, <3>1, <4>2
    <3>2. QED
      BY <3>1
  <2>4. k \in 1 .. n /\ k - 1 \in 0 .. n /\ ~ k <= k - 1
    BY <1>3, <1>9, <2>3
  <2>5. g[k - 1] \in Seq(T) /\ files[k] \in Seq(T)
    BY <1>7, <1>8, <2>2, <2>4
  <2>6. g[k] = g[k - 1] \o files[k]
    BY <1>6, <1>9, <2>3
  <2>7. g[k - 1] \o files[k] \in Seq(T)
    BY <2>5
  <2>8. QED
    BY <1>9, <2>6, <2>7
<1>11. g[n] \in Seq(T)
  BY <1>3, <1>8, <1>10
<1>12. QED
  BY <1>2, <1>11

(* The members of a list without repetitions differ.                       *)
LEMMA NoRepeatsDiffer ==
    ASSUME NEW n \in Nat, NEW ids, ids = [k \in 1 .. n |-> ids[k]], NoRepeats(ids)
    PROVE  \A k, l \in 1 .. n : ids[k] = ids[l] => k = l
<1>1. IsFiniteSet(1 .. n) /\ Cardinality(1 .. n) = n
  <2>1. 1 \in Int /\ n \in Int
    OBVIOUS
  <2>2. Cardinality(1 .. n) = IF 1 > n THEN 0 ELSE n - 1 + 1
    BY <2>1, FS_Interval
  <2>3. IsFiniteSet(1 .. n)
    BY <2>1, FS_Interval
  <2>4. QED
    BY <2>2, <2>3
<1>2. DOMAIN ids = 1 .. n /\ Len(ids) = n
  OBVIOUS
<1>3. Cardinality(Range(ids)) = n
  BY <1>2 DEF NoRepeats
<1>4. ids \in Surjection(1 .. n, Range(ids))
  <2>1. ids \in [1 .. n -> Range(ids)]
    BY <1>2 DEF Range
  <2>2. \A x \in Range(ids) : \E k \in 1 .. n : ids[k] = x
    BY <1>2 DEF Range
  <2>3. QED
    BY <2>1, <2>2 DEF Surjection
<1>5. ids \in Injection(1 .. n, Range(ids))
  BY <1>1, <1>3, <1>4, FS_Surjection
<1>6. QED
  BY <1>5 DEF Injection, IsInjective

\* Where a document occurs in a list of rows, and the rows themselves.
PositionsOf(rows, id) == {k \in DOMAIN rows : rows[k].document = id}

RowsOf(rows, id) == {row \in Range(rows) : row.document = id}

(* Rows that differ are counted as often as they occur.                    *)
LEMMA RowsCounted ==
    ASSUME NEW rows, Len(rows) \in Nat, DOMAIN rows = 1 .. Len(rows), NEW d,
           \A k, l \in DOMAIN rows : rows[k].id = rows[l].id => k = l
    PROVE  Cardinality(PositionsOf(rows, d)) = Cardinality(RowsOf(rows, d))
<1> DEFINE n == Len(rows)
           At == {k \in DOMAIN rows : rows[k].document = d}
           Of == {row \in Range(rows) : row.document = d}
           pick == [k \in At |-> rows[k]]
<1>1. n \in Nat /\ DOMAIN rows = 1 .. n
  OBVIOUS
<1>2. IsFiniteSet(1 .. n)
  BY <1>1, FS_Interval
<1>3. \A k, l \in 1 .. n : rows[k] = rows[l] => k = l
  BY <1>1
<1>4. pick \in Injection(At, Of)
  <2>1. pick \in [At -> Of]
    BY <1>1 DEF Range
  <2>2. \A k, l \in At : pick[k] = pick[l] => k = l
    BY <1>1, <1>3
  <2>3. DOMAIN pick = At
    OBVIOUS
  <2> HIDE DEF pick, At, Of
  <2>4. QED
    BY <2>1, <2>2, <2>3 DEF Injection, IsInjective
<1>5. pick \in Surjection(At, Of)
  <2>1. pick \in [At -> Of]
    BY <1>1 DEF Range
  <2>2. \A row \in Of : \E k \in At : pick[k] = row
    BY <1>1 DEF Range
  <2> HIDE DEF pick, At, Of
  <2>3. QED
    BY <2>1, <2>2 DEF Surjection
<1>6. IsFiniteSet(At)
  <2>1. At \in SUBSET (1 .. n)
    BY <1>1
  <2> HIDE DEF At
  <2>2. QED
    BY <1>2, <2>1, FS_Subset
<1> HIDE DEF pick, At, Of
<1>7. IsFiniteSet(Of) /\ Cardinality(Of) = Cardinality(At)
  BY <1>4, <1>5, <1>6, FS_Surjection
<1>8. QED
  BY <1>7 DEF At, Of, PositionsOf, RowsOf

-----------------------------------------------------------------------------
(* What an assembly makes.                                                 *)

\* The files of an index, by name.
Directory(dir) ==
    dir = [manifest |-> dir.manifest, documents |-> dir.documents,
           occurrences |-> dir.occurrences, vectors |-> dir.vectors,
           lexical |-> dir.lexical, lookup |-> dir.lookup]

(* The manifest of an assembly holds the digests of its files; and the     *)
(* streams it was made of belong together.                                 *)
LEMMA AssemblyWhole ==
    ASSUME NEW input, NEW format, Assemble(input, format).ok
    PROVE  /\ Directory(Assemble(input, format).value)
           /\ ArtifactsBound(Assemble(input, format).value)
           /\ LookupCloses(RowStream(input.documents), RowStream(input.occurrences))
           /\ Len(VectorStream(input.shards)) = Len(RowStream(input.documents))
<1> DEFINE stream == RowStream(input.documents)
           documents == WriteDocuments(stream)
           occurrences == RowStream(input.occurrences)
           lookup == WriteOccurrences(documents.value, occurrences, input.source)
           vectors == WriteVectors(input, DocumentOrder(documents.value))
           lexical == WriteLexical(documents.value, format)
           manifest == ManifestOf(input, format, documents.value, occurrences,
                                  lookup.value, vectors.value, lexical)
           files == [manifest |-> manifest, documents |-> documents.value,
                     occurrences |-> occurrences, vectors |-> vectors.value,
                     lexical |-> lexical, lookup |-> lookup.value]
           whole == /\ documents.ok /\ lookup.ok /\ vectors.ok
                    /\ vectors.value.count = Len(documents.value)
<1>1. Assemble(input, format) =
        IF ~ documents.ok THEN documents
        ELSE IF ~ lookup.ok THEN lookup
        ELSE IF ~ vectors.ok THEN vectors
        ELSE IF vectors.value.count # Len(documents.value) THEN Err("document/vector count")
        ELSE Ok(files)
  BY DEF Assemble
<1>2. documents.ok => documents.value = stream
  BY DEF WriteDocuments, Ok, Err
<1>3. lookup.ok => LookupCloses(documents.value, occurrences)
  <2> DEFINE Good == (\A row \in Range(occurrences) : OccurrenceAccepted(row, input.source))
                     /\ LookupCloses(documents.value, occurrences)
  <2>1. lookup = IF Good
                 THEN Ok([rows |-> Range(occurrences),
                          metadata |-> [rows |-> Len(occurrences), source |-> input.source]])
                 ELSE Err("occurrences")
    BY DEF WriteOccurrences
  <2>2. Good => LookupCloses(documents.value, occurrences)
    OBVIOUS
  <2> HIDE DEF Good, lookup, documents, occurrences
  <2>3. QED
    BY <2>1, <2>2 DEF Ok, Err
<1>4. vectors.ok => vectors.value.count = Len(VectorStream(input.shards))
  <2> DEFINE rows == VectorStream(input.shards)
             order == DocumentOrder(documents.value)
             Good == /\ VectorsFromEmbeddingShards(input.shards).ok
                     /\ \A shard \in Range(input.shards) : ShardOpens(shard)
                     /\ \A k \in DOMAIN rows : NormalizedRow(rows[k], input.profile)
             value == [count |-> Len(rows), dims |-> input.profile.dims, order |-> order,
                       rows |-> rows]
  <2>1. vectors = IF Good THEN Ok(value) ELSE Err("vectors")
    BY DEF WriteVectors
  <2>2. value.count = Len(rows)
    OBVIOUS
  <2> HIDE DEF Good, vectors, documents, value
  <2>3. QED
    BY <2>1, <2>2 DEF Ok, Err
<1>5. /\ manifest.documents.content = documents.value
      /\ manifest.occurrences.content = occurrences
      /\ manifest.vectors.content = vectors.value
      /\ manifest.lexical.content = lexical
      /\ manifest.lookup.content = lookup.value
  <2> HIDE DEF documents, occurrences, vectors, lexical, lookup
  <2>1. QED
    BY DEF ManifestOf, SealedManifest
<1>6. Directory(files) /\ ArtifactsBound(files)
  <2> HIDE DEF manifest, documents, occurrences, vectors, lexical, lookup
  <2>1. QED
    BY <1>5 DEF Directory, ArtifactsBound
<1> HIDE DEF documents, lookup, vectors, lexical, files
<1>7. whole /\ Assemble(input, format).value = files
  <2> DEFINE made == Assemble(input, format)
  <2>1. made.ok
    OBVIOUS
  <2> HIDE DEF made
  <2>2. documents.ok
    <3>1. ~ documents.ok => made = documents
      BY <1>1 DEF made
    <3>2. QED
      BY <2>1, <3>1
  <2>3. lookup.ok
    <3>1. ~ lookup.ok => made = lookup
      BY <1>1, <2>2 DEF made
    <3>2. QED
      BY <2>1, <3>1
  <2>4. vectors.ok
    <3>1. ~ vectors.ok => made = vectors
      BY <1>1, <2>2, <2>3 DEF made
    <3>2. QED
      BY <2>1, <3>1
  <2>5. vectors.value.count = Len(documents.value)
    <3>1. vectors.value.count # Len(documents.value) => made = Err("document/vector count")
      BY <1>1, <2>2, <2>3, <2>4 DEF made
    <3>2. ~ Err("document/vector count").ok
      BY DEF Err
    <3>3. QED
      BY <2>1, <3>1, <3>2
  <2>6. made = Ok(files)
    BY <1>1, <2>2, <2>3, <2>4, <2>5 DEF made
  <2>7. QED
    BY <2>2, <2>3, <2>4, <2>5, <2>6 DEF Ok, made
<1>8. QED
  BY <1>2, <1>3, <1>4, <1>6, <1>7

(* Whatever is published is a whole directory.                             *)
LEMMA PublishableWhole ==
    ASSUME NEW dir \in Publishable
    PROVE  Directory(dir) /\ ArtifactsBound(dir)
<1>1. PICK input \in Inputs, format \in {"json", "sqlite"} :
         Assemble(input, format).ok /\ dir = Assemble(input, format).value
  BY DEF Publishable
<1>2. QED
  BY <1>1, AssemblyWhole

(* One file copied over a whole index leaves nothing that its manifest     *)
(* fits, but the index itself, or the index that the manifest came from.   *)
LEMMA MixtureRefused ==
    ASSUME NEW dir, Directory(dir), ArtifactsBound(dir),
           NEW stray, Directory(stray), ArtifactsBound(stray),
           NEW file \in DOMAIN stray,
           ArtifactsBound([dir EXCEPT ![file] = stray[file]])
    PROVE  [dir EXCEPT ![file] = stray[file]] \in {dir, stray}
<1> DEFINE mixed == [dir EXCEPT ![file] = stray[file]]
           Names == {"manifest", "documents", "occurrences", "vectors", "lexical", "lookup"}
<1>1. DOMAIN dir = Names /\ DOMAIN stray = Names
  BY DEF Directory
<1>2. \A name \in Names : mixed[name] = IF name = file THEN stray[file] ELSE dir[name]
  BY <1>1
<1>3. /\ dir = [name \in Names |-> dir[name]] /\ stray = [name \in Names |-> stray[name]]
      /\ mixed = [name \in Names |-> mixed[name]]
  BY <1>1 DEF Directory
<1> HIDE DEF mixed
<1>4. ArtifactsBound(mixed)
  BY DEF mixed
<1>5. CASE file = "manifest"
  <2>1. /\ mixed.manifest = stray.manifest /\ mixed.documents = dir.documents
        /\ mixed.occurrences = dir.occurrences /\ mixed.vectors = dir.vectors
        /\ mixed.lexical = dir.lexical /\ mixed.lookup = dir.lookup
    BY <1>2, <1>5
  <2>2. /\ mixed.documents = stray.documents /\ mixed.occurrences = stray.occurrences
        /\ mixed.vectors = stray.vectors /\ mixed.lexical = stray.lexical
        /\ mixed.lookup = stray.lookup
    BY <1>4, <2>1 DEF ArtifactsBound
  <2>3. \A name \in Names : mixed[name] = stray[name]
    BY <2>1, <2>2
  <2>4. mixed = stray
    <3> HIDE DEF Names
    <3>1. QED
      BY <1>3, <2>3
  <2>5. QED
    BY <2>4 DEF mixed
<1>6. CASE file # "manifest"
  <2>1. mixed.manifest = dir.manifest
    BY <1>2, <1>6
  <2>2. /\ mixed.documents = dir.documents /\ mixed.occurrences = dir.occurrences
        /\ mixed.vectors = dir.vectors /\ mixed.lexical = dir.lexical
        /\ mixed.lookup = dir.lookup
    BY <1>4, <2>1 DEF ArtifactsBound
  <2>3. \A name \in Names : mixed[name] = dir[name]
    BY <2>1, <2>2
  <2>4. mixed = dir
    <3> HIDE DEF Names
    <3>1. QED
      BY <1>3, <2>3
  <2>5. QED
    BY <2>4 DEF mixed
<1>7. QED
  BY <1>5, <1>6

-----------------------------------------------------------------------------
(* The assemblies, the copies and the handle.                              *)

(* Nothing is there at the start.                                          *)
LEMMA InitInv ==
    ASSUME Init
    PROVE  IndInv
BY DEF Init, IndInv, JobsSound, FromOrigin, Validated, Nothing

(* An assembly starts on an input it is given.                             *)
LEMMA BeginStep ==
    ASSUME IndInv, NEW p \in Processes, NEW input \in Inputs, NEW writer \in Writers,
           Begin(p, input, writer)
    PROVE  IndInv'
<1>1. FormatOf(writer) \in Formats
  BY DEF FormatOf, Formats
<1>2. /\ job' = [job EXCEPT ![p] = [kind |-> "staged", input |-> input,
                                     format |-> FormatOf(writer)]]
      /\ UNCHANGED << index, handle, copied >>
  BY DEF Begin
<1>3. JobsSound'
  BY <1>1, <1>2 DEF IndInv, JobsSound
<1>4. FromOrigin' /\ Validated'
  BY <1>2 DEF IndInv, FromOrigin, Validated
<1>5. QED
  BY <1>3, <1>4 DEF IndInv

(* What a process that has begun holds.                                    *)
LEMMA Holds ==
    ASSUME IndInv, NEW p \in Processes, job[p] # Nothing
    PROVE  /\ job[p] = [kind |-> job[p].kind, input |-> job[p].input,
                         format |-> job[p].format]
           /\ job[p].kind \in {"staged", "built"}
           /\ job[p].input \in Inputs /\ job[p].format \in Formats
BY DEF IndInv, JobsSound

(* A process that gives up, or is killed, forgets its assembly.            *)
LEMMA Forgotten ==
    ASSUME IndInv, NEW p \in Processes, job' = [job EXCEPT ![p] = Nothing],
           UNCHANGED << index, handle, copied >>
    PROVE  IndInv'
<1>1. JobsSound'
  BY DEF IndInv, JobsSound, Nothing
<1>2. FromOrigin' /\ Validated'
  BY DEF IndInv, FromOrigin, Validated
<1>3. QED
  BY <1>1, <1>2 DEF IndInv

(* Only an assembly that succeeds is built.                                *)
LEMMA BuildStep ==
    ASSUME IndInv, NEW p \in Processes, Build(p)
    PROVE  IndInv'
<1>1. job[p].kind = "staged" /\ job[p] # Nothing
  BY DEF Build, Nothing
<1>2. \/ /\ Assemble(job[p].input, job[p].format).ok
         /\ job' = [job EXCEPT ![p].kind = "built"]
         /\ UNCHANGED << index, handle, copied >>
      \/ FailAssembly(p)
  BY DEF Build
<1>3. CASE FailAssembly(p)
  BY <1>3, Forgotten DEF FailAssembly
<1>4. CASE /\ Assemble(job[p].input, job[p].format).ok
           /\ job' = [job EXCEPT ![p].kind = "built"]
           /\ UNCHANGED << index, handle, copied >>
  <2>1. /\ job[p] = [kind |-> job[p].kind, input |-> job[p].input, format |-> job[p].format]
        /\ job[p].input \in Inputs /\ job[p].format \in Formats
    BY <1>1, Holds
  <2>2. job' = [job EXCEPT ![p] = [kind |-> "built", input |-> job[p].input,
                                   format |-> job[p].format]]
    <3>1. [job[p] EXCEPT !.kind = "built"]
             = [kind |-> "built", input |-> job[p].input, format |-> job[p].format]
      BY <2>1
    <3>2. job' = [job EXCEPT ![p] = [job[p] EXCEPT !.kind = "built"]]
      BY <1>4
    <3>3. QED
      BY <3>1, <3>2
  <2>3. JobsSound'
    BY <1>4, <2>1, <2>2 DEF IndInv, JobsSound
  <2>4. FromOrigin' /\ Validated'
    BY <1>4 DEF IndInv, FromOrigin, Validated
  <2>5. QED
    BY <2>3, <2>4 DEF IndInv
<1>5. QED
  BY <1>2, <1>3, <1>4

(* What is published was built, where nothing was.                         *)
LEMMA PublishStep ==
    ASSUME IndInv, NEW p \in Processes, Publish(p)
    PROVE  IndInv'
<1> DEFINE assembled == Assemble(job[p].input, job[p].format)
<1>1. job[p].kind = "built" /\ job[p] # Nothing
  BY DEF Publish, Nothing
<1>2. \/ /\ index = Nothing
         /\ index' = [kind |-> "index",
                      origin |-> [input |-> job[p].input, format |-> job[p].format],
                      dir |-> assembled.value]
         /\ job' = [job EXCEPT ![p] = Nothing]
         /\ UNCHANGED << handle, copied >>
      \/ FailAssembly(p)
  BY DEF Publish, RenameAllowed
<1>3. CASE FailAssembly(p)
  BY <1>3, Forgotten DEF FailAssembly
<1>4. CASE /\ index = Nothing
           /\ index' = [kind |-> "index",
                        origin |-> [input |-> job[p].input, format |-> job[p].format],
                        dir |-> assembled.value]
           /\ job' = [job EXCEPT ![p] = Nothing]
           /\ UNCHANGED << handle, copied >>
  <2>1. /\ job[p].input \in Inputs /\ job[p].format \in Formats
        /\ assembled.ok
    BY <1>1, Holds DEF IndInv, JobsSound
  <2> HIDE DEF assembled
  <2>2. JobsSound'
    BY <1>4 DEF IndInv, JobsSound, Nothing
  <2>3. /\ index'.origin.input = job[p].input /\ index'.origin.format = job[p].format
        /\ index'.dir = assembled.value
        /\ index' = [kind |-> "index", origin |-> index'.origin, dir |-> index'.dir]
    BY <1>4
  <2>4. FromOrigin'
    BY <2>1, <2>3 DEF FromOrigin, assembled
  <2>5. Validated'
    BY <1>4 DEF IndInv, Validated
  <2>6. QED
    BY <2>2, <2>4, <2>5 DEF IndInv
<1>5. QED
  BY <1>2, <1>3, <1>4

(* One file is copied over, at most once, while the index is closed.       *)
LEMMA CopyStep ==
    ASSUME IndInv, NEW stray \in Strays, NEW file \in DOMAIN stray, CopyOver(file, stray)
    PROVE  IndInv'
<1> DEFINE assembled == Assemble(index.origin.input, index.origin.format)
<1>1. /\ index # Nothing /\ handle = "closed" /\ ~ copied /\ copied' = TRUE
      /\ index' = [index EXCEPT !.dir[file] = stray[file]]
      /\ UNCHANGED << job, handle >>
  BY DEF CopyOver
<1>2. /\ index.origin.input \in Inputs /\ index.origin.format \in Formats
      /\ assembled.ok /\ index.dir = assembled.value
      /\ index = [kind |-> "index", origin |-> index.origin, dir |-> index.dir]
  BY <1>1 DEF IndInv, FromOrigin
<1> HIDE DEF assembled
<1>3. index' = [kind |-> "index", origin |-> index.origin,
                dir |-> [index.dir EXCEPT ![file] = stray[file]]]
  BY <1>1, <1>2
<1>4. /\ index'.origin = index.origin
      /\ index'.dir = [assembled.value EXCEPT ![file] = stray[file]]
      /\ index' = [kind |-> "index", origin |-> index'.origin, dir |-> index'.dir]
  BY <1>2, <1>3
<1>5. FromOrigin'
  BY <1>1, <1>2, <1>4 DEF FromOrigin, assembled
<1>6. JobsSound' /\ Validated'
  BY <1>1 DEF IndInv, JobsSound, Validated
<1>7. QED
  BY <1>5, <1>6 DEF IndInv

(* Opening validates, and nothing changes while the index is in use.       *)
LEMMA HandleStep ==
    ASSUME IndInv,
           \/ \E allow_test_only \in BOOLEAN : Open(allow_test_only)
           \/ \E query \in Queries : Query(query)
           \/ Close
           \/ UNCHANGED vars
    PROVE  IndInv'
<1>1. UNCHANGED << index, job, copied >>
  BY DEF Open, Query, Close, vars
<1>2. JobsSound' /\ FromOrigin'
  BY <1>1 DEF IndInv, JobsSound, FromOrigin
<1>3. Validated'
  <2>1. CASE \E allow_test_only \in BOOLEAN : Open(allow_test_only)
    <3>1. PICK allow_test_only \in BOOLEAN : Open(allow_test_only)
      BY <2>1
    <3>2. /\ index # Nothing /\ Opens(index.dir, allow_test_only) /\ index' = index
          /\ handle' = IF allow_test_only THEN "diagnostic" ELSE "open"
      BY <3>1 DEF Open
    <3>3. allow_test_only = (handle' = "diagnostic")
      BY <3>2
    <3>4. Opens(index.dir, handle' = "diagnostic")
      BY <3>2, <3>3
    <3>5. QED
      BY <3>2, <3>4 DEF Validated
  <2>2. CASE \E query \in Queries : Query(query)
    BY <2>2 DEF IndInv, Query, Validated
  <2>3. CASE Close
    BY <2>3 DEF IndInv, Close, Validated
  <2>4. CASE UNCHANGED vars
    BY <2>4 DEF IndInv, vars, Validated
  <2>5. QED
    BY <2>1, <2>2, <2>3, <2>4
<1>4. QED
  BY <1>2, <1>3 DEF IndInv

(* IndInv is inductive.                                                    *)
LEMMA InvStep ==
    ASSUME IndInv, [Next]_vars
    PROVE  IndInv'
<1>1. ASSUME NEW p \in Processes, Kill(p)
      PROVE  IndInv'
  BY <1>1, Forgotten DEF Kill
<1>2. QED
  BY <1>1, BeginStep, BuildStep, PublishStep, CopyStep, HandleStep DEF Next

-----------------------------------------------------------------------------
(* What an open index is.                                                  *)

(* Every document has as many occurrences as it announced.                 *)
LEMMA OccurrencesClose ==
    ASSUME NEW input \in Inputs,
           LookupCloses(RowStream(input.documents), RowStream(input.occurrences)),
           NEW document \in Range(RowStream(input.documents))
    PROVE  document.count = Cardinality({row \in Range(RowStream(input.occurrences)) :
                                           row.document = document.id})
<1> DEFINE rows == RowStream(input.occurrences)
           ids == [k \in 1 .. Len(rows) |-> rows[k].id]
<1>1. PICK T : rows \in Seq(T)
  BY FastIndexAssumption, StreamIsSequence
<1>2. Len(rows) \in Nat /\ DOMAIN rows = 1 .. Len(rows)
  BY <1>1
<1>3. /\ NoRepeats(ids)
      /\ document.count = Cardinality({k \in DOMAIN rows : rows[k].document = document.id})
  BY DEF LookupCloses, MapSeq
<1>4. /\ ids = [k \in 1 .. Len(rows) |-> ids[k]]
      /\ \A k \in 1 .. Len(rows) : ids[k] = rows[k].id
  OBVIOUS
<1> HIDE DEF rows, ids
<1>5. \A k, l \in DOMAIN rows : rows[k].id = rows[l].id => k = l
  <2>1. \A k, l \in 1 .. Len(rows) : ids[k] = ids[l] => k = l
    BY <1>2, <1>3, <1>4, NoRepeatsDiffer
  <2>2. QED
    BY <1>2, <1>4, <2>1
<1>6. Cardinality(PositionsOf(rows, document.id)) = Cardinality(RowsOf(rows, document.id))
  BY <1>2, <1>5, RowsCounted
<1>7. document.count = Cardinality(PositionsOf(rows, document.id))
  BY <1>3 DEF PositionsOf
<1>8. document.count = Cardinality(RowsOf(rows, document.id))
  BY <1>6, <1>7
<1>9. QED
  BY <1>8 DEF rows, RowsOf

(* A validated index is whole.                                             *)
LEMMA ValidatedWhole ==
    ASSUME IndInv
    PROVE  OpenedAsPublished
<1>1. SUFFICES ASSUME handle # "closed"
               PROVE  /\ index.dir \in Publishable
                      /\ \A document \in Range(InputDocuments) :
                             document.count = Cardinality({row \in InputOccurrences :
                                                              row.document = document.id})
                      /\ Len(VectorStream(Input.shards)) = Len(InputDocuments)
                      /\ index.dir.manifest.test_only => handle = "diagnostic"
  BY DEF OpenedAsPublished
<1> DEFINE assembled == Assemble(Input, index.origin.format)
<1>2. index # Nothing /\ Opens(index.dir, handle = "diagnostic")
  BY <1>1 DEF IndInv, Validated
<1>3. /\ Input \in Inputs /\ index.origin.format \in Formats /\ assembled.ok
      /\ \/ index.dir = assembled.value
         \/ \E stray \in Strays : \E file \in DOMAIN stray :
               index.dir = [assembled.value EXCEPT ![file] = stray[file]]
  BY <1>2 DEF IndInv, FromOrigin, Input
<1>4. assembled.value \in Publishable
  BY <1>3 DEF Publishable, Formats
<1>5. ArtifactsBound(index.dir) /\ (index.dir.manifest.test_only => handle = "diagnostic")
  BY <1>2 DEF Opens
<1>6. /\ LookupCloses(InputDocuments, RowStream(Input.occurrences))
      /\ Len(VectorStream(Input.shards)) = Len(InputDocuments)
  BY <1>3, AssemblyWhole DEF InputDocuments
<1> HIDE DEF assembled
<1>7. index.dir \in Publishable
  <2>1. CASE index.dir = assembled.value
    BY <1>4, <2>1
  <2>2. CASE \E stray \in Strays : \E file \in DOMAIN stray :
                index.dir = [assembled.value EXCEPT ![file] = stray[file]]
    <3> PICK stray \in Strays : \E file \in DOMAIN stray :
             index.dir = [assembled.value EXCEPT ![file] = stray[file]]
      BY <2>2
    <3>1. PICK file \in DOMAIN stray :
             index.dir = [assembled.value EXCEPT ![file] = stray[file]]
      OBVIOUS
    <3>2. stray \in Publishable
      BY StraysPublished
    <3>3. /\ Directory(stray) /\ ArtifactsBound(stray)
          /\ Directory(assembled.value) /\ ArtifactsBound(assembled.value)
      BY <1>4, <3>2, PublishableWhole
    <3>4. index.dir \in {assembled.value, stray}
      BY <1>5, <3>1, <3>3, MixtureRefused
    <3>5. QED
      BY <1>4, <3>2, <3>4
  <2>3. QED
    BY <1>3, <2>1, <2>2
<1>8. \A document \in Range(InputDocuments) :
         document.count = Cardinality({row \in InputOccurrences : row.document = document.id})
  BY <1>3, <1>6, OccurrencesClose DEF InputDocuments, InputOccurrences
<1>9. QED
  BY <1>5, <1>6, <1>7, <1>8

(* open_internal: an index that opens is whole, whatever was copied over   *)
(* it: its files were published together, from streams that belong         *)
(* together; and diagnostic vectors open only where they are asked for.    *)
THEOREM OpenedWhole == Spec => []OpenedAsPublished
<1>1. IndInv /\ [Next]_vars => IndInv'
  BY InvStep
<1>2. Init => IndInv
  BY InitInv
<1>3. IndInv => OpenedAsPublished
  BY ValidatedWhole
<1>4. QED
  BY <1>1, <1>2, <1>3, PTL DEF Spec

(* write_fast_index_from_streams_with_format: no assembly, however it      *)
(* ends, changes an index that is published.                               *)
THEOREM PublishedKept == Spec => PublishedStays
<1>1. ASSUME [Next]_vars, index # Nothing
      PROVE  index' = index \/ copied' # copied
  <2>1. ASSUME NEW p \in Processes, Build(p) \/ Publish(p) \/ Kill(p)
        PROVE  index' = index
    <3>1. FailAssembly(p) => index' = index
      BY DEF FailAssembly
    <3>2. QED
      BY <1>1, <2>1, <3>1 DEF Build, Publish, RenameAllowed, Kill
  <2>2. ASSUME NEW stray \in Strays, NEW file \in DOMAIN stray, CopyOver(file, stray)
        PROVE  copied' # copied
    BY <2>2 DEF CopyOver
  <2>3. CASE UNCHANGED vars
    BY <2>3 DEF vars
  <2>4. QED
    BY <1>1, <2>1, <2>2, <2>3 DEF Next, Begin, Open, Query, Close
<1>2. [Next]_vars => (index # Nothing => index' = index \/ copied' # copied)
  BY <1>1
<1>3. QED
  BY <1>2, PTL DEF Spec, PublishedStays
=============================================================================
