--------------------------- MODULE Ingest_proofs ---------------------------
(***************************************************************************)
(* What ingestion promises for every number of episodes, chunks, runs,     *)
(* failed writes and kills.                                                *)
(***************************************************************************)
EXTENDS IngestIndex, FiniteSetTheorems, FunctionTheorems, TLAPS

-----------------------------------------------------------------------------
(* Orders: a finite set has exactly one member at each place of an order.  *)

\* Counting what comes before each member of a finite set numbers its members.
LEMMA PlacesAreTaken ==
    ASSUME NEW S, IsFiniteSet(S), NEW below \in [S -> SUBSET S],
           \A x \in S : x \notin below[x],
           \A x \in S : \A y \in below[x] : below[y] \subseteq below[x],
           \A x, y \in S : x = y \/ x \in below[y] \/ y \in below[x]
    PROVE  /\ Cardinality(S) \in Nat
           /\ \A x \in S : Cardinality(below[x]) + 1 \in 1..Cardinality(S)
           /\ \A i \in 1..Cardinality(S) : \E x \in S : Cardinality(below[x]) = i - 1
           /\ \A x, y \in S : Cardinality(below[x]) = Cardinality(below[y]) => x = y
<1> DEFINE n == Cardinality(S)
           place == [x \in S |-> Cardinality(below[x]) + 1]
<1>1. n \in Nat
  BY FS_CardinalityType
<1>2. ASSUME NEW x \in S
      PROVE  IsFiniteSet(below[x]) /\ Cardinality(below[x]) \in Nat /\ Cardinality(below[x]) < n
  <2>1. below[x] \in SUBSET S /\ below[x] # S
    OBVIOUS
  <2>2. IsFiniteSet(below[x]) /\ Cardinality(below[x]) <= n /\ Cardinality(below[x]) # n
    BY <2>1, FS_Subset
  <2>3. Cardinality(below[x]) \in Nat
    BY <2>2, FS_CardinalityType
  <2> QED
    BY <2>2, <2>3, <1>1
<1>3. ASSUME NEW x \in S, NEW y \in below[x]
      PROVE  Cardinality(below[y]) # Cardinality(below[x])
  <2>1. y \in S /\ below[y] \in SUBSET below[x] /\ below[y] # below[x]
    OBVIOUS
  <2> QED
    BY <2>1, <1>2, FS_Subset
<1>4. \A x, y \in S : Cardinality(below[x]) = Cardinality(below[y]) => x = y
  BY <1>3
<1>5. \A x \in S : Cardinality(below[x]) + 1 \in 1..n
  BY <1>1, <1>2
<1>6. place \in Injection(S, 1..n)
  <2>1. place \in [S -> 1..n]
    BY <1>5
  <2>2. \A x, y \in S : place[x] = place[y] => x = y
    BY <1>4, <1>2
  <2> QED
    BY <2>1, <2>2, Fun_IsInj
<1>7. place \in Surjection(S, 1..n)
  <2>1. IsFiniteSet(1..n) /\ Cardinality(1..n) = n
    BY <1>1, FS_Interval
  <2> QED
    BY <2>1, <1>6, FS_Injection
<1>8. \A i \in 1..n : \E x \in S : Cardinality(below[x]) = i - 1
  <2> SUFFICES ASSUME NEW i \in 1..n
               PROVE  \E x \in S : Cardinality(below[x]) = i - 1
    OBVIOUS
  <2>1. PICK x \in S : place[x] = i
    BY <1>7 DEF Surjection
  <2> QED
    BY <2>1, <1>1, <1>2
<1> QED
  BY <1>1, <1>4, <1>5, <1>8

\* Episodes and positions are numbers.
LEMMA ChunkTyped ==
    ASSUME NEW c \in Chunk
    PROVE  c.ep \in Episodes /\ c.ep \in Nat /\ c.ix \in Nat /\ c.heard \in Transcribers
<1>1. c.ep \in Episodes /\ c.ix \in 1..MaxChunks /\ c.heard \in Transcribers
  BY DEF Chunk
<1>2. c.ep \in Nat
  BY <1>1, NumpyStoreAssumption DEF NumpyStoreAssumption
<1>3. c.ix \in Nat
  BY <1>1
<1> QED
  BY <1>1, <1>2, <1>3

\* What an order may be built from: rows of which no two share an id.
Row == [chunk : Chunk, vector : Vector]
Keyed(rows) == \A r, s \in rows : Id(r.chunk) = Id(s.chunk) => r = s

\* The rows, sorted, are all of the rows and each of them once.
LEMMA SortedRows ==
    ASSUME NEW rows, rows \subseteq Row, IsFiniteSet(rows), Keyed(rows)
    PROVE  /\ Cardinality(rows) \in Nat
           /\ Sorted(rows) \in [1..Cardinality(rows) -> rows]
           /\ \A r \in rows : \E i \in 1..Cardinality(rows) : Sorted(rows)[i] = r
           /\ \A i, j \in 1..Cardinality(rows) : Sorted(rows)[i] = Sorted(rows)[j] => i = j
<1> DEFINE n == Cardinality(rows)
           Before(r) == {q \in rows : RowBefore(q, r)}
           below == [r \in rows |-> Before(r)]
           s == Sorted(rows)
<1>1. \A r \in rows : r.chunk.ep \in Nat /\ r.chunk.ix \in Nat
  BY ChunkTyped DEF Row
<1>2. ASSUME NEW q \in rows, NEW r \in rows, q.chunk.ep = r.chunk.ep, q.chunk.ix = r.chunk.ix
      PROVE  q = r
  <2>1. Id(q.chunk) = Id(r.chunk)
    BY <1>2 DEF Id
  <2> QED
    BY <2>1 DEF Keyed
<1>3. below \in [rows -> SUBSET rows]
  OBVIOUS
<1>4. \A r \in rows : r \notin below[r]
  BY <1>1 DEF RowBefore
<1>5. ASSUME NEW r \in rows, NEW q \in below[r], NEW p \in below[q]
      PROVE  p \in below[r]
  BY <1>1 DEF RowBefore
<1>6. \A q, r \in rows : q = r \/ q \in below[r] \/ r \in below[q]
  BY <1>1, <1>2 DEF RowBefore
<1>7. /\ n \in Nat
      /\ \A r \in rows : Cardinality(below[r]) + 1 \in 1..n
      /\ \A i \in 1..n : \E r \in rows : Cardinality(below[r]) = i - 1
      /\ \A q, r \in rows : Cardinality(below[q]) = Cardinality(below[r]) => q = r
  <2>1. \A r \in rows : \A q \in below[r] : below[q] \subseteq below[r]
    BY <1>5
  <2> HIDE DEF below
  <2> QED
    BY <1>3, <1>4, <2>1, <1>6, PlacesAreTaken
<1>8. /\ s = [i \in 1..n |-> s[i]]
      /\ \A i \in 1..n : s[i] = CHOOSE r \in rows : Cardinality(Before(r)) = i - 1
  <2>1. s = [i \in 1..n |-> CHOOSE r \in rows : Cardinality({q \in rows : RowBefore(q, r)}) = i - 1]
    BY DEF Sorted, Ordered
  <2> QED
    BY <2>1
<1>9. \A i \in 1..n : s[i] \in rows /\ Cardinality(below[s[i]]) = i - 1
  <2>1. \A r \in rows : below[r] = Before(r)
    OBVIOUS
  <2> HIDE DEF below, Before, s
  <2> QED
    BY <1>7, <1>8, <2>1
<1> HIDE DEF below, s
<1>10. ASSUME NEW r \in rows
       PROVE  \E i \in 1..n : s[i] = r
  <2> DEFINE i == Cardinality(below[r]) + 1
  <2>1. i \in 1..n
    BY <1>7
  <2>2. IsFiniteSet(below[r])
    BY <1>3, FS_Subset
  <2>3. Cardinality(below[r]) \in Nat
    BY <2>2, FS_CardinalityType
  <2>4. Cardinality(below[s[i]]) = Cardinality(below[r])
    BY <2>1, <2>3, <1>9
  <2>5. s[i] = r
    BY <2>1, <2>4, <1>7, <1>9
  <2> QED
    BY <2>1, <2>5
<1>11. ASSUME NEW i \in 1..n, NEW j \in 1..n, s[i] = s[j]
       PROVE  i = j
  <2>1. i - 1 = j - 1
    BY <1>9, <1>11
  <2> QED
    BY <2>1, <1>7
<1>12. s \in [1..n -> rows]
  BY <1>8, <1>9
<1> QED
  BY <1>7, <1>10, <1>11, <1>12 DEF s

\* The folder is read in order: a list of episodes.
LEMMA EpisodesInOrder ==
    /\ InOrder(Episodes) \in Seq(Episodes)
    /\ Len(InOrder(Episodes)) = Cardinality(Episodes)
<1> DEFINE n == Cardinality(Episodes)
           Before(e) == {f \in Episodes : f < e}
           below == [e \in Episodes |-> Before(e)]
           s == InOrder(Episodes)
<1>0. IsFiniteSet(Episodes) /\ \A e \in Episodes : e \in Nat
  BY NumpyStoreAssumption DEF NumpyStoreAssumption
<1>1. below \in [Episodes -> SUBSET Episodes]
  OBVIOUS
<1>2. \A e \in Episodes : e \notin below[e]
  BY <1>0
<1>3. ASSUME NEW e \in Episodes, NEW f \in below[e], NEW g \in below[f]
      PROVE  g \in below[e]
  BY <1>0
<1>4. \A e, f \in Episodes : e = f \/ e \in below[f] \/ f \in below[e]
  BY <1>0
<1>5. n \in Nat /\ \A i \in 1..n : \E e \in Episodes : Cardinality(below[e]) = i - 1
  <2>1. \A e \in Episodes : \A f \in below[e] : below[f] \subseteq below[e]
    BY <1>3
  <2> HIDE DEF below
  <2> QED
    BY <1>0, <1>1, <1>2, <2>1, <1>4, PlacesAreTaken
<1>6. /\ s = [i \in 1..n |-> s[i]]
      /\ \A i \in 1..n : s[i] = CHOOSE e \in Episodes : Cardinality(Before(e)) = i - 1
  BY DEF InOrder, Ordered
<1>7. \A i \in 1..n : s[i] \in Episodes
  <2>1. \A e \in Episodes : below[e] = Before(e)
    OBVIOUS
  <2> HIDE DEF below, Before, s
  <2> QED
    BY <1>5, <1>6, <2>1
<1> HIDE DEF below, s
<1>8. s \in [1..n -> Episodes]
  BY <1>6, <1>7
<1> QED
  BY <1>5, <1>8 DEF s

-----------------------------------------------------------------------------
(* Tables: what _replace makes of the rows it is given. *)

Rows(chunks, vectors) ==
    {[chunk |-> chunks[i], vector |-> vectors[i]] : i \in DOMAIN chunks}

DistinctIds(chunks) ==
    \A i, j \in DOMAIN chunks : Id(chunks[i]) = Id(chunks[j]) => i = j

\* Sorting the rows of a table gives the table back.
Canonical(chunks, vectors) ==
    LET sorted == Sorted(Rows(chunks, vectors))
    IN /\ chunks = [i \in DOMAIN sorted |-> sorted[i].chunk]
       /\ vectors = [i \in DOMAIN sorted |-> sorted[i].vector]

LEMMA ReplacedTable ==
    ASSUME table \in Table, NEW rows, rows \subseteq Row, IsFiniteSet(rows), Keyed(rows),
           NEW t, t = Replaced(rows)
    PROVE  /\ t \in Table
           /\ t.embedder = table.embedder
           /\ Len(t.chunks) = Cardinality(rows)
           /\ DistinctIds(t.chunks)
           /\ \A i \in DOMAIN t.chunks : \E r \in rows : r.chunk = t.chunks[i]
           /\ \A r \in rows : \E i \in DOMAIN t.chunks : t.chunks[i] = r.chunk
           /\ Stackable(rows) => /\ Len(t.vectors) = Len(t.chunks)
                                 /\ Rows(t.chunks, t.vectors) = rows
                                 /\ Canonical(t.chunks, t.vectors)
           /\ ~Stackable(rows) => t.vectors = table.vectors
<1> DEFINE n == Cardinality(rows)
           sorted == Sorted(rows)
<1>1. /\ n \in Nat
      /\ sorted \in [1..n -> rows]
      /\ \A r \in rows : \E i \in 1..n : sorted[i] = r
      /\ \A i, j \in 1..n : sorted[i] = sorted[j] => i = j
  BY SortedRows
<1>2. /\ t.chunks = [i \in DOMAIN sorted |-> sorted[i].chunk]
      /\ t.vectors = IF Stackable(rows) THEN [i \in DOMAIN sorted |-> sorted[i].vector]
                                        ELSE table.vectors
      /\ t.embedder = table.embedder
      /\ t = [chunks |-> t.chunks, vectors |-> t.vectors, embedder |-> t.embedder]
  BY DEF Replaced, Table
<1> HIDE DEF n, sorted
<1>3. \A i \in 1..n : sorted[i] \in rows /\ sorted[i].chunk \in Chunk /\ sorted[i].vector \in Vector
  BY <1>1 DEF Row
<1>4. /\ DOMAIN sorted = 1..n
      /\ t.chunks \in [1..n -> Chunk]
      /\ \A i \in 1..n : t.chunks[i] = sorted[i].chunk
  BY <1>1, <1>2, <1>3
<1>5. t.chunks \in Seq(Chunk) /\ Len(t.chunks) = n /\ DOMAIN t.chunks = 1..n
  BY <1>1, <1>4
<1>6. ASSUME Stackable(rows)
      PROVE  /\ t.vectors \in [1..n -> Vector]
             /\ \A i \in 1..n : t.vectors[i] = sorted[i].vector
  BY <1>6, <1>2, <1>3, <1>4
<1>7. t \in Table
  <2>1. t.vectors \in Seq(Vector)
    <3>1. CASE Stackable(rows)
      BY <3>1, <1>1, <1>6
    <3>2. CASE ~Stackable(rows)
      BY <3>2, <1>2 DEF Table
    <3> QED
      BY <3>1, <3>2
  <2> QED
    BY <2>1, <1>2, <1>5 DEF Table
<1>8. DistinctIds(t.chunks)
  <2> SUFFICES ASSUME NEW i \in 1..n, NEW j \in 1..n, Id(t.chunks[i]) = Id(t.chunks[j])
               PROVE  i = j
    BY <1>5 DEF DistinctIds
  <2>1. sorted[i] = sorted[j]
    BY <1>3, <1>4 DEF Keyed
  <2> QED
    BY <2>1, <1>1
<1>9. \A i \in DOMAIN t.chunks : \E r \in rows : r.chunk = t.chunks[i]
  BY <1>3, <1>4, <1>5
<1>10. \A r \in rows : \E i \in DOMAIN t.chunks : t.chunks[i] = r.chunk
  BY <1>1, <1>4, <1>5
<1>11. ASSUME Stackable(rows)
       PROVE  /\ Len(t.vectors) = Len(t.chunks)
              /\ Rows(t.chunks, t.vectors) = rows
              /\ Canonical(t.chunks, t.vectors)
  <2>1. Len(t.vectors) = Len(t.chunks)
    BY <1>1, <1>5, <1>6, <1>11
  <2>2. \A i \in 1..n : [chunk |-> t.chunks[i], vector |-> t.vectors[i]] = sorted[i]
    BY <1>3, <1>4, <1>6, <1>11 DEF Row
  <2>3. Rows(t.chunks, t.vectors) = rows
    BY <2>2, <1>1, <1>3, <1>5 DEF Rows
  <2>4. Canonical(t.chunks, t.vectors)
    <3>1. Sorted(Rows(t.chunks, t.vectors)) = sorted
      BY <2>3 DEF sorted
    <3>2. t.vectors = [i \in DOMAIN sorted |-> sorted[i].vector]
      BY <1>2, <1>11
    <3> QED
      BY <3>1, <3>2, <1>2 DEF Canonical
  <2> QED
    BY <2>1, <2>3, <2>4
<1> QED
  BY <1>2, <1>5, <1>7, <1>8, <1>9, <1>10, <1>11 DEF n

\* Rows read back from a table.
LEMMA RowsReadBack ==
    ASSUME table \in Table, DistinctIds(table.chunks),
           NEW kept \in SUBSET DOMAIN table.chunks, Readable(kept)
    PROVE  RowsAt(kept) \subseteq Row /\ IsFiniteSet(RowsAt(kept)) /\ Keyed(RowsAt(kept))
<1> DEFINE row == [i \in kept |-> [chunk |-> table.chunks[i], vector |-> table.vectors[i]]]
<1>1. /\ table.chunks \in Seq(Chunk) /\ table.vectors \in Seq(Vector)
      /\ DOMAIN table.chunks = 1..Len(table.chunks) /\ Len(table.chunks) \in Nat
  BY DEF Table
<1>2. \A i \in kept : table.chunks[i] \in Chunk /\ table.vectors[i] \in Vector
  BY <1>1 DEF Readable
<1>3. IsFiniteSet(kept)
  <2>1. IsFiniteSet(1..Len(table.chunks))
    BY <1>1, FS_Interval
  <2> QED
    BY <2>1, <1>1, FS_Subset
<1>4. row \in Surjection(kept, RowsAt(kept))
  BY DEF Surjection, RowsAt
<1>5. IsFiniteSet(RowsAt(kept))
  BY <1>3, <1>4, FS_Surjection
<1>6. RowsAt(kept) \subseteq Row
  BY <1>2 DEF RowsAt, Row
<1>7. Keyed(RowsAt(kept))
  BY DEF Keyed, RowsAt, DistinctIds
<1> QED
  BY <1>5, <1>6, <1>7

\* One version of an episode: the first n chunks of one transcription.
Version(e, n, heard) == {[ep |-> e, ix |-> k, heard |-> heard] : k \in 1..n}

LEMMA VersionTyped ==
    ASSUME NEW e \in Episodes, NEW n \in 1..MaxChunks, NEW w \in Transcribers
    PROVE  /\ Version(e, n, w) \subseteq Chunk /\ Version(e, n, w) # {}
           /\ IsFiniteSet(Version(e, n, w))
           /\ \A c, d \in Version(e, n, w) : Id(c) = Id(d) => c = d
           /\ \A c \in Version(e, n, w) : c.ep = e /\ c.heard = w
<1> DEFINE chunk == [k \in 1..n |-> [ep |-> e, ix |-> k, heard |-> w]]
<1>1. n \in Nat /\ n > 0 /\ MaxChunks \in Nat
  BY NumpyStoreAssumption DEF NumpyStoreAssumption
<1>2. chunk \in Surjection(1..n, Version(e, n, w))
  BY DEF Surjection, Version
<1>3. IsFiniteSet(1..n)
  BY <1>1, FS_Interval
<1>4. IsFiniteSet(Version(e, n, w))
  BY <1>2, <1>3, FS_Surjection
<1>5. Version(e, n, w) \subseteq Chunk
  BY <1>1 DEF Version, Chunk
<1>6. Version(e, n, w) # {}
  <2>1. [ep |-> e, ix |-> 1, heard |-> w] \in Version(e, n, w)
    BY <1>1 DEF Version
  <2> QED
    BY <2>1
<1>7. \A c, d \in Version(e, n, w) : Id(c) = Id(d) => c = d
  BY DEF Version, Id
<1>8. \A c \in Version(e, n, w) : c.ep = e /\ c.heard = w
  BY DEF Version
<1> QED
  BY <1>4, <1>5, <1>6, <1>7, <1>8

\* What upsert sorts: the rows it keeps and the new ones.
Merged(chunks, m) == RowsAt(KeptByUpsert(chunks)) \cup UpsertRows(chunks, m)

LEMMA MergedRows ==
    ASSUME table \in Table, DistinctIds(table.chunks),
           NEW chunks, chunks \subseteq Chunk, IsFiniteSet(chunks),
           \A c, d \in chunks : Id(c) = Id(d) => c = d,
           NEW m \in Embedders, Readable(KeptByUpsert(chunks))
    PROVE  Merged(chunks, m) \subseteq Row /\ IsFiniteSet(Merged(chunks, m)) /\ Keyed(Merged(chunks, m))
<1> DEFINE kept == KeptByUpsert(chunks)
           row == [c \in chunks |-> [chunk |-> c, vector |-> [of |-> c, by |-> m]]]
<1>1. kept \in SUBSET DOMAIN table.chunks
  BY DEF KeptByUpsert
<1>2. RowsAt(kept) \subseteq Row /\ IsFiniteSet(RowsAt(kept)) /\ Keyed(RowsAt(kept))
  <2> HIDE DEF kept
  <2> QED
    BY <1>1, RowsReadBack DEF kept
<1>3. row \in Surjection(chunks, UpsertRows(chunks, m))
  BY DEF Surjection, UpsertRows
<1>4. IsFiniteSet(UpsertRows(chunks, m))
  BY <1>3, FS_Surjection
<1>5. UpsertRows(chunks, m) \subseteq Row
  BY DEF UpsertRows, Row, Vector
<1>6. Keyed(UpsertRows(chunks, m))
  BY DEF Keyed, UpsertRows
<1>7. ASSUME NEW r \in RowsAt(kept), NEW q \in UpsertRows(chunks, m)
      PROVE  Id(r.chunk) # Id(q.chunk)
  BY DEF RowsAt, KeptByUpsert, UpsertRows
<1>8. IsFiniteSet(Merged(chunks, m))
  BY <1>2, <1>4, FS_Union DEF Merged
<1>9. Keyed(Merged(chunks, m))
  BY <1>2, <1>6, <1>7 DEF Keyed, Merged
<1> QED
  BY <1>2, <1>5, <1>8, <1>9 DEF Merged

-----------------------------------------------------------------------------
(* The invariant, whatever fails: types, ids, and how far a run has come. *)

Unsaved == {PersistOrder, <<"chunks", "manifest">>, <<"manifest">>, <<>>}

StoreInv ==
    /\ StoreTypeOK
    /\ unsaved \in Unsaved
    /\ files = [embeddings |-> files.embeddings, chunks |-> files.chunks,
                manifest |-> files.manifest]
    /\ files.embeddings = Missing => files.chunks = Missing
    /\ files.chunks = Missing => files.manifest = Missing
    /\ table # NotLoaded => DistinctIds(table.chunks)
    /\ files.chunks \notin {Missing, Torn} => DistinctIds(files.chunks)

\* Where a run has an episode in hand, and where it may be writing.
Working == {"caching", "chunk", "embed", "upsert", "stored"}
Storing == {"upsert", "stored", "stamp"}

\* What was written so far is what the table holds.
Written ==
    /\ unsaved # PersistOrder => files.embeddings = table.vectors
    /\ unsaved \in {<<"manifest">>, <<>>} => files.chunks = table.chunks
    /\ unsaved = <<>> => files.manifest = table.embedder

\* The chunks in hand are one version of an episode with the slug of the
\* current one, heard by the transcriber of the run.
InHand ==
    \E e \in Episodes, n \in 1..MaxChunks :
        Slug[e] = Slug[Current] /\ run.chunks = Version(e, n, run.transcriber)

RunInv ==
    /\ pc \in Working => run.todo # <<>>
    /\ pc \in {"caching", "chunk"} =>
          /\ run.transcript \in Transcript
          /\ run.transcript.heard = run.transcriber
          /\ Slug[run.transcript.ep] = Slug[Current]
    /\ pc \in {"embed", "upsert", "stored"} => InHand
    /\ IF pc \in Storing THEN Written ELSE Saved
    /\ pc = "stamp" => table.embedder = run.embedder
    /\ \A s \in Slugs : transcripts[s] \in Transcript => Slug[transcripts[s].ep] = s

Inv == TypeOK /\ StoreInv /\ RunInv /\ IndexedAfresh

\* The part of the type invariant that is not the store's.
RunTyped ==
    /\ run \in Runs \cup {NoRun}
    /\ pc \in {"idle", "next", "caching", "chunk", "embed", "upsert", "stored", "stamp"}
    /\ (pc = "idle") = (run = NoRun) /\ (pc = "idle") = (table = NotLoaded)
    /\ transcripts \in [Slugs -> Transcript \cup {Missing, Torn}]
    /\ report \in [Episodes -> {"none", "skipped", "indexed", "empty", "failed"}]
    /\ made \in [Episodes -> SUBSET Chunk]
    /\ runs \in 0..MaxRuns /\ crashes \in 0..MaxCrashes

-----------------------------------------------------------------------------
(* The operations of the store preserve StoreInv. *)

LEMMA LoadedTyped ==
    ASSUME StoreInv, Loads
    PROVE  Loaded \in Table /\ DistinctIds(Loaded.chunks)
<1>1. CASE ~Exists
  <2>1. EmptyTable \in Table /\ EmptyTable.chunks = <<>>
    BY DEF EmptyTable, Table
  <2> QED
    BY <1>1, <2>1 DEF Loaded, DistinctIds
<1>2. CASE Exists
  <2>1. files.embeddings \in Seq(Vector) /\ files.chunks \in Seq(Chunk)
    BY <1>2 DEF StoreInv, StoreTypeOK, Loads, Exists
  <2>2. files.manifest \in {Missing, NoName} \cup Embedders
    BY <1>2 DEF StoreInv, StoreTypeOK, Loads
  <2>3. DistinctIds(files.chunks)
    BY <2>1, MarksAssumption DEF StoreInv, MarksAssumption
  <2>4. Loaded.chunks = files.chunks /\ Loaded \in Table
    BY <1>2, <2>1, <2>2 DEF Loaded, Table
  <2> QED
    BY <2>3, <2>4
<1> QED
  BY <1>1, <1>2

LEMMA DeleteEpisodeInv ==
    ASSUME StoreInv, table # NotLoaded, NEW e, DeleteEpisode(e), UNCHANGED <<files, faults>>
    PROVE  StoreInv' /\ table' \in Table /\ table'.embedder = table.embedder
<1> DEFINE kept == KeptByDelete(e)
<1>1. table \in Table /\ DistinctIds(table.chunks)
  BY DEF StoreInv, StoreTypeOK, Unsaved
<1>2. kept \in SUBSET DOMAIN table.chunks
  BY DEF KeptByDelete
<1>3. Readable(kept) /\ table' = Replaced(RowsAt(kept)) /\ unsaved' = PersistOrder
  BY DEF DeleteEpisode
<1> HIDE DEF kept
<1>4. RowsAt(kept) \subseteq Row /\ IsFiniteSet(RowsAt(kept)) /\ Keyed(RowsAt(kept))
  BY <1>1, <1>2, <1>3, RowsReadBack
<1>5. table' \in Table /\ table'.embedder = table.embedder /\ DistinctIds(table'.chunks)
  BY <1>1, <1>3, <1>4, ReplacedTable
<1>6. unsaved' \in Unsaved
  BY <1>3 DEF Unsaved
<1> QED
  BY <1>5, <1>6 DEF StoreInv, StoreTypeOK, Unsaved

\* upsert of one version, whether it raises or not.
LEMMA UpsertInv ==
    ASSUME StoreInv, table # NotLoaded, NEW m \in Embedders,
           NEW chunks, chunks \subseteq Chunk, IsFiniteSet(chunks),
           \A c, d \in chunks : Id(c) = Id(d) => c = d,
           Upsert(chunks, m) \/ UpsertRaises(chunks, m), UNCHANGED <<files, faults>>
    PROVE  StoreInv' /\ table' \in Table /\ table'.embedder = table.embedder
<1> DEFINE kept == KeptByUpsert(chunks)
<1>1. table \in Table /\ DistinctIds(table.chunks)
  BY DEF StoreInv, StoreTypeOK, Unsaved
<1>2. unsaved' \in Unsaved
  BY DEF Upsert, UpsertRaises, Unsaved, StoreInv
<1>3. CASE ~Readable(kept)
  <2>1. table' = table
    BY <1>3 DEF Upsert, UpsertRaises
  <2> QED
    BY <2>1, <1>1, <1>2 DEF StoreInv, StoreTypeOK, Unsaved
<1>4. CASE Readable(kept)
  <2>1. table' = Replaced(Merged(chunks, m))
    BY <1>4 DEF Upsert, UpsertRaises, Merged
  <2>2. /\ Merged(chunks, m) \subseteq Row /\ IsFiniteSet(Merged(chunks, m))
        /\ Keyed(Merged(chunks, m))
    BY <1>1, <1>4, MergedRows
  <2>3. table' \in Table /\ table'.embedder = table.embedder /\ DistinctIds(table'.chunks)
    BY <1>1, <2>1, <2>2, ReplacedTable
  <2> QED
    BY <2>3, <1>2 DEF StoreInv, StoreTypeOK, Unsaved
<1> QED
  BY <1>3, <1>4

LEMMA SetManifestInv ==
    ASSUME StoreInv, table # NotLoaded, NEW m \in Embedders, SetManifest(m),
           UNCHANGED <<files, faults>>
    PROVE  /\ StoreInv' /\ table' \in Table /\ table'.embedder = m
           /\ table'.chunks = table.chunks /\ table'.vectors = table.vectors
<1>1. table \in Table /\ DistinctIds(table.chunks)
  BY DEF StoreInv, StoreTypeOK, Unsaved
<1>2. /\ table' \in Table /\ table'.chunks = table.chunks /\ table'.vectors = table.vectors
      /\ table'.embedder = m
  BY <1>1 DEF SetManifest, Table
<1>3. unsaved' \in Unsaved
  BY DEF SetManifest, Unsaved
<1> QED
  BY <1>1, <1>2, <1>3 DEF StoreInv, StoreTypeOK, Unsaved

\* Which file is written next.
LEMMA NextFile ==
    ASSUME unsaved \in Unsaved, unsaved # <<>>
    PROVE  \/ unsaved = PersistOrder /\ Head(unsaved) = "embeddings"
              /\ Tail(unsaved) = <<"chunks", "manifest">>
           \/ unsaved = <<"chunks", "manifest">> /\ Head(unsaved) = "chunks"
              /\ Tail(unsaved) = <<"manifest">>
           \/ unsaved = <<"manifest">> /\ Head(unsaved) = "manifest" /\ Tail(unsaved) = <<>>
<1>1. CASE unsaved = PersistOrder
  BY <1>1 DEF PersistOrder
<1>2. CASE unsaved = <<"chunks", "manifest">>
  BY <1>2
<1>3. CASE unsaved = <<"manifest">>
  BY <1>3
<1> QED
  BY <1>1, <1>2, <1>3 DEF Unsaved

LEMMA PartsDiffer ==
    /\ PersistOrder # <<"chunks", "manifest">> /\ PersistOrder # <<"manifest">>
    /\ PersistOrder # <<>> /\ <<"chunks", "manifest">> # <<"manifest">>
    /\ <<"chunks", "manifest">> # <<>> /\ <<"manifest">> # <<>>
BY DEF PersistOrder

LEMMA SaveNextInv ==
    ASSUME StoreInv, table \in Table, Written, SaveNext
    PROVE  StoreInv' /\ Written' /\ table' = table
<1>1. /\ table.chunks \in Seq(Chunk) /\ table.vectors \in Seq(Vector)
      /\ table.embedder \in Embedders \cup {NoName}
      /\ table.vectors \notin {Missing, Torn} /\ table.chunks \notin {Missing, Torn}
  BY MarksAssumption DEF Table, MarksAssumption
<1>2. table # NotLoaded /\ DistinctIds(table.chunks)
  BY MarksAssumption DEF MarksAssumption, StoreInv
<1>3. CASE Head(unsaved) = "embeddings"
  <2>1. unsaved = PersistOrder /\ unsaved' = <<"chunks", "manifest">>
    BY <1>3, NextFile DEF SaveNext, Saved, StoreInv
  <2>2. files' = [files EXCEPT !["embeddings"] = table.vectors]
    <3>1. Contents["embeddings"] = table.vectors
      BY DEF Contents
    <3>2. files' = [files EXCEPT !["embeddings"] = Contents["embeddings"]]
      BY <1>3 DEF SaveNext
    <3> QED
      BY <3>1, <3>2
  <2>3. /\ files' = [embeddings |-> table.vectors, chunks |-> files.chunks,
                     manifest |-> files.manifest]
    BY <2>2 DEF StoreInv
  <2> QED
    <3>1. StoreInv'
      <4>1. table' = table /\ faults' = faults /\ unsaved' \in Unsaved
        BY <2>1 DEF SaveNext, Unsaved
      <4>2. StoreTypeOK'
        BY <1>1, <2>3, <4>1 DEF StoreInv, StoreTypeOK, Unsaved
      <4> QED
        BY <1>1, <1>2, <2>3, <4>1, <4>2 DEF StoreInv
    <3>2. Written'
      BY <2>1, <2>3, PartsDiffer DEF Written, SaveNext
    <3> QED
      BY <3>1, <3>2 DEF SaveNext
<1>4. CASE Head(unsaved) = "chunks"
  <2>1. unsaved = <<"chunks", "manifest">> /\ unsaved' = <<"manifest">>
    BY <1>4, NextFile DEF SaveNext, Saved, StoreInv
  <2>2. files' = [files EXCEPT !["chunks"] = table.chunks]
    <3>1. Contents["chunks"] = table.chunks
      BY DEF Contents
    <3>2. files' = [files EXCEPT !["chunks"] = Contents["chunks"]]
      BY <1>4 DEF SaveNext
    <3> QED
      BY <3>1, <3>2
  <2>3. files' = [embeddings |-> files.embeddings, chunks |-> table.chunks,
                  manifest |-> files.manifest]
    BY <2>2 DEF StoreInv
  <2>4. files.embeddings = table.vectors
    BY <2>1, PartsDiffer DEF Written
  <2> QED
    <3>1. StoreInv'
      <4>1. table' = table /\ faults' = faults /\ unsaved' \in Unsaved
        BY <2>1 DEF SaveNext, Unsaved
      <4>2. StoreTypeOK'
        BY <1>1, <2>3, <4>1 DEF StoreInv, StoreTypeOK, Unsaved
      <4> QED
        BY <1>1, <1>2, <2>3, <2>4, <4>1, <4>2 DEF StoreInv
    <3>2. Written'
      BY <2>1, <2>3, <2>4, PartsDiffer DEF Written, SaveNext
    <3> QED
      BY <3>1, <3>2 DEF SaveNext
<1>5. CASE Head(unsaved) = "manifest"
  <2>1. unsaved = <<"manifest">> /\ unsaved' = <<>>
    BY <1>5, NextFile DEF SaveNext, Saved, StoreInv
  <2>2. files' = [files EXCEPT !["manifest"] = table.embedder]
    <3>1. Contents["manifest"] = table.embedder
      BY DEF Contents
    <3>2. files' = [files EXCEPT !["manifest"] = Contents["manifest"]]
      BY <1>5 DEF SaveNext
    <3> QED
      BY <3>1, <3>2
  <2>3. files' = [embeddings |-> files.embeddings, chunks |-> files.chunks,
                  manifest |-> table.embedder]
    BY <2>2 DEF StoreInv
  <2>4. files.embeddings = table.vectors /\ files.chunks = table.chunks
    BY <2>1, PartsDiffer DEF Written
  <2> QED
    <3>1. StoreInv'
      <4>1. table' = table /\ faults' = faults /\ unsaved' \in Unsaved
        BY <2>1 DEF SaveNext, Unsaved
      <4>2. StoreTypeOK'
        BY <1>1, <2>3, <4>1 DEF StoreInv, StoreTypeOK, Unsaved
      <4> QED
        BY <1>1, <1>2, <2>3, <2>4, <4>1, <4>2 DEF StoreInv
    <3>2. Written'
      BY <2>1, <2>3, <2>4, PartsDiffer DEF Written, SaveNext
    <3> QED
      BY <3>1, <3>2 DEF SaveNext
<1> QED
  BY <1>3, <1>4, <1>5, NextFile DEF SaveNext, Saved, StoreInv

\* A file that is cut short, by an error or by a kill, or nothing written at all.
LEMMA CutShort ==
    ASSUME StoreInv, unsaved # <<>> => table \in Table /\ Written,
           \/ unsaved # <<>> /\ files' = [files EXCEPT ![Head(unsaved)] = Torn]
           \/ UNCHANGED files,
           table' \in {table, NotLoaded}, unsaved' = <<>>, faults' \in 0..MaxFaults
    PROVE  StoreInv'
<1>1. unsaved' \in Unsaved
  BY DEF Unsaved
<1>2. CASE UNCHANGED files
  BY <1>1, <1>2 DEF StoreInv, StoreTypeOK, Unsaved
<1>3. CASE unsaved # <<>> /\ files' = [files EXCEPT ![Head(unsaved)] = Torn]
  <2>1. table.chunks \in Seq(Chunk) /\ table.vectors \in Seq(Vector)
    BY <1>3 DEF Table
  <2>2. table.vectors # Missing /\ table.chunks # Missing /\ Torn # Missing
    BY <2>1, MarksAssumption DEF MarksAssumption
  <2>3. CASE Head(unsaved) = "embeddings"
    <3>1. files' = [embeddings |-> Torn, chunks |-> files.chunks, manifest |-> files.manifest]
      BY <1>3, <2>3 DEF StoreInv
    <3> QED
      BY <3>1, <1>1, <2>2 DEF StoreInv, StoreTypeOK, Unsaved
  <2>4. CASE Head(unsaved) = "chunks"
    <3>1. files' = [embeddings |-> files.embeddings, chunks |-> Torn, manifest |-> files.manifest]
      BY <1>3, <2>4 DEF StoreInv
    <3>2. files.embeddings = table.vectors
      BY <1>3, <2>4, NextFile, PartsDiffer DEF StoreInv, Written
    <3> QED
      BY <3>1, <3>2, <1>1, <2>2 DEF StoreInv, StoreTypeOK, Unsaved
  <2>5. CASE Head(unsaved) = "manifest"
    <3>1. files' = [embeddings |-> files.embeddings, chunks |-> files.chunks, manifest |-> Torn]
      BY <1>3, <2>5 DEF StoreInv
    <3>2. files.chunks = table.chunks
      BY <1>3, <2>5, NextFile, PartsDiffer DEF StoreInv, Written
    <3> QED
      BY <3>1, <3>2, <1>1, <2>2 DEF StoreInv, StoreTypeOK, Unsaved
  <2> QED
    BY <1>3, <2>3, <2>4, <2>5, NextFile DEF StoreInv
<1> QED
  BY <1>2, <1>3

-----------------------------------------------------------------------------
(* Inv is an invariant: one lemma per action or family of actions. *)

LEMMA RunFacts ==
    ASSUME Inv
    PROVE  /\ pc # "idle" => /\ table \in Table /\ table # NotLoaded
                             /\ run \in Runs /\ run # NoRun
           /\ pc = "idle" => run = NoRun /\ table = NotLoaded /\ Saved
           /\ unsaved # <<>> => pc \in Storing /\ Written /\ table \in Table
           /\ (pc # "idle" /\ run.todo # <<>>) =>
                 /\ Current \in Episodes /\ Tail(run.todo) \in Seq(Episodes)
                 /\ Slug[Current] \in Slugs
<1>1. /\ pc # "idle" => /\ table \in Table /\ table # NotLoaded
                        /\ run \in Runs /\ run # NoRun
      /\ pc = "idle" => run = NoRun /\ table = NotLoaded
  BY DEF Inv, TypeOK, StoreTypeOK
<1>2. /\ pc = "idle" => Saved
      /\ unsaved # <<>> => pc \in Storing /\ Written
  BY DEF Inv, RunInv, Saved, Storing
<1>3. ASSUME pc # "idle", run.todo # <<>>
      PROVE  /\ Current \in Episodes /\ Tail(run.todo) \in Seq(Episodes)
             /\ Slug[Current] \in Slugs
  <2>1. run.todo \in Seq(Episodes)
    BY <1>1, <1>3 DEF Runs
  <2> QED
    BY <2>1, <1>3 DEF Current, Slugs
<1> QED
  BY <1>1, <1>2, <1>3 DEF Storing

\* Reporting on the current episode and going on.
LEMMA AdvanceInv ==
    ASSUME Inv, pc # "idle", run.todo # <<>>,
           NEW status \in {"skipped", "indexed", "empty", "failed"}, Advance(status),
           StoreInv', table' \in Table, unsaved' = <<>>,
           transcripts' \in [Slugs -> Transcript \cup {Missing, Torn}],
           \A s \in Slugs : transcripts'[s] \in Transcript => Slug[transcripts'[s].ep] = s,
           made' \in [Episodes -> SUBSET Chunk],
           \A e \in Episodes : \A c \in made'[e] : c.heard = run.transcriber,
           UNCHANGED <<runs, crashes>>
    PROVE  Inv'
<1>1. /\ run \in Runs /\ run' = [run EXCEPT !.todo = Tail(run.todo)] /\ pc' = "next"
      /\ Current \in Episodes /\ Tail(run.todo) \in Seq(Episodes)
      /\ report' = [report EXCEPT ![Current] = status]
  BY RunFacts DEF Advance
<1>2. run' \in Runs /\ run'.transcriber = run.transcriber
  BY <1>1 DEF Runs
<1>3. run' # NoRun /\ table' # NotLoaded
  BY <1>2, MarksAssumption, NothingAssumption DEF MarksAssumption, NothingAssumption
<1>4. report' \in [Episodes -> {"none", "skipped", "indexed", "empty", "failed"}]
  BY <1>1 DEF Inv, TypeOK
<1>5. RunTyped'
  BY <1>1, <1>2, <1>3, <1>4 DEF RunTyped, Inv, TypeOK
<1>6. TypeOK'
  BY <1>5 DEF TypeOK, RunTyped, StoreInv
<1>7. RunInv'
  BY <1>1 DEF RunInv, Working, Storing, Saved
<1>8. IndexedAfresh'
  BY <1>2 DEF IndexedAfresh
<1> QED
  BY <1>6, <1>7, <1>8 DEF Inv

\* The store is left alone.
LEMMA StoreUntouched ==
    ASSUME StoreInv, UNCHANGED storeVars
    PROVE  StoreInv'
BY DEF StoreInv, StoreTypeOK, storeVars, Unsaved

LEMMA InitInv ==
    Init => Inv
<1> SUFFICES ASSUME Init PROVE Inv
  OBVIOUS
<1> USE DEF Init, StoreInit
<1>1. StoreTypeOK
  BY NumpyStoreAssumption DEF StoreTypeOK, NumpyStoreAssumption
<1>2. StoreInv
  BY <1>1 DEF StoreInv, Unsaved
<1>3. RunTyped
  BY IngestAssumption DEF RunTyped, IngestAssumption
<1>4. TypeOK
  BY <1>1, <1>3 DEF TypeOK, RunTyped
<1>5. Missing \notin Transcript
  BY NothingAssumption DEF NothingAssumption
<1>6. RunInv /\ IndexedAfresh
  BY <1>5 DEF RunInv, Working, Storing, Saved, IndexedAfresh
<1> QED
  BY <1>2, <1>4, <1>6 DEF Inv

LEMMA StartInv ==
    ASSUME Inv, NEW m \in Embedders, NEW w \in Transcribers, NEW force \in BOOLEAN,
           NEW retranscribe \in BOOLEAN, NEW limit \in 1..Cardinality(Episodes),
           Start(m, w, force, retranscribe, limit)
    PROVE  Inv'
<1>1. StoreInv /\ Loads /\ Saved /\ pc = "idle" /\ table' = Loaded
  BY RunFacts DEF Start, Inv
<1>2. Loaded \in Table /\ DistinctIds(Loaded.chunks)
  BY <1>1, LoadedTyped
<1>3. StoreInv'
  BY <1>1, <1>2 DEF StoreInv, StoreTypeOK, Start, Unsaved
<1>4. run'.todo \in Seq(Episodes)
  BY EpisodesInOrder DEF Start
<1>5. EpisodesOf(Loaded.chunks) \subseteq Episodes
  <2>1. Loaded.chunks \in Seq(Chunk)
    BY <1>2 DEF Table
  <2>2. \A i \in DOMAIN Loaded.chunks : Loaded.chunks[i] \in Chunk
    BY <2>1
  <2> QED
    BY <2>2, ChunkTyped DEF EpisodesOf
<1>6. run' \in Runs
  BY <1>4, <1>5 DEF Start, Runs
<1>7. run' # NoRun /\ table' # NotLoaded
  BY <1>1, <1>2, <1>6, MarksAssumption, NothingAssumption
  DEF MarksAssumption, NothingAssumption
<1>8. runs' \in 0..MaxRuns
  BY IngestAssumption DEF Start, Inv, TypeOK, IngestAssumption
<1>9. RunTyped'
  BY <1>6, <1>7, <1>8 DEF RunTyped, Inv, TypeOK, Start
<1>10. TypeOK'
  BY <1>3, <1>9 DEF TypeOK, RunTyped, StoreInv
<1>11. RunInv'
  BY <1>1 DEF RunInv, Start, Working, Storing, Saved, Inv
<1>12. IndexedAfresh'
  BY DEF IndexedAfresh, Start
<1> QED
  BY <1>3, <1>10, <1>11, <1>12 DEF Inv

LEMMA StartRaisesInv ==
    ASSUME Inv, StartRaises
    PROVE  Inv'
<1>1. StoreInv'
  BY StoreUntouched DEF StartRaises, Inv
<1>2. runs' \in 0..MaxRuns
  BY IngestAssumption DEF StartRaises, Inv, TypeOK, IngestAssumption
<1>3. RunTyped'
  BY <1>2 DEF RunTyped, Inv, TypeOK, StartRaises, storeVars
<1>4. TypeOK'
  BY <1>1, <1>3 DEF TypeOK, RunTyped, StoreInv
<1>5. RunInv' /\ IndexedAfresh'
  BY DEF Inv, RunInv, IndexedAfresh, StartRaises, storeVars, Storing, Working, Saved
<1> QED
  BY <1>1, <1>4, <1>5 DEF Inv

\* Reports that leave the store and the transcripts alone.
LEMMA GoOnInv ==
    ASSUME Inv, Skip \/ TranscribeRaises \/ ChunkNothing \/ EmbedRaises
    PROVE  Inv'
<1>1. /\ pc # "idle" /\ run.todo # <<>> /\ Saved
      /\ UNCHANGED <<storeVars, transcripts, made, runs, crashes>>
  BY DEF Skip, TranscribeRaises, Takes, ChunkNothing, EmbedRaises, Inv, RunInv, Working, Storing
<1>2. StoreInv' /\ table' \in Table /\ unsaved' = <<>>
  BY <1>1, StoreUntouched, RunFacts DEF Inv, storeVars, Saved
<1>3. \A e \in Episodes : \A c \in made[e] : c.heard = run.transcriber
  BY <1>1 DEF Inv, IndexedAfresh
<1>4. /\ transcripts' \in [Slugs -> Transcript \cup {Missing, Torn}]
      /\ \A s \in Slugs : transcripts'[s] \in Transcript => Slug[transcripts'[s].ep] = s
      /\ made' \in [Episodes -> SUBSET Chunk]
  BY <1>1 DEF Inv, TypeOK, RunInv
<1>5. \E status \in {"skipped", "indexed", "empty", "failed"} : Advance(status)
  BY DEF Skip, TranscribeRaises, ChunkNothing, EmbedRaises
<1> QED
  BY <1>1, <1>2, <1>3, <1>4, <1>5, AdvanceInv

\* Steps of the run with the current episode, short of the store.
LEMMA ProceedInv ==
    ASSUME Inv, pc # "idle", run.todo # <<>>, Saved, UNCHANGED storeVars,
           run' \in Runs, run'.todo = run.todo, run'.transcriber = run.transcriber,
           pc' \in {"caching", "chunk", "embed"},
           pc' \in {"caching", "chunk"} =>
               /\ run'.transcript \in Transcript
               /\ run'.transcript.heard = run.transcriber
               /\ Slug[run'.transcript.ep] = Slug[Current],
           pc' = "embed" => InHand',
           transcripts' \in [Slugs -> Transcript \cup {Missing, Torn}],
           \A s \in Slugs : transcripts'[s] \in Transcript => Slug[transcripts'[s].ep] = s,
           UNCHANGED <<report, made, runs, crashes>>
    PROVE  Inv'
<1>1. StoreInv' /\ table' = table
  BY StoreUntouched DEF Inv, storeVars
<1>2. run' # NoRun /\ table' # NotLoaded
  BY <1>1, RunFacts, NothingAssumption DEF NothingAssumption
<1>3. RunTyped'
  BY <1>2 DEF RunTyped, Inv, TypeOK
<1>4. TypeOK'
  BY <1>1, <1>3 DEF TypeOK, RunTyped, StoreInv
<1>5. RunInv'
  BY DEF RunInv, storeVars, Storing, Working, Saved, Current
<1>6. IndexedAfresh'
  BY DEF Inv, IndexedAfresh
<1> QED
  BY <1>1, <1>4, <1>5, <1>6 DEF Inv

LEMMA UseCachedInv ==
    ASSUME Inv, UseCached
    PROVE  Inv'
<1>1. /\ pc # "idle" /\ run.todo # <<>> /\ Saved
      /\ run \in Runs /\ Slug[Current] \in Slugs
  BY RunFacts DEF UseCached, Takes, Inv, RunInv, Storing
<1>2. Cached \in Transcript /\ Cached.heard = run.transcriber /\ Slug[Cached.ep] = Slug[Current]
  BY <1>1 DEF UseCached, CacheServes, Cached, Inv, TypeOK, RunInv
<1>3. /\ run' \in Runs /\ run'.todo = run.todo /\ run'.transcriber = run.transcriber
      /\ run'.transcript = Cached
  BY <1>1, <1>2 DEF UseCached, Runs
<1> QED
  BY <1>1, <1>2, <1>3, ProceedInv DEF UseCached, Inv, TypeOK, RunInv

LEMMA TranscribeInv ==
    ASSUME Inv, Transcribe
    PROVE  Inv'
<1>1. /\ pc # "idle" /\ run.todo # <<>> /\ Saved /\ run \in Runs /\ Current \in Episodes
  BY RunFacts DEF Transcribe, Takes, Inv, RunInv, Storing
<1> DEFINE heard == [ep |-> Current, heard |-> run.transcriber]
<1>2. heard \in Transcript
  BY <1>1 DEF Transcript, Runs
<1>3. /\ run' \in Runs /\ run'.todo = run.todo /\ run'.transcriber = run.transcriber
      /\ run'.transcript = heard
  BY <1>1, <1>2 DEF Transcribe, Runs
<1> QED
  BY <1>1, <1>2, <1>3, ProceedInv DEF Transcribe, Inv, TypeOK, RunInv

LEMMA SaveTranscriptInv ==
    ASSUME Inv, SaveTranscript
    PROVE  Inv'
<1>1. /\ pc = "caching" /\ run.todo # <<>> /\ Saved
      /\ run \in Runs /\ Slug[Current] \in Slugs
      /\ run.transcript \in Transcript /\ run.transcript.heard = run.transcriber
      /\ Slug[run.transcript.ep] = Slug[Current]
  BY RunFacts DEF SaveTranscript, Inv, RunInv, Storing, Working
<1>2. transcripts' = [transcripts EXCEPT ![Slug[Current]] = run.transcript]
  BY DEF SaveTranscript
<1>3. transcripts' \in [Slugs -> Transcript \cup {Missing, Torn}]
  BY <1>1, <1>2 DEF Inv, TypeOK
<1>4. \A s \in Slugs : transcripts'[s] \in Transcript => Slug[transcripts'[s].ep] = s
  BY <1>1, <1>2 DEF Inv, TypeOK, RunInv
<1> QED
  BY <1>1, <1>3, <1>4, ProceedInv DEF SaveTranscript

LEMMA SaveTranscriptRaisesInv ==
    ASSUME Inv, SaveTranscriptRaises
    PROVE  Inv'
<1>1. /\ pc = "caching" /\ run.todo # <<>> /\ Saved /\ table \in Table
      /\ run \in Runs /\ Slug[Current] \in Slugs
  BY RunFacts DEF SaveTranscriptRaises, Inv, RunInv, Storing, Working
<1>2. faults' \in 0..MaxFaults
  BY NumpyStoreAssumption
  DEF SaveTranscriptRaises, Inv, TypeOK, StoreTypeOK, NumpyStoreAssumption
<1>3. StoreInv' /\ table' = table /\ unsaved' = <<>>
  BY <1>1, <1>2 DEF StoreInv, StoreTypeOK, Inv, SaveTranscriptRaises, Saved, Unsaved
<1>4. Torn \notin Transcript
  BY NothingAssumption DEF NothingAssumption
<1>5. /\ transcripts' \in [Slugs -> Transcript \cup {Missing, Torn}]
      /\ \A s \in Slugs : transcripts'[s] \in Transcript => Slug[transcripts'[s].ep] = s
  BY <1>1, <1>4 DEF SaveTranscriptRaises, Inv, TypeOK, RunInv
<1>6. /\ made' \in [Episodes -> SUBSET Chunk]
      /\ \A e \in Episodes : \A c \in made'[e] : c.heard = run.transcriber
  BY <1>1 DEF SaveTranscriptRaises, Inv, TypeOK, IndexedAfresh
<1> QED
  BY <1>1, <1>3, <1>5, <1>6, AdvanceInv DEF SaveTranscriptRaises

LEMMA ChunkTranscriptInv ==
    ASSUME Inv, NEW n \in 1..MaxChunks, ChunkTranscript(n)
    PROVE  Inv'
<1>1. /\ pc = "chunk" /\ run.todo # <<>> /\ Saved /\ run \in Runs
      /\ run.transcript \in Transcript /\ run.transcript.heard = run.transcriber
      /\ Slug[run.transcript.ep] = Slug[Current]
  BY RunFacts DEF ChunkTranscript, Inv, RunInv, Storing, Working
<1> DEFINE chunks == Version(run.transcript.ep, n, run.transcriber)
<1>2. run.transcript.ep \in Episodes /\ run.transcriber \in Transcribers
  BY <1>1 DEF Transcript, Runs
<1>3. chunks \subseteq Chunk
  BY <1>2, VersionTyped
<1>4. run' = [run EXCEPT !.chunks = chunks]
  BY <1>1 DEF ChunkTranscript, Version
<1> HIDE DEF chunks
<1>5. /\ run' \in Runs /\ run'.todo = run.todo /\ run'.transcriber = run.transcriber
      /\ run'.chunks = chunks
  BY <1>1, <1>3, <1>4 DEF Runs
<1>6. InHand'
  BY <1>1, <1>2, <1>5 DEF InHand, Current, chunks
<1> QED
  BY <1>1, <1>5, <1>6, ProceedInv DEF ChunkTranscript, Inv, TypeOK, RunInv

\* What a run has in hand can be stored.
LEMMA InHandTyped ==
    ASSUME Inv, pc \in {"embed", "upsert", "stored"}
    PROVE  /\ run.chunks \subseteq Chunk /\ run.chunks # {} /\ IsFiniteSet(run.chunks)
           /\ \A c, d \in run.chunks : Id(c) = Id(d) => c = d
           /\ \A c \in run.chunks : c.heard = run.transcriber /\ Slug[c.ep] = Slug[Current]
           /\ run.todo # <<>> /\ run \in Runs /\ run.embedder \in Embedders
<1>1. run \in Runs /\ run.transcriber \in Transcribers /\ run.embedder \in Embedders
  BY RunFacts DEF Runs
<1>2. run.todo # <<>> /\ InHand
  BY DEF Inv, RunInv, Working
<1>3. PICK e \in Episodes, n \in 1..MaxChunks :
          Slug[e] = Slug[Current] /\ run.chunks = Version(e, n, run.transcriber)
  BY <1>2 DEF InHand
<1> QED
  BY <1>1, <1>2, <1>3, VersionTyped

\* The store has changed the table and the run goes on to write it.
LEMMA WriteInv ==
    ASSUME Inv, pc # "idle", StoreInv', table' \in Table, unsaved' = PersistOrder,
           UNCHANGED <<run, report, transcripts, made, runs, crashes>>,
           pc' \in Storing, pc' # "stamp" => run.todo # <<>> /\ InHand,
           pc' = "stamp" => table'.embedder = run.embedder
    PROVE  Inv'
<1>1. run # NoRun /\ table' # NotLoaded
  BY RunFacts, MarksAssumption DEF MarksAssumption
<1>2. RunTyped'
  BY <1>1 DEF RunTyped, Inv, TypeOK, Storing
<1>3. TypeOK'
  BY <1>2 DEF TypeOK, RunTyped, StoreInv
<1>4. Written'
  BY PartsDiffer DEF Written
<1>5. RunInv'
  BY <1>4 DEF Inv, RunInv, Storing, Working, InHand, Current
<1>6. IndexedAfresh'
  BY DEF Inv, IndexedAfresh
<1> QED
  BY <1>3, <1>5, <1>6 DEF Inv

\* A step that ends with the episode reported and no other effect on the run.
LEMMA ReportInv ==
    ASSUME Inv, pc # "idle", run.todo # <<>>, Advance("failed"),
           StoreInv', table' \in Table, unsaved' = <<>>,
           UNCHANGED <<transcripts, made, runs, crashes>>
    PROVE  Inv'
<1>1. /\ transcripts' \in [Slugs -> Transcript \cup {Missing, Torn}]
      /\ \A s \in Slugs : transcripts'[s] \in Transcript => Slug[transcripts'[s].ep] = s
      /\ made' \in [Episodes -> SUBSET Chunk]
      /\ \A e \in Episodes : \A c \in made'[e] : c.heard = run.transcriber
  BY DEF Inv, TypeOK, RunInv, IndexedAfresh
<1> QED
  BY <1>1, AdvanceInv

LEMMA EmbedAndDeleteInv ==
    ASSUME Inv, EmbedAndDelete
    PROVE  Inv'
<1>1. /\ pc = "embed" /\ run.todo # <<>> /\ Saved /\ InHand
      /\ StoreInv /\ table \in Table /\ table # NotLoaded
  BY RunFacts DEF EmbedAndDelete, Inv, RunInv, Storing, Working
<1>2. CASE DeleteEpisode(Current) /\ pc' = "upsert" /\ UNCHANGED <<run, report>>
  <2>1. StoreInv' /\ table' \in Table
    BY <1>1, <1>2, DeleteEpisodeInv DEF EmbedAndDelete
  <2>2. unsaved' = PersistOrder
    BY <1>2 DEF DeleteEpisode
  <2> QED
    BY <1>1, <1>2, <2>1, <2>2, WriteInv DEF EmbedAndDelete, Storing
<1>3. CASE DeleteRaises(Current) /\ Advance("failed")
  <2>1. StoreInv' /\ table' = table /\ unsaved' = <<>>
    BY <1>1, <1>3, StoreUntouched DEF EmbedAndDelete, DeleteRaises, storeVars, Saved
  <2> QED
    BY <1>1, <1>3, <2>1, ReportInv DEF EmbedAndDelete
<1> QED
  BY <1>2, <1>3 DEF EmbedAndDelete

LEMMA UpsertChunksInv ==
    ASSUME Inv, UpsertChunks
    PROVE  Inv'
<1>1. /\ pc = "upsert" /\ run.todo # <<>> /\ Saved /\ InHand
      /\ StoreInv /\ table # NotLoaded
  BY RunFacts DEF UpsertChunks, Inv, RunInv, Storing, Working
<1>2. StoreInv' /\ table' \in Table
  BY <1>1, InHandTyped, UpsertInv DEF UpsertChunks
<1>3. CASE Upsert(run.chunks, run.embedder) /\ pc' = "stored" /\ UNCHANGED <<run, report>>
  <2>1. unsaved' = PersistOrder
    BY <1>3 DEF Upsert
  <2> QED
    BY <1>1, <1>2, <1>3, <2>1, WriteInv DEF UpsertChunks, Storing
<1>4. CASE UpsertRaises(run.chunks, run.embedder) /\ Advance("failed")
  <2>1. unsaved' = <<>>
    BY <1>1, <1>4 DEF UpsertRaises, Saved
  <2> QED
    BY <1>1, <1>2, <1>4, <2>1, ReportInv DEF UpsertChunks
<1> QED
  BY <1>3, <1>4 DEF UpsertChunks

LEMMA ReportIndexedInv ==
    ASSUME Inv, ReportIndexed
    PROVE  Inv'
<1>1. pc = "stored" /\ run.todo # <<>> /\ Saved /\ table \in Table /\ Current \in Episodes
  BY RunFacts DEF ReportIndexed, Inv, RunInv, Working
<1>2. StoreInv' /\ table' = table /\ unsaved' = <<>>
  BY <1>1, StoreUntouched DEF ReportIndexed, Inv, storeVars, Saved
<1>3. made' = [made EXCEPT ![Current] = run.chunks]
  BY DEF ReportIndexed
<1>4. /\ made' \in [Episodes -> SUBSET Chunk]
      /\ \A e \in Episodes : \A c \in made'[e] : c.heard = run.transcriber
  BY <1>1, <1>3, InHandTyped DEF Inv, TypeOK, IndexedAfresh
<1>5. /\ transcripts' \in [Slugs -> Transcript \cup {Missing, Torn}]
      /\ \A s \in Slugs : transcripts'[s] \in Transcript => Slug[transcripts'[s].ep] = s
  BY DEF ReportIndexed, Inv, TypeOK, RunInv
<1> QED
  BY <1>1, <1>2, <1>4, <1>5, AdvanceInv DEF ReportIndexed

LEMMA SaveInv ==
    ASSUME Inv, Save
    PROVE  Inv'
<1>1. unsaved # <<>> /\ pc \in Storing /\ Written /\ table \in Table /\ StoreInv
  BY RunFacts DEF Save, SaveNext, Saved, Inv
<1>2. StoreInv' /\ Written' /\ table' = table
  BY <1>1, SaveNextInv DEF Save
<1>3. RunTyped'
  BY <1>2 DEF RunTyped, Inv, TypeOK, Save, ingestVars
<1>4. TypeOK'
  BY <1>2, <1>3 DEF TypeOK, RunTyped, StoreInv
<1>5. RunInv'
  BY <1>1, <1>2 DEF Inv, RunInv, Save, ingestVars, InHand, Current, Working, Storing
<1>6. IndexedAfresh'
  BY DEF Inv, IndexedAfresh, Save, ingestVars
<1> QED
  BY <1>2, <1>4, <1>5, <1>6 DEF Inv

\* The run is over, or was killed.
LEMMA EndInv ==
    ASSUME Inv, StoreInv', pc' = "idle", run' = NoRun, table' = NotLoaded, unsaved' = <<>>,
           transcripts' \in [Slugs -> Transcript \cup {Missing, Torn}],
           \A s \in Slugs : transcripts'[s] \in Transcript => Slug[transcripts'[s].ep] = s,
           crashes' \in 0..MaxCrashes, UNCHANGED <<report, made, runs>>
    PROVE  Inv'
<1>1. RunTyped'
  BY DEF RunTyped, Inv, TypeOK
<1>2. TypeOK'
  BY <1>1 DEF TypeOK, RunTyped, StoreInv
<1>3. RunInv' /\ IndexedAfresh'
  BY DEF RunInv, IndexedAfresh, Working, Storing, Saved
<1> QED
  BY <1>2, <1>3 DEF Inv

LEMMA SaveFailsInv ==
    ASSUME Inv, SaveFails
    PROVE  Inv'
<1>1. unsaved # <<>> /\ pc \in Storing /\ Written /\ table \in Table /\ StoreInv
  BY RunFacts DEF SaveFails, SaveRaises, Saved, Inv
<1>2. faults' \in 0..MaxFaults
  BY NumpyStoreAssumption
  DEF SaveFails, SaveRaises, Inv, TypeOK, StoreTypeOK, NumpyStoreAssumption
<1>3. unsaved' = <<>> /\ table' \in {table, NotLoaded}
  BY DEF SaveFails, SaveRaises
<1>4. StoreInv'
  BY <1>1, <1>2, <1>3, CutShort DEF SaveFails, SaveRaises
<1>5. CASE pc = "stamp"
  BY <1>3, <1>4, <1>5, EndInv DEF SaveFails, Inv, TypeOK, RunInv
<1>6. CASE pc # "stamp"
  <2>1. run.todo # <<>> /\ pc # "idle"
    BY <1>1, <1>6 DEF Inv, RunInv, Storing, Working
  <2>2. Advance("failed") /\ table' = table
    BY <1>6 DEF SaveFails
  <2> QED
    BY <1>1, <1>3, <1>4, <2>1, <2>2, ReportInv DEF SaveFails
<1> QED
  BY <1>5, <1>6

LEMMA StampInv ==
    ASSUME Inv, Stamp
    PROVE  Inv'
<1>1. pc = "next" /\ StoreInv /\ table # NotLoaded /\ run.embedder \in Embedders
  BY RunFacts DEF Stamp, Inv, Runs
<1>2. StoreInv' /\ table' \in Table /\ table'.embedder = run.embedder
  BY <1>1, SetManifestInv DEF Stamp
<1>3. unsaved' = PersistOrder
  BY DEF Stamp, SetManifest
<1> QED
  BY <1>1, <1>2, <1>3, WriteInv DEF Stamp, Storing

LEMMA FinishInv ==
    ASSUME Inv, Finish
    PROVE  Inv'
<1>1. StoreInv'
  BY DEF Finish, Inv, StoreInv, StoreTypeOK, Unsaved
<1> QED
  BY <1>1, EndInv DEF Finish, Saved, Inv, TypeOK, RunInv

LEMMA CrashInv ==
    ASSUME Inv, Crash
    PROVE  Inv'
<1>1. /\ StoreInv /\ table' = NotLoaded /\ unsaved' = <<>> /\ faults' \in 0..MaxFaults
      /\ unsaved # <<>> => table \in Table /\ Written
      /\ \/ unsaved # <<>> /\ files' = [files EXCEPT ![Head(unsaved)] = Torn]
         \/ UNCHANGED files
  BY RunFacts DEF Crash, StoreCrash, Saved, Inv, StoreInv, StoreTypeOK
<1>2. StoreInv'
  BY <1>1, CutShort
<1>3. pc = "caching" => Slug[Current] \in Slugs
  BY RunFacts DEF Inv, RunInv, Working
<1>4. Torn \notin Transcript
  BY NothingAssumption DEF NothingAssumption
<1>5. /\ transcripts' \in [Slugs -> Transcript \cup {Missing, Torn}]
      /\ \A s \in Slugs : transcripts'[s] \in Transcript => Slug[transcripts'[s].ep] = s
  BY <1>3, <1>4 DEF Crash, Inv, TypeOK, RunInv
<1>6. crashes' \in 0..MaxCrashes
  BY IngestAssumption DEF Crash, Inv, TypeOK, IngestAssumption
<1> QED
  BY <1>1, <1>2, <1>5, <1>6, EndInv DEF Crash

LEMMA StutterInv ==
    ASSUME Inv, UNCHANGED vars
    PROVE  Inv'
<1> USE DEF vars, ingestVars, storeVars
<1>1. StoreInv'
  BY StoreUntouched DEF Inv
<1>2. TypeOK'
  BY DEF Inv, TypeOK, StoreTypeOK
<1>3. RunInv'
  BY DEF Inv, RunInv, Storing, Working, Saved, Written, InHand, Current
<1>4. IndexedAfresh'
  BY DEF Inv, IndexedAfresh
<1> QED
  BY <1>1, <1>2, <1>3, <1>4 DEF Inv

LEMMA NextInv ==
    ASSUME Inv, [Next]_vars
    PROVE  Inv'
<1>1. ASSUME NEW m \in Embedders, NEW w \in Transcribers, NEW force \in BOOLEAN,
             NEW retranscribe \in BOOLEAN, NEW limit \in 1..Cardinality(Episodes),
             Start(m, w, force, retranscribe, limit)
      PROVE  Inv'
  BY <1>1, StartInv
<1>2. ASSUME NEW n \in 1..MaxChunks, ChunkTranscript(n)
      PROVE  Inv'
  BY <1>2, ChunkTranscriptInv
<1>3. CASE StartRaises
  BY <1>3, StartRaisesInv
<1>4. CASE Skip \/ TranscribeRaises \/ ChunkNothing \/ EmbedRaises
  BY <1>4, GoOnInv
<1>5. CASE UseCached \/ Transcribe
  BY <1>5, UseCachedInv, TranscribeInv
<1>6. CASE SaveTranscript \/ SaveTranscriptRaises
  BY <1>6, SaveTranscriptInv, SaveTranscriptRaisesInv
<1>7. CASE EmbedAndDelete \/ UpsertChunks \/ ReportIndexed
  BY <1>7, EmbedAndDeleteInv, UpsertChunksInv, ReportIndexedInv
<1>8. CASE Save \/ SaveFails
  BY <1>8, SaveInv, SaveFailsInv
<1>9. CASE Stamp \/ Finish \/ Crash
  BY <1>9, StampInv, FinishInv, CrashInv
<1>10. CASE UNCHANGED vars
  BY <1>10, StutterInv
<1> QED
  BY <1>1, <1>2, <1>3, <1>4, <1>5, <1>6, <1>7, <1>8, <1>9, <1>10 DEF Next

LEMMA InvHolds == Spec => []Inv
<1>1. Inv /\ [Next]_vars => Inv'
  BY NextInv
<1> QED
  BY InitInv, <1>1, PTL DEF Spec

\* The type invariant of the store, the run and the transcript cache.
THEOREM TypeCorrect == Spec => []TypeOK
<1>1. Inv => TypeOK
  BY DEF Inv
<1> QED
  BY InvHolds, <1>1, PTL

\* What a run indexes was heard by its own transcriber: the transcript cache
\* never serves another model or prompt, whatever was interrupted or failed.
THEOREM AlwaysIndexedAfresh == Spec => []IndexedAfresh
<1>1. Inv => IndexedAfresh
  BY DEF Inv
<1> QED
  BY InvHolds, <1>1, PTL

\* A run that reaches its end leaves on disk exactly what it had in memory,
\* under the name of its embedder, whichever writes failed before.
THEOREM AlwaysFinishedIsSaved == Spec => FinishedIsSaved
<1>1. ASSUME Inv, [Next]_vars, pc = "stamp", pc' = "idle", crashes' = crashes, faults' = faults
      PROVE  files = Contents /\ files.manifest = run.embedder
  <2>1. Finish
    <3>1. ~ Crash /\ ~ SaveFails
      BY <1>1 DEF Crash, SaveFails, SaveRaises, Inv, TypeOK, StoreTypeOK
    <3>2. pc # pc'
      BY <1>1
    <3> QED
      BY <1>1, <3>1, <3>2
      DEF Next, vars, ingestVars, Start, StartRaises, Skip, Takes, UseCached, Transcribe,
          TranscribeRaises, SaveTranscript, SaveTranscriptRaises, ChunkNothing,
          ChunkTranscript, EmbedRaises, EmbedAndDelete, UpsertChunks, ReportIndexed, Save,
          Stamp, Advance
  <2>2. Written /\ unsaved = <<>> /\ table.embedder = run.embedder
    BY <1>1, <2>1 DEF Finish, Saved, Inv, RunInv, Storing
  <2>3. /\ files.embeddings = table.vectors /\ files.chunks = table.chunks
        /\ files.manifest = table.embedder
    BY <2>2, PartsDiffer DEF Written
  <2> QED
    BY <1>1, <2>2, <2>3 DEF Contents, Inv, StoreInv
<1> DEFINE Ended == (pc = "stamp" /\ pc' = "idle" /\ crashes' = crashes /\ faults' = faults)
                        => files = Contents /\ files.manifest = run.embedder
<1>2. Inv /\ [Next]_vars => [Ended]_vars
  BY <1>1
<1>3. Spec => [][Ended]_vars
  BY InvHolds, <1>2, PTL DEF Spec
<1> QED
  BY <1>3, PTL DEF FinishedIsSaved

-----------------------------------------------------------------------------
(* While no write has raised: every vector stands beside its chunk, in memory *)
(* and on disk, provided that slugs tell the episodes apart and that all      *)
(* embedders give vectors of one length.                                      *)

SlugsDiffer == \A e, f \in Episodes : Slug[e] = Slug[f] => e = f
OneDimension == \A m, n \in Embedders : Dim[m] = Dim[n]

Aligned(chunks, vectors) ==
    /\ Len(vectors) = Len(chunks)
    /\ \A i \in DOMAIN chunks : vectors[i].of = chunks[i]

Sound(chunks, vectors) == Canonical(chunks, vectors) /\ Aligned(chunks, vectors)

TableSound ==
    table \in Table /\ DistinctIds(table.chunks) /\ Sound(table.chunks, table.vectors)

\* A sound table has as many chunks as rows, and none of them is out of reach.
LEMMA SoundTable ==
    ASSUME TableSound
    PROVE  /\ table.chunks \in Seq(Chunk) /\ table.vectors \in Seq(Vector)
           /\ DOMAIN table.chunks = 1..Len(table.chunks) /\ Len(table.chunks) \in Nat
           /\ RowsAt(DOMAIN table.chunks) = Rows(table.chunks, table.vectors)
           /\ IsFiniteSet(Rows(table.chunks, table.vectors))
           /\ Len(table.chunks) = Cardinality(Rows(table.chunks, table.vectors))
           /\ \A kept \in SUBSET DOMAIN table.chunks : Readable(kept)
<1> DEFINE all == DOMAIN table.chunks
           rows == Rows(table.chunks, table.vectors)
<1>1. /\ table.chunks \in Seq(Chunk) /\ table.vectors \in Seq(Vector)
      /\ all = 1..Len(table.chunks) /\ Len(table.chunks) \in Nat
      /\ Len(table.vectors) = Len(table.chunks)
  BY DEF TableSound, Table, Sound, Aligned
<1>2. \A kept \in SUBSET all : Readable(kept)
  BY <1>1 DEF Readable
<1>3. RowsAt(all) = rows
  BY DEF RowsAt, Rows
<1>4. rows \subseteq Row /\ IsFiniteSet(rows) /\ Keyed(rows)
  BY <1>2, <1>3, RowsReadBack DEF TableSound
<1>5. Cardinality(rows) \in Nat /\ DOMAIN Sorted(rows) = 1..Cardinality(rows)
  BY <1>4, SortedRows
<1>6. DOMAIN table.chunks = DOMAIN Sorted(rows)
  BY DEF TableSound, Sound, Canonical
<1>7. Len(table.chunks) = Cardinality(rows)
  BY <1>1, <1>5, <1>6
<1> QED
  BY <1>1, <1>2, <1>3, <1>4, <1>7

\* With one dimension every set of rows can be stacked.
LEMMA AlwaysStackable ==
    ASSUME OneDimension, NEW rows, rows \subseteq Row
    PROVE  Stackable(rows)
BY DEF Stackable, OneDimension, Row, Vector

\* delete_episode on a sound table.
LEMMA DeletedRows ==
    ASSUME OneDimension, TableSound, NEW e, DeleteEpisode(e)
    PROVE  /\ TableSound'
           /\ ToSet(table'.chunks) = {c \in ToSet(table.chunks) : c.ep # e}
           /\ table'.chunks = table.chunks \/ Len(table'.chunks) # Len(table.chunks)
<1> DEFINE kept == KeptByDelete(e)
           all == Rows(table.chunks, table.vectors)
           rows == RowsAt(kept)
<1>1. /\ table \in Table /\ DistinctIds(table.chunks)
      /\ Canonical(table.chunks, table.vectors) /\ Aligned(table.chunks, table.vectors)
  BY DEF TableSound, Sound
<1>2. kept \in SUBSET DOMAIN table.chunks /\ Readable(kept) /\ table' = Replaced(rows)
  BY DEF DeleteEpisode, KeptByDelete
<1>3. rows \subseteq Row /\ IsFiniteSet(rows) /\ Keyed(rows)
  <2> HIDE DEF kept
  <2> QED
    BY <1>1, <1>2, RowsReadBack
<1>4. Stackable(rows)
  BY <1>3, AlwaysStackable
<1> HIDE DEF rows
<1>5. /\ table' \in Table /\ DistinctIds(table'.chunks)
      /\ Len(table'.chunks) = Cardinality(rows)
      /\ \A i \in DOMAIN table'.chunks : \E r \in rows : r.chunk = table'.chunks[i]
      /\ \A r \in rows : \E i \in DOMAIN table'.chunks : table'.chunks[i] = r.chunk
      /\ Len(table'.vectors) = Len(table'.chunks)
      /\ Rows(table'.chunks, table'.vectors) = rows
      /\ Canonical(table'.chunks, table'.vectors)
  BY <1>1, <1>2, <1>3, <1>4, ReplacedTable
<1>6. Aligned(table'.chunks, table'.vectors)
  <2> SUFFICES ASSUME NEW i \in DOMAIN table'.chunks
               PROVE  table'.vectors[i].of = table'.chunks[i]
    BY <1>5 DEF Aligned
  <2>1. [chunk |-> table'.chunks[i], vector |-> table'.vectors[i]] \in rows
    BY <1>5 DEF Rows
  <2>2. PICK j \in kept : /\ table'.chunks[i] = table.chunks[j]
                          /\ table'.vectors[i] = table.vectors[j]
    BY <2>1 DEF rows, RowsAt
  <2> QED
    BY <2>2, <1>1, <1>2 DEF Aligned
<1>7. ToSet(table'.chunks) = {c \in ToSet(table.chunks) : c.ep # e}
  <2>1. \A r \in rows : \E j \in kept : r.chunk = table.chunks[j]
    BY DEF rows, RowsAt
  <2>2. ASSUME NEW j \in kept
        PROVE  \E r \in rows : r.chunk = table.chunks[j]
    <3>1. [chunk |-> table.chunks[j], vector |-> table.vectors[j]] \in rows
      BY DEF rows, RowsAt
    <3> QED
      BY <3>1
  <2>3. ToSet(table'.chunks) = {table.chunks[j] : j \in kept}
    BY <1>5, <2>1, <2>2 DEF ToSet
  <2> QED
    BY <2>3 DEF ToSet, KeptByDelete
<1>8. table'.chunks = table.chunks \/ Len(table'.chunks) # Len(table.chunks)
  <2>1. Len(table.chunks) = Cardinality(all) /\ IsFiniteSet(all)
        /\ RowsAt(DOMAIN table.chunks) = all
    BY SoundTable
  <2>2. rows \in SUBSET all
    BY <1>2, <2>1 DEF rows, RowsAt
  <2>3. CASE rows = all
    <3>1. table'.chunks = [i \in DOMAIN Sorted(rows) |-> Sorted(rows)[i].chunk]
      BY <1>5 DEF Canonical
    <3>2. table.chunks = [i \in DOMAIN Sorted(all) |-> Sorted(all)[i].chunk]
      BY <1>1 DEF Canonical
    <3> QED
      BY <2>3, <3>1, <3>2
  <2>4. CASE rows # all
    BY <1>5, <2>1, <2>2, <2>4, FS_Subset
  <2> QED
    BY <2>3, <2>4
<1> QED
  BY <1>5, <1>6, <1>7, <1>8 DEF TableSound, Sound

\* upsert of chunks whose ids the sound table does not have.
LEMMA UpsertedRows ==
    ASSUME OneDimension, TableSound, NEW m \in Embedders,
           NEW chunks, chunks \subseteq Chunk, chunks # {}, IsFiniteSet(chunks),
           \A c, d \in chunks : Id(c) = Id(d) => c = d,
           \A c \in chunks : \A i \in DOMAIN table.chunks : Id(c) # Id(table.chunks[i]),
           Upsert(chunks, m)
    PROVE  /\ TableSound'
           /\ ToSet(table'.chunks) = ToSet(table.chunks) \cup chunks
           /\ Len(table'.chunks) # Len(table.chunks)
<1> DEFINE kept == KeptByUpsert(chunks)
           all == Rows(table.chunks, table.vectors)
           rows == Merged(chunks, m)
<1>1. /\ table \in Table /\ DistinctIds(table.chunks)
      /\ Canonical(table.chunks, table.vectors) /\ Aligned(table.chunks, table.vectors)
  BY DEF TableSound, Sound
<1>2. kept = DOMAIN table.chunks
  BY DEF KeptByUpsert
<1>3. Readable(kept) /\ table' = Replaced(rows)
  BY DEF Upsert, Merged
<1>4. RowsAt(kept) = all /\ IsFiniteSet(all) /\ Len(table.chunks) = Cardinality(all)
  BY <1>2, SoundTable
<1>5. rows = all \cup UpsertRows(chunks, m)
  BY <1>4 DEF Merged
<1>6. rows \subseteq Row /\ IsFiniteSet(rows) /\ Keyed(rows)
  BY <1>1, <1>3, MergedRows
<1>7. Stackable(rows)
  BY <1>6, AlwaysStackable
<1> HIDE DEF rows
<1>8. /\ table' \in Table /\ DistinctIds(table'.chunks)
      /\ Len(table'.chunks) = Cardinality(rows)
      /\ \A i \in DOMAIN table'.chunks : \E r \in rows : r.chunk = table'.chunks[i]
      /\ \A r \in rows : \E i \in DOMAIN table'.chunks : table'.chunks[i] = r.chunk
      /\ Len(table'.vectors) = Len(table'.chunks)
      /\ Rows(table'.chunks, table'.vectors) = rows
      /\ Canonical(table'.chunks, table'.vectors)
  BY <1>1, <1>3, <1>6, <1>7, ReplacedTable
<1>9. \A r \in rows : r.vector.of = r.chunk
  <2>1. \A r \in all : r.vector.of = r.chunk
    BY <1>1 DEF Rows, Aligned
  <2>2. \A r \in UpsertRows(chunks, m) : r.vector.of = r.chunk
    BY DEF UpsertRows
  <2> QED
    BY <2>1, <2>2, <1>5
<1>10. Aligned(table'.chunks, table'.vectors)
  <2> SUFFICES ASSUME NEW i \in DOMAIN table'.chunks
               PROVE  table'.vectors[i].of = table'.chunks[i]
    BY <1>8 DEF Aligned
  <2>1. [chunk |-> table'.chunks[i], vector |-> table'.vectors[i]] \in rows
    BY <1>8 DEF Rows
  <2> QED
    BY <2>1, <1>9
<1>11. ToSet(table'.chunks) = ToSet(table.chunks) \cup chunks
  <2>1. \A r \in rows : r.chunk \in ToSet(table.chunks) \cup chunks
    BY <1>5 DEF Rows, UpsertRows, ToSet
  <2>2. ASSUME NEW i \in DOMAIN table.chunks
        PROVE  \E r \in rows : r.chunk = table.chunks[i]
    <3>1. [chunk |-> table.chunks[i], vector |-> table.vectors[i]] \in rows
      BY <1>5 DEF Rows
    <3> QED
      BY <3>1
  <2>3. ASSUME NEW c \in chunks
        PROVE  \E r \in rows : r.chunk = c
    <3>1. [chunk |-> c, vector |-> [of |-> c, by |-> m]] \in rows
      BY <1>5 DEF UpsertRows
    <3> QED
      BY <3>1
  <2> QED
    BY <1>8, <2>1, <2>2, <2>3 DEF ToSet
<1>12. Len(table'.chunks) # Len(table.chunks)
  <2>1. PICK c \in chunks : TRUE
    OBVIOUS
  <2>2. [chunk |-> c, vector |-> [of |-> c, by |-> m]] \in rows
    BY <1>5 DEF UpsertRows
  <2>3. [chunk |-> c, vector |-> [of |-> c, by |-> m]] \notin all
    BY DEF Rows
  <2>4. all \in SUBSET rows /\ all # rows
    BY <1>5, <2>2, <2>3
  <2> QED
    BY <1>4, <1>6, <1>8, <2>4, FS_Subset
<1> QED
  BY <1>8, <1>10, <1>11, <1>12 DEF TableSound, Sound

\* On disk: files whose counts agree belong together.
FilesSound ==
    (/\ files.chunks \notin {Missing, Torn} /\ files.embeddings # Torn
     /\ Len(files.chunks) = Len(files.embeddings))
      => Sound(files.chunks, files.embeddings)

InSync ==
    IF Exists THEN files.chunks = table.chunks /\ files.embeddings = table.vectors
              ELSE table.chunks = <<>>

\* While chunks.json is behind the table it cannot be mistaken for its chunks:
\* the vectors written first are more or fewer than it has chunks.
Apart ==
    \/ files.chunks = Missing
    \/ files.chunks = table.chunks
    \/ Len(files.chunks) # Len(table.chunks)

RunSound ==
    /\ Sound(table.chunks, table.vectors)
    /\ files.chunks # Torn
    /\ pc \notin Storing => InSync
    /\ unsaved \in {PersistOrder, <<"chunks", "manifest">>} => Apart
    /\ pc = "upsert" => Current \notin EpisodesOf(table.chunks)
    /\ pc = "stored" => Current \in EpisodesOf(table.chunks)

\* What was indexed when the run began and is not being replaced.
Kept == run.already \ AtRisk

RunKeeps ==
    /\ IF Exists THEN Kept \subseteq EpisodesOf(files.chunks) ELSE run.already = {}
    /\ Kept \subseteq EpisodesOf(table.chunks)

Undamaged == FilesSound /\ (pc # "idle" => RunSound /\ RunKeeps)
FaultInv == faults = 0 => Undamaged

LEMMA EmptySound == Sound(<<>>, <<>>)
<1>1. Rows(<<>>, <<>>) = {}
  BY DEF Rows
<1>2. Cardinality({}) = 0 /\ 1..0 = {}
  BY FS_EmptySet
<1>3. DOMAIN Sorted({}) = {}
  BY <1>2 DEF Sorted, Ordered
<1>4. Canonical(<<>>, <<>>)
  <2> DEFINE s == Sorted({})
  <2>1. DOMAIN s = {}
    BY <1>3
  <2> HIDE DEF s
  <2>2. <<>> = [i \in DOMAIN s |-> s[i].chunk] /\ <<>> = [i \in DOMAIN s |-> s[i].vector]
    BY <2>1
  <2> QED
    BY <1>1, <2>2 DEF Canonical, s
<1> QED
  BY <1>4 DEF Sound, Aligned

\* What holds of a run in progress.
LEMMA UndamagedFacts ==
    ASSUME Inv, Undamaged, pc # "idle"
    PROVE  /\ TableSound /\ RunSound /\ RunKeeps
           /\ table.chunks \in Seq(Chunk) /\ table.vectors \in Seq(Vector)
           /\ table.chunks \notin {Missing, Torn} /\ table.vectors \notin {Missing, Torn}
           /\ Exists <=> files.chunks # Missing
<1>1. table \in Table /\ DistinctIds(table.chunks)
  BY RunFacts DEF Inv, StoreInv
<1>2. table.chunks \in Seq(Chunk) /\ table.vectors \in Seq(Vector)
  BY <1>1 DEF Table
<1>3. table.chunks \notin {Missing, Torn} /\ table.vectors \notin {Missing, Torn}
  BY <1>2, MarksAssumption DEF MarksAssumption
<1>4. Exists <=> files.chunks # Missing
  BY DEF Exists, Inv, StoreInv
<1> QED
  BY <1>1, <1>2, <1>3, <1>4 DEF TableSound, Undamaged, RunSound

\* Episodes, seen through the set of chunks.
LEMMA EpisodesSeen ==
    ASSUME NEW chunks
    PROVE  EpisodesOf(chunks) = {c.ep : c \in ToSet(chunks)}
BY DEF EpisodesOf, ToSet

LEMMA StartUndamaged ==
    ASSUME Inv, Undamaged, NEW m \in Embedders, NEW w \in Transcribers, NEW force \in BOOLEAN,
           NEW retranscribe \in BOOLEAN, NEW limit \in 1..Cardinality(Episodes),
           Start(m, w, force, retranscribe, limit)
    PROVE  Undamaged'
<1>1. /\ Loads /\ table' = Loaded /\ files' = files /\ unsaved' = unsaved /\ pc' = "next"
      /\ run'.already = EpisodesOf(Loaded.chunks)
  BY DEF Start
<1>2. unsaved' = <<>>
  BY <1>1, RunFacts DEF Start, Saved
<1>3. FilesSound'
  BY <1>1 DEF Undamaged, FilesSound
<1>4. Sound(table'.chunks, table'.vectors) /\ files'.chunks # Torn /\ InSync'
  <2>1. CASE Exists
    <3>1. table'.chunks = files.chunks /\ table'.vectors = files.embeddings
      BY <1>1, <2>1 DEF Loaded
    <3>2. Sound(files.chunks, files.embeddings)
      BY <1>1, <2>1 DEF Undamaged, FilesSound, Loads, Exists
    <3> QED
      BY <1>1, <2>1, <3>1, <3>2 DEF Loads, InSync, Exists
  <2>2. CASE ~Exists
    <3>1. table'.chunks = <<>> /\ table'.vectors = <<>>
      BY <1>1, <2>2 DEF Loaded, EmptyTable
    <3>2. files.chunks = Missing
      BY <2>2 DEF Exists, Inv, StoreInv
    <3> QED
      BY <1>1, <2>2, <3>1, <3>2, EmptySound, MarksAssumption DEF InSync, Exists, MarksAssumption
  <2> QED
    BY <2>1, <2>2
<1>5. RunSound'
  BY <1>1, <1>2, <1>4, PartsDiffer DEF RunSound, Storing
<1>6. RunKeeps'
  <2>1. Kept' = EpisodesOf(Loaded.chunks)
    BY <1>1 DEF Kept, AtRisk
  <2>2. CASE Exists
    <3>1. Loaded.chunks = files.chunks
      BY <2>2 DEF Loaded
    <3>2. Exists'
      BY <1>1, <2>2 DEF Exists
    <3> QED
      BY <1>1, <2>1, <3>1, <3>2 DEF RunKeeps
  <2>3. CASE ~Exists
    <3>1. EpisodesOf(Loaded.chunks) = {}
      BY <2>3 DEF Loaded, EmptyTable, EpisodesOf
    <3>2. ~Exists'
      BY <1>1, <2>3 DEF Exists
    <3> QED
      BY <1>1, <2>1, <3>1, <3>2 DEF RunKeeps
  <2> QED
    BY <2>2, <2>3
<1> QED
  BY <1>3, <1>5, <1>6 DEF Undamaged

\* Steps that leave the store alone and are not about to write.
LEMMA QuietUndamaged ==
    ASSUME Inv, Undamaged, pc # "idle", pc \notin Storing, pc' \notin Storing,
           UNCHANGED storeVars, run'.already = run.already
    PROVE  Undamaged'
<1>1. RunSound /\ RunKeeps /\ unsaved = <<>>
  BY DEF Undamaged, Inv, RunInv, Saved
<1>2. UNCHANGED <<files, table, unsaved>>
  BY DEF storeVars
<1>3. Exists' = Exists /\ InSync' = InSync
  BY <1>2 DEF Exists, InSync
<1>4. FilesSound'
  BY <1>2 DEF Undamaged, FilesSound
<1>5. RunSound'
  BY <1>1, <1>2, <1>3, PartsDiffer DEF RunSound, Storing
<1>6. Kept' = Kept /\ AtRisk' = {}
  BY DEF Kept, AtRisk, Storing
<1>7. RunKeeps'
  BY <1>1, <1>2, <1>3, <1>6 DEF RunKeeps
<1> QED
  BY <1>4, <1>5, <1>7 DEF Undamaged

LEMMA EmbedAndDeleteUndamaged ==
    ASSUME OneDimension, Inv, Undamaged, EmbedAndDelete
    PROVE  Undamaged'
<1> DEFINE chunks == ToSet(table.chunks)
<1>1. pc = "embed" /\ pc # "idle" /\ files' = files
  BY DEF EmbedAndDelete
<1>2. /\ TableSound /\ RunSound /\ RunKeeps
      /\ Exists <=> files.chunks # Missing
  BY <1>1, UndamagedFacts
<1>3. DeleteEpisode(Current) /\ pc' = "upsert" /\ run' = run
  <2>1. Readable(KeptByDelete(Current))
    BY <1>2, SoundTable DEF KeptByDelete
  <2> QED
    BY <2>1 DEF EmbedAndDelete, DeleteRaises
<1>4. /\ TableSound'
      /\ ToSet(table'.chunks) = {c \in chunks : c.ep # Current}
      /\ table'.chunks = table.chunks \/ Len(table'.chunks) # Len(table.chunks)
  BY <1>2, <1>3, DeletedRows
<1>5. unsaved' = PersistOrder /\ Current' = Current
  BY <1>3 DEF DeleteEpisode, Current
<1>6. FilesSound'
  BY <1>1 DEF Undamaged, FilesSound
<1>7. EpisodesOf(table'.chunks) = EpisodesOf(table.chunks) \ {Current}
  BY <1>4, EpisodesSeen
<1>8. Apart'
  <2>1. files.chunks = Missing \/ files.chunks = table.chunks
    BY <1>1, <1>2 DEF RunSound, InSync, Storing
  <2> QED
    BY <1>1, <1>4, <2>1 DEF Apart
<1>9. RunSound'
  <2>1. files'.chunks # Torn /\ Sound(table'.chunks, table'.vectors)
    BY <1>1, <1>2, <1>4 DEF RunSound, TableSound
  <2> QED
    BY <1>3, <1>5, <1>7, <1>8, <2>1 DEF RunSound, Storing
<1>10. RunKeeps'
  <2>1. Kept = run.already /\ Kept' = run.already \ {Current}
    BY <1>1, <1>3, <1>5 DEF Kept, AtRisk
  <2>2. Exists' = Exists
    BY <1>1 DEF Exists
  <2> QED
    BY <1>1, <1>2, <1>3, <1>7, <2>1, <2>2 DEF RunKeeps
<1> QED
  BY <1>6, <1>9, <1>10 DEF Undamaged

\* Where slugs differ the chunks in hand are the current episode's own.
LEMMA OwnChunks ==
    ASSUME SlugsDiffer, Inv, pc \in {"embed", "upsert", "stored"}
    PROVE  /\ run.chunks \subseteq Chunk /\ run.chunks # {} /\ IsFiniteSet(run.chunks)
           /\ \A c, d \in run.chunks : Id(c) = Id(d) => c = d
           /\ \A c \in run.chunks : c.ep = Current
           /\ run.embedder \in Embedders
           /\ Current \in Episodes
           /\ \E n \in 1..MaxChunks : run.chunks = Version(Current, n, run.transcriber)
<1>1. run \in Runs /\ run.todo # <<>> /\ Current \in Episodes
  BY RunFacts DEF Inv, RunInv, Working
<1>2. run.transcriber \in Transcribers /\ run.embedder \in Embedders
  BY <1>1 DEF Runs
<1>3. PICK e \in Episodes, n \in 1..MaxChunks :
        Slug[e] = Slug[Current] /\ run.chunks = Version(e, n, run.transcriber)
  BY DEF Inv, RunInv, InHand
<1>4. e = Current
  BY <1>1, <1>3 DEF SlugsDiffer
<1> QED
  BY <1>1, <1>2, <1>3, <1>4, VersionTyped

\* None of them has the id of a row where the current episode has no row.
LEMMA StrangeIds ==
    ASSUME SlugsDiffer, Inv, pc = "upsert", Current \notin EpisodesOf(table.chunks)
    PROVE  \A c \in run.chunks : \A i \in DOMAIN table.chunks : Id(c) # Id(table.chunks[i])
<1> SUFFICES ASSUME NEW c \in run.chunks, NEW i \in DOMAIN table.chunks
             PROVE  Id(c) # Id(table.chunks[i])
  OBVIOUS
<1>1. c.ep = Current /\ Current \in Episodes
  BY OwnChunks
<1>2. table.chunks \in Seq(Chunk)
  BY RunFacts DEF Table
<1>3. table.chunks[i].ep \in Episodes
  BY <1>2, ChunkTyped
<1>4. table.chunks[i].ep # Current
  BY DEF EpisodesOf
<1> QED
  BY <1>1, <1>3, <1>4 DEF SlugsDiffer, Id

\* A sound table lets no upsert raise where there is one dimension.
LEMMA UpsertSucceeds ==
    ASSUME OneDimension, TableSound, NEW m \in Embedders,
           NEW chunks, chunks \subseteq Chunk, IsFiniteSet(chunks),
           \A c, d \in chunks : Id(c) = Id(d) => c = d
    PROVE  ~ UpsertRaises(chunks, m)
<1>1. Readable(KeptByUpsert(chunks))
  BY SoundTable DEF KeptByUpsert
<1>2. Merged(chunks, m) \subseteq Row
  BY <1>1, MergedRows DEF TableSound
<1>3. Stackable(Merged(chunks, m))
  BY <1>2, AlwaysStackable
<1> QED
  BY <1>1, <1>3 DEF UpsertRaises, Merged

LEMMA UpsertChunksUndamaged ==
    ASSUME SlugsDiffer, OneDimension, Inv, Undamaged, UpsertChunks
    PROVE  Undamaged'
<1>1. pc = "upsert" /\ pc # "idle" /\ Saved /\ files' = files
  BY DEF UpsertChunks
<1>2. TableSound /\ RunSound /\ RunKeeps
  BY <1>1, UndamagedFacts
<1>3. /\ run.chunks \subseteq Chunk /\ run.chunks # {} /\ IsFiniteSet(run.chunks)
      /\ \A c, d \in run.chunks : Id(c) = Id(d) => c = d
      /\ \A c \in run.chunks : c.ep = Current
      /\ run.embedder \in Embedders /\ Current \in Episodes
  BY <1>1, OwnChunks
<1>4. \A c \in run.chunks : \A i \in DOMAIN table.chunks : Id(c) # Id(table.chunks[i])
  BY <1>1, <1>2, <1>3, StrangeIds DEF RunSound
<1>5. Upsert(run.chunks, run.embedder) /\ pc' = "stored" /\ run' = run
  BY <1>2, <1>3, UpsertSucceeds DEF UpsertChunks
<1>6. /\ TableSound'
      /\ ToSet(table'.chunks) = ToSet(table.chunks) \cup run.chunks
      /\ Len(table'.chunks) # Len(table.chunks)
  BY <1>2, <1>3, <1>4, <1>5, UpsertedRows
<1>7. files.chunks = table.chunks /\ Current' = Current
  BY <1>1, <1>5 DEF Inv, RunInv, Written, Storing, Saved, Current
<1>8. FilesSound' /\ Exists' = Exists
  BY <1>1 DEF Undamaged, FilesSound, Exists
<1>9. EpisodesOf(table'.chunks) = EpisodesOf(table.chunks) \cup {Current}
  BY <1>3, <1>6, EpisodesSeen
<1>10. RunSound'
  <2>1. Apart'
    BY <1>1, <1>6, <1>7 DEF Apart
  <2>2. files'.chunks # Torn /\ Sound(table'.chunks, table'.vectors)
    BY <1>1, <1>2, <1>6 DEF RunSound, TableSound
  <2> QED
    BY <1>5, <1>7, <1>9, <2>1, <2>2 DEF RunSound, Storing
<1>11. RunKeeps'
  <2>1. Kept' = Kept
    BY <1>1, <1>5, <1>7 DEF Kept, AtRisk
  <2> QED
    BY <1>1, <1>2, <1>5, <1>8, <1>9, <2>1 DEF RunKeeps
<1> QED
  BY <1>8, <1>10, <1>11 DEF Undamaged

LEMMA ReportIndexedUndamaged ==
    ASSUME Inv, Undamaged, ReportIndexed
    PROVE  Undamaged'
<1>1. /\ pc = "stored" /\ pc # "idle" /\ unsaved = <<>> /\ pc' = "next"
      /\ UNCHANGED <<files, table, unsaved>> /\ run' = [run EXCEPT !.todo = Tail(@)]
  BY DEF ReportIndexed, Saved, Advance, storeVars
<1>2. run'.already = run.already
  BY <1>1, RunFacts DEF Runs
<1>3. /\ RunSound /\ RunKeeps /\ table.chunks # Missing /\ table.vectors # Missing
  BY <1>1, UndamagedFacts
<1>4. files.chunks = table.chunks /\ files.embeddings = table.vectors
  BY <1>1, PartsDiffer DEF Inv, RunInv, Written, Storing
<1>5. Exists' /\ InSync'
  BY <1>1, <1>3, <1>4 DEF Exists, InSync
<1>6. FilesSound'
  BY <1>1 DEF Undamaged, FilesSound
<1>7. RunSound'
  BY <1>1, <1>3, <1>5, PartsDiffer DEF RunSound, Storing
<1>8. RunKeeps'
  <2>1. Kept = run.already \ {Current} /\ Kept' = run.already
    BY <1>1, <1>2 DEF Kept, AtRisk
  <2>2. Current \in EpisodesOf(table.chunks) /\ Kept \subseteq EpisodesOf(table.chunks)
    BY <1>1, <1>3 DEF RunSound, RunKeeps
  <2> QED
    BY <1>1, <1>4, <1>5, <2>1, <2>2 DEF RunKeeps
<1> QED
  BY <1>6, <1>7, <1>8 DEF Undamaged

LEMMA SaveUndamaged ==
    ASSUME Inv, Undamaged, Save
    PROVE  Undamaged'
<1>1. /\ SaveNext /\ UNCHANGED <<run, pc>> /\ table' = table /\ unsaved # <<>>
      /\ Current' = Current /\ Kept' = Kept
  BY DEF Save, SaveNext, ingestVars, Saved, Current, Kept, AtRisk
<1>2. pc \in Storing /\ pc # "idle" /\ Written /\ unsaved \in Unsaved
  BY <1>1, RunFacts DEF Storing, Inv, StoreInv
<1>3. /\ RunSound /\ RunKeeps /\ Sound(table.chunks, table.vectors)
      /\ table.chunks \notin {Missing, Torn} /\ table.vectors \notin {Missing, Torn}
      /\ Exists <=> files.chunks # Missing
  BY <1>2, UndamagedFacts DEF RunSound
<1>4. files = [embeddings |-> files.embeddings, chunks |-> files.chunks, manifest |-> files.manifest]
  BY DEF Inv, StoreInv
<1>5. CASE Head(unsaved) = "embeddings"
  <2>1. unsaved = PersistOrder /\ unsaved' = <<"chunks", "manifest">>
    BY <1>1, <1>2, <1>5, NextFile DEF SaveNext
  <2>2. files'.embeddings = table.vectors /\ files'.chunks = files.chunks
    <3>1. files' = [files EXCEPT !["embeddings"] = Contents["embeddings"]]
      BY <1>1, <1>5 DEF SaveNext
    <3>2. Contents["embeddings"] = table.vectors
      BY DEF Contents
    <3> QED
      BY <1>4, <3>1, <3>2
  <2>3. Apart
    BY <1>3, <2>1 DEF RunSound
  <2>4. FilesSound'
    <3>1. ASSUME files'.chunks # Missing, Len(files'.chunks) = Len(files'.embeddings)
          PROVE  Sound(files'.chunks, files'.embeddings)
      <4>1. files.chunks = table.chunks
        BY <1>3, <2>2, <2>3, <3>1 DEF Apart, Sound, Aligned
      <4> QED
        BY <1>3, <2>2, <4>1
    <3> QED
      BY <3>1 DEF FilesSound
  <2>5. Exists' = Exists
    BY <1>3, <2>2 DEF Exists
  <2>6. RunSound'
    BY <1>1, <1>2, <1>3, <2>2, <2>3 DEF RunSound, Apart
  <2>7. RunKeeps'
    BY <1>1, <1>3, <2>2, <2>5 DEF RunKeeps
  <2> QED
    BY <2>4, <2>6, <2>7 DEF Undamaged
<1>6. CASE Head(unsaved) = "chunks"
  <2>1. unsaved = <<"chunks", "manifest">> /\ unsaved' = <<"manifest">>
    BY <1>1, <1>2, <1>6, NextFile DEF SaveNext
  <2>2. files'.embeddings = files.embeddings /\ files'.chunks = table.chunks
    <3>1. files' = [files EXCEPT !["chunks"] = Contents["chunks"]]
      BY <1>1, <1>6 DEF SaveNext
    <3>2. Contents["chunks"] = table.chunks
      BY DEF Contents
    <3> QED
      BY <1>4, <3>1, <3>2
  <2>3. files.embeddings = table.vectors
    BY <1>2, <2>1, PartsDiffer DEF Written
  <2>4. FilesSound' /\ Exists'
    BY <1>3, <2>2, <2>3 DEF FilesSound, Exists
  <2>5. RunSound'
    BY <1>1, <1>2, <1>3, <2>1, <2>2, PartsDiffer DEF RunSound
  <2>6. RunKeeps'
    BY <1>1, <1>3, <2>2, <2>4 DEF RunKeeps
  <2> QED
    BY <2>4, <2>5, <2>6 DEF Undamaged
<1>7. CASE Head(unsaved) = "manifest"
  <2>1. unsaved = <<"manifest">> /\ unsaved' = <<>>
    BY <1>1, <1>2, <1>7, NextFile DEF SaveNext
  <2>2. files'.embeddings = files.embeddings /\ files'.chunks = files.chunks
    <3>1. files' = [files EXCEPT !["manifest"] = Contents["manifest"]]
      BY <1>1, <1>7 DEF SaveNext
    <3> QED
      BY <1>4, <3>1
  <2>3. FilesSound' /\ Exists' = Exists
    BY <2>2 DEF Undamaged, FilesSound, Exists
  <2>4. RunSound'
    BY <1>1, <1>2, <1>3, <2>1, <2>2, PartsDiffer DEF RunSound
  <2>5. RunKeeps'
    BY <1>1, <1>3, <2>2, <2>3 DEF RunKeeps
  <2> QED
    BY <2>3, <2>4, <2>5 DEF Undamaged
<1> QED
  BY <1>1, <1>2, <1>5, <1>6, <1>7, NextFile

LEMMA StampUndamaged ==
    ASSUME Inv, Undamaged, Stamp
    PROVE  Undamaged'
<1>1. /\ pc = "next" /\ pc # "idle" /\ pc' = "stamp" /\ UNCHANGED <<files, run>>
      /\ SetManifest(run.embedder)
  BY DEF Stamp
<1>2. RunSound /\ RunKeeps /\ InSync /\ table \in Table /\ (Exists <=> files.chunks # Missing)
  BY <1>1, UndamagedFacts DEF RunSound, TableSound, Storing
<1>3. /\ table'.chunks = table.chunks /\ table'.vectors = table.vectors
      /\ unsaved' = PersistOrder
  BY <1>1, <1>2 DEF SetManifest, Table
<1>4. FilesSound' /\ Exists' = Exists
  BY <1>1 DEF Undamaged, FilesSound, Exists
<1>5. Apart'
  BY <1>1, <1>2, <1>3 DEF Apart, InSync
<1>6. RunSound'
  BY <1>1, <1>2, <1>3, <1>5 DEF RunSound, Storing
<1>7. Kept' = Kept
  BY <1>1 DEF Kept, AtRisk
<1>8. RunKeeps'
  BY <1>1, <1>2, <1>3, <1>4, <1>7 DEF RunKeeps
<1> QED
  BY <1>4, <1>6, <1>8 DEF Undamaged

LEMMA CrashUndamaged ==
    ASSUME Inv, Undamaged, Crash
    PROVE  Undamaged'
<1>1. /\ pc' = "idle" /\ files = [embeddings |-> files.embeddings, chunks |-> files.chunks,
                                  manifest |-> files.manifest]
  BY DEF Crash, Inv, StoreInv
<1>2. \/ unsaved # <<>> /\ files' = [files EXCEPT ![Head(unsaved)] = Torn]
      \/ files' = files
  BY DEF Crash, StoreCrash, Saved
<1>3. \/ files'.embeddings = Torn \/ files'.chunks = Torn
      \/ files'.embeddings = files.embeddings /\ files'.chunks = files.chunks
  <2>1. unsaved # <<>> => Head(unsaved) \in {"embeddings", "chunks", "manifest"}
    BY NextFile DEF Inv, StoreInv
  <2> QED
    BY <1>1, <1>2, <2>1
<1>4. FilesSound'
  <2>1. CASE files'.embeddings = Torn \/ files'.chunks = Torn
    BY <2>1 DEF FilesSound
  <2>2. CASE files'.embeddings = files.embeddings /\ files'.chunks = files.chunks
    BY <2>2 DEF Undamaged, FilesSound
  <2> QED
    BY <1>3, <2>1, <2>2
<1> QED
  BY <1>1, <1>4 DEF Undamaged

\* No step makes an aligned index misaligned unless a write raises.
LEMMA NextFaultInv ==
    ASSUME SlugsDiffer, OneDimension, Inv, FaultInv, [Next]_vars
    PROVE  FaultInv'
<1>1. SUFFICES ASSUME faults' = 0
               PROVE  Undamaged'
  BY DEF FaultInv
<1>2. faults \in Nat
  BY DEF Inv, StoreInv, StoreTypeOK
<1>3. ~ SaveTranscriptRaises /\ ~ SaveFails
  BY <1>1, <1>2 DEF SaveTranscriptRaises, SaveFails, SaveRaises
<1>4. CASE UNCHANGED <<storeVars, pc, run>>
  <2>1. UNCHANGED <<files, table, unsaved, faults, pc, run>>
    BY <1>4 DEF storeVars
  <2>2. Undamaged
    BY <1>1, <2>1 DEF FaultInv
  <2>3. FilesSound'
    BY <2>1, <2>2 DEF Undamaged, FilesSound
  <2>4. RunSound => RunSound'
    BY <2>1 DEF RunSound, Storing, InSync, Exists, Apart, Current
  <2>5. RunKeeps => RunKeeps'
    BY <2>1 DEF RunKeeps, Kept, AtRisk, Exists, Current
  <2> QED
    BY <2>1, <2>2, <2>3, <2>4, <2>5 DEF Undamaged
<1>5. CASE Skip \/ TranscribeRaises \/ ChunkNothing \/ EmbedRaises \/ UseCached \/ Transcribe
           \/ SaveTranscript \/ \E n \in 1..MaxChunks : ChunkTranscript(n)
  <2>1. /\ pc # "idle" /\ pc \notin Storing /\ pc' \notin Storing /\ UNCHANGED storeVars
        /\ \/ run' = [run EXCEPT !.todo = Tail(@)]
           \/ \E t \in {Cached, [ep |-> Current, heard |-> run.transcriber]} :
                run' = [run EXCEPT !.transcript = t]
           \/ \E c : run' = [run EXCEPT !.chunks = c]
           \/ run' = run
    BY <1>5 DEF Skip, Takes, TranscribeRaises, ChunkNothing, EmbedRaises, UseCached,
                Transcribe, SaveTranscript, ChunkTranscript, Advance, Storing
  <2>2. run'.already = run.already
    BY <2>1, RunFacts DEF Runs
  <2>3. Undamaged
    BY <1>1, <2>1 DEF FaultInv, storeVars
  <2> QED
    BY <2>1, <2>2, <2>3, QuietUndamaged
<1>6. CASE Finish
  <2>1. pc' = "idle" /\ files' = files /\ Undamaged
    BY <1>1, <1>6 DEF Finish, FaultInv
  <2> QED
    BY <2>1 DEF Undamaged, FilesSound
<1>7. ASSUME NEW m \in Embedders, NEW w \in Transcribers, NEW force \in BOOLEAN,
             NEW retranscribe \in BOOLEAN, NEW limit \in 1..Cardinality(Episodes),
             Start(m, w, force, retranscribe, limit)
      PROVE  Undamaged'
  BY <1>1, <1>7, StartUndamaged DEF Start, FaultInv
<1>8. CASE EmbedAndDelete
  BY <1>1, <1>8, EmbedAndDeleteUndamaged DEF EmbedAndDelete, FaultInv
<1>9. CASE UpsertChunks
  BY <1>1, <1>9, UpsertChunksUndamaged DEF UpsertChunks, FaultInv
<1>10. CASE ReportIndexed
  BY <1>1, <1>10, ReportIndexedUndamaged DEF ReportIndexed, storeVars, FaultInv
<1>11. CASE Save
  BY <1>1, <1>11, SaveUndamaged DEF Save, SaveNext, FaultInv
<1>12. CASE Stamp
  BY <1>1, <1>12, StampUndamaged DEF Stamp, FaultInv
<1>13. CASE Crash
  BY <1>1, <1>13, CrashUndamaged DEF Crash, StoreCrash, FaultInv
<1>14. CASE StartRaises \/ UNCHANGED vars
  BY <1>4, <1>14 DEF StartRaises, vars, ingestVars
<1> QED
  BY <1>3, <1>5, <1>6, <1>7, <1>8, <1>9, <1>10, <1>11, <1>12, <1>13, <1>14 DEF Next

LEMMA FaultInvHolds ==
    ASSUME SlugsDiffer, OneDimension
    PROVE  Spec => []FaultInv
<1>1. Init => FaultInv
  BY DEF Init, StoreInit, FaultInv, Undamaged, FilesSound
<1>2. Inv /\ FaultInv /\ [Next]_vars => FaultInv'
  BY NextFaultInv
<1> QED
  BY InvHolds, <1>1, <1>2, PTL DEF Spec

\* A server that starts on the files at any instant, in the middle of a run or
\* behind a kill at any write, pairs every chunk with its own vector, provided
\* that slugs tell the episodes apart, all embedders give vectors of one length
\* and no write has raised.
THEOREM AlwaysServedAligned ==
    ASSUME SlugsDiffer, OneDimension
    PROVE  Spec => [](faults = 0 => ServedAligned)
<1>1. ASSUME Inv, FaultInv, faults = 0
      PROVE  ServedAligned
  <2> SUFFICES ASSUME NEW m \in Embedders, Boots(m), NEW i \in DOMAIN Loaded.chunks
               PROVE  i \in DOMAIN Loaded.vectors /\ Loaded.vectors[i].of = Loaded.chunks[i]
    BY DEF ServedAligned
  <2>1. CASE ~Exists
    BY <2>1 DEF Loaded, EmptyTable
  <2>2. CASE Exists
    <3>1. Loaded.chunks = files.chunks /\ Loaded.vectors = files.embeddings
      BY <2>2 DEF Loaded
    <3>2. /\ files.chunks \notin {Missing, Torn} /\ files.embeddings \notin {Missing, Torn}
          /\ Len(files.chunks) = Len(files.embeddings)
      BY <2>2 DEF Boots, Loads, Exists
    <3>3. Aligned(files.chunks, files.embeddings)
      BY <1>1, <3>2 DEF FaultInv, Undamaged, FilesSound, Sound
    <3>4. files.chunks \in Seq(Chunk) /\ files.embeddings \in Seq(Vector)
      BY <1>1, <3>2 DEF Inv, StoreInv, StoreTypeOK
    <3> QED
      BY <3>1, <3>3, <3>4 DEF Aligned
  <2> QED
    BY <2>1, <2>2
<1> QED
  BY InvHolds, FaultInvHolds, <1>1, PTL

\* Whatever raises or is killed, an episode that was indexed when the run began
\* can be missing from a readable index only while it is being replaced, under
\* the same conditions.
THEOREM AlwaysOnlyCurrentAtRisk ==
    ASSUME SlugsDiffer, OneDimension
    PROVE  Spec => [](faults = 0 => OnlyCurrentAtRisk)
<1>1. ASSUME Inv, FaultInv, faults = 0
      PROVE  OnlyCurrentAtRisk
  <2> SUFFICES ASSUME pc # "idle", Loads
               PROVE  Kept \subseteq EpisodesOf(Loaded.chunks)
    BY DEF OnlyCurrentAtRisk, Kept
  <2>1. RunKeeps
    BY <1>1 DEF FaultInv, Undamaged
  <2> QED
    BY <2>1 DEF RunKeeps, Loaded, Kept
<1> QED
  BY InvHolds, FaultInvHolds, <1>1, PTL

-----------------------------------------------------------------------------
(* What was reported as indexed is in the table, whatever else failed in the *)
(* run, provided that slugs tell the episodes apart.                         *)

TableRows == Rows(table.chunks, table.vectors)
EpisodeRows(e) == {r \in TableRows : r.chunk.ep = e}

\* Every chunk has a vector, and all of them can be stacked with the run's own.
Even ==
    /\ Len(table.vectors) = Len(table.chunks)
    /\ \A r \in TableRows : Dim[r.vector.by] = Dim[run.embedder]

\* One episode that went through is what makes the table even, and an even table
\* lets no later delete or upsert raise.
IndexedStay ==
    \A e \in Episodes \ AtRisk : report[e] = "indexed" =>
        /\ made[e] # {}
        /\ EpisodeRows(e) = UpsertRows(made[e], run.embedder)
        /\ Even

StoredInv ==
    pc # "idle" =>
        /\ IndexedStay
        /\ pc = "upsert" => EpisodeRows(Current) = {}
        /\ pc = "stored" => EpisodeRows(Current) = UpsertRows(run.chunks, run.embedder) /\ Even

\* The episode in hand is reported on, and the store keeps the others.
LEMMA AdvanceStored ==
    ASSUME Inv, StoredInv, pc # "idle", run.todo # <<>>,
           NEW status \in {"skipped", "empty", "failed"}, Advance(status),
           UNCHANGED made,
           \/ UNCHANGED <<table.chunks, table.vectors>>
           \/ \A e \in Episodes \ {Current} : report[e] # "indexed"
    PROVE  StoredInv'
<1>1. /\ run \in Runs /\ run' = [run EXCEPT !.todo = Tail(@)] /\ pc' = "next"
      /\ report' = [report EXCEPT ![Current] = status]
      /\ report \in [Episodes -> {"none", "skipped", "indexed", "empty", "failed"}]
  BY RunFacts DEF Advance, Inv, TypeOK
<1>2. run'.embedder = run.embedder /\ AtRisk' = {}
  BY <1>1 DEF Runs, AtRisk
<1>3. AtRisk \subseteq {Current}
  BY DEF AtRisk
<1>4. ASSUME NEW e \in Episodes, report'[e] = "indexed"
      PROVE  made'[e] # {} /\ EpisodeRows(e)' = UpsertRows(made[e], run.embedder) /\ Even'
  <2>1. e # Current /\ report[e] = "indexed"
    BY <1>1, <1>4
  <2>2. e \in Episodes \ AtRisk /\ IndexedStay
    BY <1>3, <2>1 DEF StoredInv
  <2>3. UNCHANGED <<table.chunks, table.vectors>>
    BY <2>1, <2>2
  <2>4. made[e] # {} /\ EpisodeRows(e) = UpsertRows(made[e], run.embedder) /\ Even
    BY <2>1, <2>2 DEF IndexedStay
  <2>5. TableRows' = TableRows
    BY <2>3 DEF TableRows
  <2> QED
    BY <1>2, <2>3, <2>4, <2>5 DEF EpisodeRows, Even
<1> QED
  BY <1>1, <1>2, <1>4 DEF StoredInv, IndexedStay

\* The report stands and so do the rows: nothing but the progress of the run.
LEMMA QuietStored ==
    ASSUME Inv, StoredInv, pc # "idle", UNCHANGED <<table.chunks, table.vectors, report, made>>,
           run'.embedder = run.embedder,
           \/ pc' = pc /\ UNCHANGED run
           \/ pc \notin {"upsert", "stored"} /\ pc' \notin {"upsert", "stored"}
    PROVE  StoredInv'
<1>1. TableRows' = TableRows
  BY DEF TableRows
<1>2. \A e : EpisodeRows(e)' = EpisodeRows(e)
  BY <1>1 DEF EpisodeRows
<1>3. Even' = Even /\ AtRisk' = AtRisk
  BY <1>1 DEF Even, AtRisk, Current
<1>4. IndexedStay'
  BY <1>2, <1>3 DEF StoredInv, IndexedStay
<1> QED
  BY <1>2, <1>3, <1>4 DEF StoredInv, Current

\* delete_episode leaves nothing of the episode, and the rest of an even table.
LEMMA DeletedStored ==
    ASSUME table \in Table, DistinctIds(table.chunks), NEW e, DeleteEpisode(e),
           run' = run
    PROVE  /\ EpisodeRows(e)' = {}
           /\ Even => Even' /\ TableRows' = {r \in TableRows : r.chunk.ep # e}
<1> DEFINE kept == KeptByDelete(e)
           rows == RowsAt(kept)
<1>1. kept \in SUBSET DOMAIN table.chunks /\ Readable(kept) /\ table' = Replaced(rows)
  BY DEF DeleteEpisode, KeptByDelete
<1>2. rows \subseteq Row /\ IsFiniteSet(rows) /\ Keyed(rows)
  <2> HIDE DEF kept
  <2> QED
    BY <1>1, RowsReadBack
<1>3. rows = {r \in TableRows : r.chunk.ep # e}
  BY DEF RowsAt, KeptByDelete, TableRows, Rows
<1> HIDE DEF rows
<1>4. /\ \A i \in DOMAIN table'.chunks : \E r \in rows : r.chunk = table'.chunks[i]
      /\ Stackable(rows) => /\ Len(table'.vectors) = Len(table'.chunks)
                            /\ Rows(table'.chunks, table'.vectors) = rows
  BY <1>1, <1>2, ReplacedTable
<1>5. EpisodeRows(e)' = {}
  BY <1>3, <1>4 DEF EpisodeRows, TableRows, Rows
<1>6. ASSUME Even
      PROVE  Even' /\ TableRows' = rows
  <2>1. Stackable(rows)
    BY <1>3, <1>6 DEF Stackable, Even
  <2>2. TableRows' = rows /\ Len(table'.vectors) = Len(table'.chunks)
    BY <1>4, <2>1 DEF TableRows
  <2> QED
    BY <1>3, <1>6, <2>2 DEF Even
<1> QED
  BY <1>3, <1>5, <1>6

\* upsert of an episode of which the table holds nothing adds its rows.
LEMMA UpsertedStored ==
    ASSUME table \in Table, DistinctIds(table.chunks),
           NEW chunks, chunks \subseteq Chunk, chunks # {}, IsFiniteSet(chunks),
           \A c, d \in chunks : Id(c) = Id(d) => c = d,
           \A c \in chunks : \A i \in DOMAIN table.chunks : Id(c) # Id(table.chunks[i]),
           run.embedder \in Embedders, Upsert(chunks, run.embedder), run' = run
    PROVE  Even' /\ TableRows' = TableRows \cup UpsertRows(chunks, run.embedder)
<1> DEFINE m == run.embedder
           kept == KeptByUpsert(chunks)
           rows == Merged(chunks, m)
<1>1. kept = DOMAIN table.chunks
  BY DEF KeptByUpsert
<1>2. Readable(kept) /\ Stackable(rows) /\ table' = Replaced(rows)
  BY DEF Upsert, Merged
<1>3. rows = TableRows \cup UpsertRows(chunks, m)
  BY <1>1 DEF Merged, RowsAt, TableRows, Rows
<1>4. rows \subseteq Row /\ IsFiniteSet(rows) /\ Keyed(rows)
  BY <1>2, MergedRows
<1> HIDE DEF rows
<1>5. TableRows' = rows /\ Len(table'.vectors) = Len(table'.chunks)
  BY <1>2, <1>4, ReplacedTable DEF TableRows
<1>6. \A r \in rows : Dim[r.vector.by] = Dim[m]
  <2>1. PICK c \in chunks : TRUE
    OBVIOUS
  <2>2. [chunk |-> c, vector |-> [of |-> c, by |-> m]] \in rows
    BY <1>3 DEF UpsertRows
  <2> HIDE DEF m
  <2> QED
    BY <1>2, <2>2 DEF Stackable
<1> QED
  BY <1>3, <1>5, <1>6 DEF Even

\* An even table lets no delete and no upsert raise.
LEMMA EvenNeverRaises ==
    ASSUME table \in Table, Even
    PROVE  /\ \A kept \in SUBSET DOMAIN table.chunks : Readable(kept)
           /\ \A chunks : ~ UpsertRaises(chunks, run.embedder)
<1>1. /\ DOMAIN table.chunks = 1..Len(table.chunks) /\ Len(table.chunks) \in Nat
      /\ Len(table.vectors) = Len(table.chunks)
  BY DEF Table, Even
<1>2. \A kept \in SUBSET DOMAIN table.chunks : Readable(kept)
  BY <1>1 DEF Readable
<1>3. ASSUME NEW chunks
      PROVE  ~ UpsertRaises(chunks, run.embedder)
  <2> DEFINE kept == KeptByUpsert(chunks)
             new == UpsertRows(chunks, run.embedder)
  <2>1. kept \in SUBSET DOMAIN table.chunks
    BY DEF KeptByUpsert
  <2>2. \A r \in RowsAt(kept) : r \in TableRows
    BY <2>1 DEF RowsAt, TableRows, Rows
  <2>3. \A r \in RowsAt(kept) \cup new : Dim[r.vector.by] = Dim[run.embedder]
    <3>1. \A r \in new : r.vector.by = run.embedder
      BY DEF UpsertRows
    <3> QED
      BY <2>2, <3>1 DEF Even
  <2>4. Stackable(RowsAt(kept) \cup new)
    BY <2>3 DEF Stackable
  <2> QED
    BY <1>2, <2>1, <2>4 DEF UpsertRaises
<1> QED
  BY <1>2, <1>3

LEMMA EmbedAndDeleteStored ==
    ASSUME Inv, StoredInv, EmbedAndDelete
    PROVE  StoredInv'
<1>1. pc = "embed" /\ pc # "idle" /\ run.todo # <<>> /\ UNCHANGED made
  BY DEF EmbedAndDelete, Inv, RunInv, Working
<1>2. table \in Table /\ DistinctIds(table.chunks) /\ IndexedStay /\ AtRisk = {}
  BY <1>1, RunFacts DEF Inv, StoreInv, StoredInv, AtRisk
<1>3. CASE DeleteEpisode(Current) /\ pc' = "upsert" /\ UNCHANGED <<run, report>>
  <2>1. /\ EpisodeRows(Current)' = {}
        /\ Even => Even' /\ TableRows' = {r \in TableRows : r.chunk.ep # Current}
    BY <1>2, <1>3, DeletedStored DEF EpisodeRows, Current
  <2>2. AtRisk' = {Current} /\ Current' = Current
    BY <1>3 DEF AtRisk, Current
  <2>3. ASSUME NEW e \in Episodes \ {Current}, report[e] = "indexed"
        PROVE  /\ made'[e] # {} /\ Even'
               /\ EpisodeRows(e)' = UpsertRows(made'[e], run'.embedder)
    <3>1. made[e] # {} /\ EpisodeRows(e) = UpsertRows(made[e], run.embedder) /\ Even
      BY <1>2, <2>3 DEF IndexedStay
    <3>2. EpisodeRows(e)' = EpisodeRows(e)
      BY <2>1, <2>3, <3>1 DEF EpisodeRows
    <3> QED
      BY <1>1, <1>3, <2>1, <3>1, <3>2
  <2>4. IndexedStay'
    BY <1>3, <2>2, <2>3 DEF IndexedStay
  <2> QED
    BY <1>3, <2>1, <2>2, <2>4 DEF StoredInv, EpisodeRows
<1>4. CASE DeleteRaises(Current) /\ Advance("failed")
  BY <1>1, <1>4, AdvanceStored DEF DeleteRaises
<1> QED
  BY <1>3, <1>4 DEF EmbedAndDelete

LEMMA UpsertChunksStored ==
    ASSUME SlugsDiffer, Inv, StoredInv, UpsertChunks
    PROVE  StoredInv'
<1>1. pc = "upsert" /\ pc # "idle" /\ run.todo # <<>> /\ UNCHANGED made
  BY DEF UpsertChunks, Inv, RunInv, Working
<1>2. /\ table \in Table /\ DistinctIds(table.chunks)
      /\ IndexedStay /\ AtRisk = {Current} /\ EpisodeRows(Current) = {}
  BY <1>1, RunFacts DEF Inv, StoreInv, StoredInv, AtRisk
<1>3. /\ run.chunks \subseteq Chunk /\ run.chunks # {} /\ IsFiniteSet(run.chunks)
      /\ \A c, d \in run.chunks : Id(c) = Id(d) => c = d
      /\ \A c \in run.chunks : c.ep = Current
      /\ run.embedder \in Embedders
  BY <1>1, OwnChunks
<1>4. CASE Upsert(run.chunks, run.embedder) /\ pc' = "stored" /\ UNCHANGED <<run, report>>
  <2>1. Current \notin EpisodesOf(table.chunks)
    <3>1. ASSUME NEW i \in DOMAIN table.chunks
          PROVE  table.chunks[i].ep # Current
      <4>1. [chunk |-> table.chunks[i], vector |-> table.vectors[i]] \in TableRows
        BY DEF TableRows, Rows
      <4> QED
        BY <1>2, <4>1 DEF EpisodeRows
    <3> QED
      BY <3>1 DEF EpisodesOf
  <2>2. Even' /\ TableRows' = TableRows \cup UpsertRows(run.chunks, run.embedder)
    BY <1>1, <1>2, <1>3, <1>4, <2>1, StrangeIds, UpsertedStored
  <2>3. \A r \in UpsertRows(run.chunks, run.embedder) : r.chunk.ep = Current
    BY <1>3 DEF UpsertRows
  <2>4. EpisodeRows(Current)' = UpsertRows(run.chunks, run.embedder) /\ Current' = Current
    BY <1>2, <1>4, <2>2, <2>3 DEF EpisodeRows, Current
  <2>5. AtRisk' = {Current}
    BY <1>4 DEF AtRisk, Current
  <2>6. \A e \in Episodes \ {Current} : EpisodeRows(e)' = EpisodeRows(e)
    BY <2>2, <2>3 DEF EpisodeRows
  <2>7. IndexedStay'
    BY <1>1, <1>2, <1>4, <2>2, <2>5, <2>6 DEF IndexedStay
  <2> QED
    BY <1>4, <2>2, <2>4, <2>7 DEF StoredInv
<1>5. CASE UpsertRaises(run.chunks, run.embedder) /\ Advance("failed")
  <2>1. ~ Even
    BY <1>2, <1>5, EvenNeverRaises
  <2>2. \A e \in Episodes \ {Current} : report[e] # "indexed"
    BY <1>2, <2>1 DEF IndexedStay
  <2> QED
    BY <1>1, <1>5, <2>2, AdvanceStored
<1> QED
  BY <1>4, <1>5 DEF UpsertChunks

LEMMA ReportIndexedStored ==
    ASSUME SlugsDiffer, Inv, StoredInv, ReportIndexed
    PROVE  StoredInv'
<1>1. /\ pc = "stored" /\ pc # "idle" /\ pc' = "next" /\ table' = table
      /\ made' = [made EXCEPT ![Current] = run.chunks]
      /\ report' = [report EXCEPT ![Current] = "indexed"]
      /\ run' = [run EXCEPT !.todo = Tail(@)]
  BY DEF ReportIndexed, Advance, storeVars
<1>2. run'.embedder = run.embedder /\ AtRisk' = {} /\ AtRisk = {Current}
  BY <1>1, RunFacts DEF Runs, AtRisk
<1>3. TableRows' = TableRows /\ Even' = Even /\ \A e : EpisodeRows(e)' = EpisodeRows(e)
  BY <1>1, <1>2 DEF TableRows, Even, EpisodeRows
<1>4. /\ IndexedStay /\ EpisodeRows(Current) = UpsertRows(run.chunks, run.embedder) /\ Even
      /\ run.chunks # {}
  BY <1>1, OwnChunks DEF StoredInv
<1>5. /\ made \in [Episodes -> SUBSET Chunk]
      /\ report \in [Episodes -> {"none", "skipped", "indexed", "empty", "failed"}]
  BY DEF Inv, TypeOK
<1>6. ASSUME NEW e \in Episodes, report'[e] = "indexed"
      PROVE  made'[e] # {} /\ EpisodeRows(e)' = UpsertRows(made'[e], run'.embedder) /\ Even'
  <2>1. CASE e = Current
    BY <1>1, <1>2, <1>3, <1>4, <1>5, <2>1
  <2>2. CASE e # Current
    <3>1. report[e] = "indexed" /\ made'[e] = made[e]
      BY <1>1, <1>5, <1>6, <2>2
    <3> QED
      BY <1>2, <1>3, <1>4, <2>2, <3>1 DEF IndexedStay
  <2> QED
    BY <2>1, <2>2
<1> QED
  BY <1>1, <1>2, <1>6 DEF StoredInv, IndexedStay

LEMMA NextStoredInv ==
    ASSUME SlugsDiffer, Inv, StoredInv, [Next]_vars
    PROVE  StoredInv'
<1>1. CASE \E m \in Embedders, w \in Transcribers, force, retranscribe \in BOOLEAN,
              limit \in 1..Cardinality(Episodes) : Start(m, w, force, retranscribe, limit)
  BY <1>1 DEF Start, StoredInv, IndexedStay
<1>2. CASE StartRaises \/ Finish \/ Crash
  BY <1>2, RunFacts DEF StartRaises, Finish, Crash, StoredInv, Inv, TypeOK
<1>3. CASE Skip \/ TranscribeRaises \/ SaveTranscriptRaises \/ ChunkNothing \/ EmbedRaises
  <2>1. /\ pc # "idle" /\ run.todo # <<>> /\ UNCHANGED <<table, made>>
        /\ \E status \in {"skipped", "empty", "failed"} : Advance(status)
    BY <1>3 DEF Skip, Takes, TranscribeRaises, SaveTranscriptRaises, ChunkNothing, EmbedRaises,
                storeVars, Inv, RunInv, Working
  <2> QED
    BY <2>1, AdvanceStored
<1>4. CASE UseCached \/ Transcribe \/ SaveTranscript
           \/ \E n \in 1..MaxChunks : ChunkTranscript(n)
  <2>1. /\ pc # "idle" /\ pc \notin {"upsert", "stored"} /\ pc' \notin {"upsert", "stored"}
        /\ UNCHANGED <<table, report, made>>
        /\ \/ \E t \in {Cached, [ep |-> Current, heard |-> run.transcriber]} :
                run' = [run EXCEPT !.transcript = t]
           \/ \E c : run' = [run EXCEPT !.chunks = c]
           \/ run' = run
    BY <1>4 DEF Takes, UseCached, Transcribe, SaveTranscript, ChunkTranscript, storeVars
  <2>2. run'.embedder = run.embedder
    BY <2>1, RunFacts DEF Runs
  <2> QED
    BY <2>1, <2>2, QuietStored
<1>5. CASE Save \/ UNCHANGED vars
  <2>1. UNCHANGED <<table, pc, run, report, made>>
    BY <1>5 DEF Save, SaveNext, vars, storeVars, ingestVars
  <2>2. CASE pc = "idle"
    BY <2>1, <2>2 DEF StoredInv
  <2>3. CASE pc # "idle"
    BY <2>1, <2>3, QuietStored
  <2> QED
    BY <2>2, <2>3
<1>6. CASE Stamp
  <2>1. /\ pc = "next" /\ pc # "idle" /\ pc' = "stamp" /\ UNCHANGED <<run, report, made>>
        /\ SetManifest(run.embedder) /\ table \in Table
    BY <1>6, RunFacts DEF Stamp
  <2>2. UNCHANGED <<table.chunks, table.vectors>>
    BY <2>1 DEF SetManifest, Table
  <2> QED
    BY <2>1, <2>2, QuietStored
<1>7. CASE SaveFails
  <2>1. CASE pc = "stamp"
    BY <1>7, <2>1 DEF SaveFails, StoredInv
  <2>2. CASE pc # "stamp"
    <3>1. pc # "idle" /\ run.todo # <<>>
      BY <1>7, <2>2, RunFacts DEF SaveFails, SaveRaises, Saved, Storing, Working, Inv, RunInv
    <3> QED
      BY <1>7, <2>2, <3>1, AdvanceStored DEF SaveFails
  <2> QED
    BY <2>1, <2>2
<1> QED
  BY <1>1, <1>2, <1>3, <1>4, <1>5, <1>6, <1>7, EmbedAndDeleteStored, UpsertChunksStored,
     ReportIndexedStored DEF Next

\* The rows of an episode, read from the table place by place.
LEMMA StoredRows ==
    ASSUME table \in Table, DistinctIds(table.chunks), Even,
           NEW e, NEW chunks, EpisodeRows(e) = UpsertRows(chunks, run.embedder)
    PROVE  /\ {table.chunks[i] : i \in RowsOf(e)} = chunks
           /\ Cardinality(RowsOf(e)) = Cardinality(chunks)
           /\ \A i \in RowsOf(e) :
                 /\ i <= Len(table.vectors)
                 /\ table.vectors[i] = [of |-> table.chunks[i], by |-> run.embedder]
<1> DEFINE at == [i \in RowsOf(e) |-> table.chunks[i]]
           row(i) == [chunk |-> table.chunks[i], vector |-> table.vectors[i]]
<1>1. /\ DOMAIN table.chunks = 1..Len(table.chunks) /\ Len(table.chunks) \in Nat
      /\ Len(table.vectors) = Len(table.chunks)
  BY DEF Table, Even
<1>2. ASSUME NEW i \in RowsOf(e)
      PROVE  \E c \in chunks : row(i) = [chunk |-> c, vector |-> [of |-> c, by |-> run.embedder]]
  <2>1. row(i) \in EpisodeRows(e)
    BY DEF RowsOf, EpisodeRows, TableRows, Rows
  <2> QED
    BY <2>1 DEF UpsertRows
<1>3. ASSUME NEW i \in RowsOf(e)
      PROVE  /\ table.chunks[i] \in chunks
             /\ table.vectors[i] = [of |-> table.chunks[i], by |-> run.embedder]
  BY <1>2, <1>3
<1>4. ASSUME NEW c \in chunks
      PROVE  \E i \in RowsOf(e) : table.chunks[i] = c
  <2>1. [chunk |-> c, vector |-> [of |-> c, by |-> run.embedder]] \in EpisodeRows(e)
    BY DEF UpsertRows
  <2> QED
    BY <2>1 DEF EpisodeRows, TableRows, Rows, RowsOf
<1>5. {table.chunks[i] : i \in RowsOf(e)} = chunks
  BY <1>3, <1>4
<1>6. at \in Surjection(RowsOf(e), chunks)
  BY <1>3, <1>4 DEF Surjection
<1>7. at \in Injection(RowsOf(e), chunks)
  <2>1. \A i, j \in RowsOf(e) : at[i] = at[j] => i = j
    BY DEF RowsOf, DistinctIds
  <2>2. at \in [RowsOf(e) -> chunks]
    BY <1>3
  <2> QED
    BY <2>1, <2>2, Fun_IsInj
<1>8. IsFiniteSet(RowsOf(e))
  <2>1. IsFiniteSet(1..Len(table.chunks)) /\ RowsOf(e) \subseteq 1..Len(table.chunks)
    BY <1>1, FS_Interval DEF RowsOf
  <2> QED
    BY <2>1, FS_Subset
<1>9. Cardinality(chunks) = Cardinality(RowsOf(e))
  BY <1>6, <1>7, <1>8, FS_Surjection
<1>10. \A i \in RowsOf(e) : i <= Len(table.vectors)
  BY <1>1 DEF RowsOf
<1> QED
  BY <1>3, <1>5, <1>9, <1>10

\* An episode reported as indexed is in the table with exactly the chunks made
\* for it, each beside its own vector, whatever raised, was cut short or could
\* not be stacked, provided that slugs tell the episodes apart.
THEOREM AlwaysReportedIsStored ==
    ASSUME SlugsDiffer
    PROVE  Spec => []ReportedIsStored
<1>1. Init => StoredInv
  BY DEF Init, StoredInv
<1>2. Inv /\ StoredInv /\ [Next]_vars => StoredInv'
  BY NextStoredInv
<1>3. ASSUME Inv, StoredInv
      PROVE  ReportedIsStored
  <2> SUFFICES ASSUME pc \in {"next", "stamp"}, NEW e \in Episodes, report[e] = "indexed"
               PROVE  /\ made[e] # {}
                      /\ {table.chunks[i] : i \in RowsOf(e)} = made[e]
                      /\ Cardinality(RowsOf(e)) = Cardinality(made[e])
                      /\ \A i \in RowsOf(e) :
                            /\ i <= Len(table.vectors)
                            /\ table.vectors[i] = [of |-> table.chunks[i], by |-> run.embedder]
    BY DEF ReportedIsStored
  <2>1. pc # "idle" /\ AtRisk = {}
    BY DEF AtRisk
  <2>2. table \in Table /\ DistinctIds(table.chunks)
    BY <2>1, RunFacts, <1>3 DEF Inv, StoreInv
  <2>3. made[e] # {} /\ EpisodeRows(e) = UpsertRows(made[e], run.embedder) /\ Even
    BY <1>3, <2>1 DEF StoredInv, IndexedStay
  <2> QED
    BY <2>2, <2>3, StoredRows
<1> QED
  BY InvHolds, <1>1, <1>2, <1>3, PTL DEF Spec

-----------------------------------------------------------------------------
(* Ingestion implements AbstractIndex: the chunks of the table, seen episode *)
(* by episode, are what is shown or one step of the abstract index ahead.    *)

TableShown == [e \in Episodes |-> {c \in ToSet(table.chunks) : c.ep = e}]

Emptied == pc = "upsert" /\ TableShown = [shown EXCEPT ![Current] = {}]

Filled ==
    /\ pc = "stored"
    /\ shown[Current] = {}
    /\ TableShown = [shown EXCEPT ![Current] = run.chunks]

ShownInv ==
    /\ shown \in [Episodes -> SUBSET Chunk]
    /\ Loads => shown = ChunksShown
    /\ pc # "idle" =>
          /\ files.manifest # Torn
          /\ TableShown = shown \/ Emptied \/ Filled
          /\ unsaved \in {<<>>, <<"manifest">>} => TableShown = shown

WholeInv == Inv /\ Undamaged /\ ShownInv

\* Nothing is written: nothing else is shown.
LEMMA SameFiles ==
    ASSUME ShownInv, IndexNext, files' = files
    PROVE  /\ shown' = shown /\ Loads' = Loads
           /\ Loads' => shown' = ChunksShown'
<1>1. Loads' = Loads /\ ChunksShown' = ChunksShown
  BY DEF Loads, Exists, ChunksShown, Loaded
<1> QED
  BY <1>1 DEF IndexNext, ShownInv

\* A file is written: either the index cannot be read, or it shows what it did,
\* or it shows what is in memory.
LEMMA SaveShown ==
    ASSUME WholeInv, IndexNext, Save
    PROVE  /\ Loads' => shown' = ChunksShown' /\ shown' \in {shown, TableShown}
           /\ ~Loads' => shown' = shown
           /\ files'.manifest # Torn
           /\ unsaved' \in {<<>>, <<"manifest">>} => shown' = TableShown
<1>1. /\ SaveNext /\ table' = table /\ unsaved # <<>> /\ unsaved \in Unsaved
      /\ pc \in Storing /\ pc # "idle" /\ Written
  BY RunFacts DEF Save, SaveNext, Saved, Storing, WholeInv, Inv, StoreInv
<1>2. /\ RunSound
      /\ table.chunks \notin {Missing, Torn} /\ table.vectors \notin {Missing, Torn}
      /\ Exists <=> files.chunks # Missing
  BY <1>1, UndamagedFacts DEF WholeInv
<1>3. /\ Len(table.chunks) = Len(table.vectors) /\ files.manifest # Torn
      /\ Loads => shown = ChunksShown
  BY <1>1, <1>2 DEF WholeInv, ShownInv, RunSound, Sound, Aligned
<1>4. table.embedder # Torn
  <2>1. table.embedder \in Embedders \cup {NoName}
    BY <1>1, RunFacts DEF Table, WholeInv
  <2> QED
    BY <2>1, MarksAssumption DEF MarksAssumption
<1>5. files = [embeddings |-> files.embeddings, chunks |-> files.chunks, manifest |-> files.manifest]
  BY DEF WholeInv, Inv, StoreInv
<1>6. (Loads' => shown' = ChunksShown') /\ (~Loads' => shown' = shown)
  BY DEF IndexNext
<1>7. ASSUME Exists', files'.chunks = table.chunks
      PROVE  ChunksShown' = TableShown
  <2>1. Loaded'.chunks = table.chunks
    BY <1>7 DEF Loaded
  <2> QED
    BY <2>1 DEF ChunksShown, TableShown
<1>8. CASE Head(unsaved) = "embeddings"
  <2>1. unsaved = PersistOrder /\ unsaved' = <<"chunks", "manifest">>
    BY <1>1, <1>8, NextFile DEF SaveNext
  <2>2. /\ files'.embeddings = table.vectors /\ files'.chunks = files.chunks
        /\ files'.manifest = files.manifest
    <3>1. files' = [files EXCEPT !["embeddings"] = Contents["embeddings"]]
      BY <1>1, <1>8 DEF SaveNext
    <3>2. Contents["embeddings"] = table.vectors
      BY DEF Contents
    <3> QED
      BY <1>5, <3>1, <3>2
  <2>3. CASE files.chunks = Missing
    <3>1. ~Exists /\ ~Exists'
      BY <1>2, <2>2, <2>3 DEF Exists
    <3>2. Loads /\ Loads' /\ ChunksShown' = ChunksShown
      BY <3>1 DEF Loads, ChunksShown, Loaded
    <3> QED
      BY <1>3, <1>6, <2>1, <2>2, <3>2, PartsDiffer
  <2>4. CASE files.chunks # Missing
    <3>1. Exists'
      BY <1>2, <2>2, <2>4 DEF Exists
    <3>2. Loads' => files.chunks = table.chunks
      BY <1>2, <1>3, <2>1, <2>2, <2>4, <3>1 DEF Loads, RunSound, Apart
    <3>3. Loads' => shown' = TableShown
      BY <1>6, <1>7, <2>2, <3>1, <3>2
    <3> QED
      BY <1>3, <1>6, <2>1, <2>2, <3>3, PartsDiffer
  <2> QED
    BY <2>3, <2>4
<1>9. CASE Head(unsaved) \in {"chunks", "manifest"}
  <2>1. /\ files'.embeddings = table.vectors /\ files'.chunks = table.chunks
        /\ files'.manifest # Torn
    <3>1. CASE Head(unsaved) = "chunks"
      <4>1. files.embeddings = table.vectors
        BY <1>1, <3>1, NextFile, PartsDiffer DEF Written
      <4>2. files' = [files EXCEPT !["chunks"] = Contents["chunks"]]
        BY <1>1, <3>1 DEF SaveNext
      <4>3. Contents["chunks"] = table.chunks
        BY DEF Contents
      <4> QED
        BY <1>3, <1>5, <4>1, <4>2, <4>3
    <3>2. CASE Head(unsaved) = "manifest"
      <4>1. files.embeddings = table.vectors /\ files.chunks = table.chunks
        BY <1>1, <3>2, NextFile, PartsDiffer DEF Written
      <4>2. files' = [files EXCEPT !["manifest"] = Contents["manifest"]]
        BY <1>1, <3>2 DEF SaveNext
      <4>3. Contents["manifest"] = table.embedder
        BY DEF Contents
      <4> QED
        BY <1>4, <1>5, <4>1, <4>2, <4>3
    <3> QED
      BY <1>9, <3>1, <3>2
  <2>2. Exists' /\ Loads'
    BY <1>2, <1>3, <2>1 DEF Exists, Loads
  <2>3. shown' = TableShown
    BY <1>6, <1>7, <2>1, <2>2
  <2> QED
    BY <1>6, <2>1, <2>2, <2>3
<1> QED
  BY <1>1, <1>8, <1>9, NextFile

\* A file is cut short: the index cannot be read, or it shows what it did.
LEMMA CrashShown ==
    ASSUME WholeInv, IndexNext, Crash
    PROVE  (Loads' => shown' = ChunksShown') /\ shown' = shown
<1>1. CASE files' = files
  BY <1>1, SameFiles DEF WholeInv
<1>2. CASE unsaved # <<>> /\ files' = [files EXCEPT ![Head(unsaved)] = Torn]
  <2>1. /\ pc # "idle" /\ Written /\ unsaved \in Unsaved
        /\ files = [embeddings |-> files.embeddings, chunks |-> files.chunks,
                    manifest |-> files.manifest]
    BY <1>2, RunFacts DEF Storing, WholeInv, Inv, StoreInv
  <2>2. /\ table.chunks \notin {Missing, Torn} /\ table.vectors \notin {Missing, Torn}
        /\ Exists <=> files.chunks # Missing
        /\ Loads => shown = ChunksShown
    BY <2>1, UndamagedFacts DEF WholeInv, ShownInv
  <2>3. Missing # Torn
    BY MarksAssumption DEF MarksAssumption
  <2>4. CASE Head(unsaved) = "embeddings"
    <3>1. files'.embeddings = Torn /\ files'.chunks = files.chunks
      BY <1>2, <2>1, <2>4
    <3>2. CASE files.chunks = Missing
      <4>1. ~Exists /\ ~Exists'
        BY <2>2, <3>1, <3>2 DEF Exists
      <4>2. Loads /\ Loads' /\ ChunksShown' = ChunksShown
        BY <4>1 DEF Loads, ChunksShown, Loaded
      <4> QED
        BY <2>2, <4>2 DEF IndexNext
    <3>3. CASE files.chunks # Missing
      BY <2>3, <3>1, <3>3 DEF IndexNext, Loads, Exists
    <3> QED
      BY <3>2, <3>3
  <2>5. CASE Head(unsaved) = "chunks"
    <3>1. files.embeddings = table.vectors
      BY <1>2, <2>1, <2>5, NextFile, PartsDiffer DEF Written
    <3>2. files'.embeddings = table.vectors /\ files'.chunks = Torn
      BY <1>2, <2>1, <2>5, <3>1
    <3> QED
      BY <2>2, <2>3, <3>2 DEF IndexNext, Loads, Exists
  <2>6. CASE Head(unsaved) = "manifest"
    <3>1. files.embeddings = table.vectors /\ files.chunks = table.chunks
      BY <1>2, <2>1, <2>6, NextFile, PartsDiffer DEF Written
    <3>2. /\ files'.embeddings = table.vectors /\ files'.chunks = table.chunks
          /\ files'.manifest = Torn
      BY <1>2, <2>1, <2>6, <3>1
    <3> QED
      BY <2>2, <3>2 DEF IndexNext, Loads, Exists
  <2> QED
    BY <1>2, <2>1, <2>4, <2>5, <2>6, NextFile
<1> QED
  BY <1>1, <1>2 DEF Crash, StoreCrash, Saved

\* Steps of the abstract index.
LEMMA Unchanging ==
    ASSUME shown' = shown
    PROVE  Index!Next
BY DEF Index!Next, Index!Hide, Index!Show, Loads, Exists

LEMMA SaveImplements ==
    ASSUME SlugsDiffer, WholeInv, IndexNext, Save
    PROVE  Index!Next
<1>1. CASE shown' = shown
  BY <1>1, Unchanging
<1>2. CASE shown' # shown
  <2>1. Loads' = TRUE /\ shown' = TableShown
    BY <1>2, SaveShown DEF Loads, Exists
  <2>2. pc # "idle" /\ pc \in Storing
    BY RunFacts DEF Save, SaveNext, Saved, Storing, WholeInv
  <2>3. Emptied \/ Filled
    BY <1>2, <2>1, <2>2 DEF WholeInv, ShownInv
  <2>4. Current \in Episodes
    BY <2>2, <2>3, RunFacts DEF Emptied, Filled, Working, WholeInv, Inv, RunInv
  <2>5. CASE Emptied
    <3>1. Index!Empty(Current)
      BY <2>1, <2>5 DEF Index!Empty, Emptied
    <3> QED
      BY <2>4, <3>1 DEF Index!Next
  <2>6. CASE Filled
    <3>1. PICK n \in 1..MaxChunks : run.chunks = Version(Current, n, run.transcriber)
      BY <2>6, OwnChunks DEF Filled, WholeInv
    <3>2. run.transcriber \in Transcribers
      BY <2>2, RunFacts DEF WholeInv, Runs
    <3>3. run.chunks \in MadeOf(Current)
      BY <3>1, <3>2 DEF MadeOf, Version
    <3>4. Index!Fill(Current)
      BY <2>1, <2>6, <3>3 DEF Index!Fill, Filled
    <3> QED
      BY <2>4, <3>4 DEF Index!Next
  <2> QED
    BY <2>3, <2>5, <2>6
<1> QED
  BY <1>1, <1>2

LEMMA NoWriteFails ==
    ASSUME MaxFaults = 0, Inv
    PROVE  faults = 0 /\ ~SaveFails /\ ~SaveTranscriptRaises
BY DEF Inv, StoreInv, StoreTypeOK, SaveFails, SaveRaises, SaveTranscriptRaises

\* Only Save and Crash touch the files.
LEMMA FilesTouched ==
    ASSUME Next, ~SaveFails, ~Save, ~Crash
    PROVE  files' = files
BY DEF Next, storeVars, Start, StartRaises, Skip, UseCached, Transcribe, TranscribeRaises,
       SaveTranscript, SaveTranscriptRaises, ChunkNothing, ChunkTranscript, EmbedRaises,
       EmbedAndDelete, UpsertChunks, ReportIndexed, Stamp, Finish

LEMMA StepImplements ==
    ASSUME SlugsDiffer, MaxFaults = 0, WholeInv, [IndexNext]_indexVars
    PROVE  [Index!Next]_Index!indexVars
<1>1. CASE IndexNext /\ Save
  BY <1>1, SaveImplements
<1>2. CASE IndexNext /\ Crash
  BY <1>2, CrashShown, Unchanging
<1>3. CASE IndexNext /\ ~Save /\ ~Crash
  <2>1. files' = files
    BY <1>3, NoWriteFails, FilesTouched DEF IndexNext, WholeInv
  <2> QED
    BY <1>3, <2>1, SameFiles, Unchanging DEF WholeInv
<1>4. CASE UNCHANGED indexVars
  <2>1. shown' = shown
    BY <1>4 DEF indexVars
  <2> QED
    BY <2>1, Unchanging
<1> QED
  BY <1>1, <1>2, <1>3, <1>4

\* Where memory and view agree they still do after a step that touches neither.
LEMMA KeepShown ==
    ASSUME ShownInv, IndexNext, files' = files, pc # "idle", unsaved = <<>>,
           table'.chunks = table.chunks
    PROVE  ShownInv'
<1>1. shown' = shown /\ (Loads' => shown' = ChunksShown')
  BY SameFiles
<1>2. TableShown' = TableShown
  BY DEF TableShown
<1> QED
  BY <1>1, <1>2 DEF ShownInv

LEMMA NextShownInv ==
    ASSUME SlugsDiffer, OneDimension, MaxFaults = 0, WholeInv, IndexNext
    PROVE  ShownInv'
<1>1. /\ Inv /\ Undamaged /\ ShownInv /\ Next
      /\ ~SaveFails /\ ~SaveTranscriptRaises
  BY NoWriteFails DEF WholeInv, IndexNext
<1>2. ASSUME files' = files, pc' = "idle"
      PROVE  ShownInv'
  BY <1>1, <1>2, SameFiles DEF ShownInv
<1>3. CASE \E m \in Embedders, w \in Transcribers, force, retranscribe \in BOOLEAN,
              limit \in 1..Cardinality(Episodes) : Start(m, w, force, retranscribe, limit)
  <2>1. Loads /\ table' = Loaded /\ files' = files /\ pc' = "next"
    BY <1>3 DEF Start
  <2>2. shown' = shown /\ (Loads' => shown' = ChunksShown') /\ shown = ChunksShown
    BY <1>1, <2>1, SameFiles DEF ShownInv
  <2>3. TableShown' = ChunksShown
    BY <2>1 DEF TableShown, ChunksShown
  <2>4. files.manifest # Torn
    <3>1. CASE Exists
      BY <2>1, <3>1 DEF Loads
    <3>2. CASE ~Exists
      BY <1>1, <3>2, MarksAssumption DEF Exists, Inv, StoreInv, MarksAssumption
    <3> QED
      BY <3>1, <3>2
  <2> QED
    BY <1>1, <2>1, <2>2, <2>3, <2>4 DEF ShownInv
<1>4. CASE StartRaises \/ Finish
  BY <1>1, <1>2, <1>4 DEF StartRaises, Finish, storeVars
<1>5. CASE Skip \/ TranscribeRaises \/ ChunkNothing \/ EmbedRaises \/ UseCached \/ Transcribe
           \/ SaveTranscript \/ (\E n \in 1..MaxChunks : ChunkTranscript(n)) \/ ReportIndexed
  <2>1. pc # "idle" /\ unsaved = <<>> /\ UNCHANGED <<files, table>>
    BY <1>1, <1>5 DEF Skip, Takes, TranscribeRaises, ChunkNothing, EmbedRaises, UseCached,
       Transcribe, SaveTranscript, ChunkTranscript, ReportIndexed, storeVars, Saved, Storing,
       Inv, RunInv
  <2> QED
    BY <1>1, <2>1, KeepShown
<1>6. CASE EmbedAndDelete
  <2>1. /\ pc = "embed" /\ pc # "idle" /\ files' = files /\ unsaved = <<>>
        /\ table \in Table
    BY <1>1, <1>6, RunFacts DEF EmbedAndDelete, Saved, Storing, Inv, RunInv
  <2>2. TableSound /\ TableShown = shown /\ shown' = shown /\ (Loads' => shown' = ChunksShown')
    BY <1>1, <2>1, UndamagedFacts, SameFiles DEF ShownInv
  <2>3. DeleteEpisode(Current) /\ pc' = "upsert" /\ run' = run
    <3>1. Readable(KeptByDelete(Current))
      BY <2>2, SoundTable DEF KeptByDelete
    <3> QED
      BY <1>6, <3>1 DEF EmbedAndDelete, DeleteRaises
  <2>4. ToSet(table'.chunks) = {c \in ToSet(table.chunks) : c.ep # Current}
    BY <2>2, <2>3, DeletedRows
  <2>5. Emptied'
    <3>1. TableShown' = [TableShown EXCEPT ![Current] = {}]
      BY <2>4 DEF TableShown
    <3> QED
      BY <2>2, <2>3, <3>1 DEF Emptied, Current
  <2>6. unsaved' = PersistOrder /\ PersistOrder \notin {<<>>, <<"manifest">>}
    BY <2>3, PartsDiffer DEF DeleteEpisode
  <2> QED
    BY <1>1, <2>1, <2>2, <2>5, <2>6 DEF ShownInv
<1>7. CASE UpsertChunks
  <2>1. /\ pc = "upsert" /\ pc # "idle" /\ files' = files /\ unsaved = <<>>
        /\ table \in Table
    BY <1>1, <1>7, RunFacts DEF UpsertChunks, Saved
  <2>2. /\ TableSound /\ TableShown = shown /\ shown' = shown
        /\ Loads' => shown' = ChunksShown'
        /\ Current \notin EpisodesOf(table.chunks)
    BY <1>1, <2>1, UndamagedFacts, SameFiles DEF ShownInv, RunSound
  <2>3. /\ run.chunks \subseteq Chunk /\ run.chunks # {} /\ IsFiniteSet(run.chunks)
        /\ \A c, d \in run.chunks : Id(c) = Id(d) => c = d
        /\ \A c \in run.chunks : c.ep = Current
        /\ run.embedder \in Embedders /\ Current \in Episodes
    BY <1>1, <2>1, OwnChunks
  <2>4. \A c \in run.chunks : \A i \in DOMAIN table.chunks : Id(c) # Id(table.chunks[i])
    BY <1>1, <2>1, <2>2, <2>3, StrangeIds
  <2>5. Upsert(run.chunks, run.embedder) /\ pc' = "stored" /\ run' = run
    BY <1>7, <2>2, <2>3, <2>4, UpsertSucceeds DEF UpsertChunks
  <2>6. ToSet(table'.chunks) = ToSet(table.chunks) \cup run.chunks
    BY <2>2, <2>3, <2>4, <2>5, UpsertedRows
  <2>7. Filled'
    <3>1. shown[Current] = {}
      BY <2>2, <2>3 DEF TableShown, EpisodesOf, ToSet
    <3>2. TableShown' = [TableShown EXCEPT ![Current] = run.chunks]
      <4>1. ASSUME NEW e \in Episodes, e # Current
            PROVE  {c \in ToSet(table'.chunks) : c.ep = e} = {c \in ToSet(table.chunks) : c.ep = e}
        BY <2>3, <2>6, <4>1
      <4>2. {c \in ToSet(table.chunks) : c.ep = Current} = {}
        BY <2>2 DEF EpisodesOf, ToSet
      <4>3. {c \in ToSet(table'.chunks) : c.ep = Current} = run.chunks
        BY <2>3, <2>6, <4>2
      <4> QED
        BY <4>1, <4>3 DEF TableShown
    <3> QED
      BY <2>2, <2>5, <3>1, <3>2 DEF Filled, Current
  <2>8. unsaved' = PersistOrder /\ PersistOrder \notin {<<>>, <<"manifest">>}
    BY <2>5, PartsDiffer DEF Upsert
  <2> QED
    BY <1>1, <2>1, <2>2, <2>7, <2>8 DEF ShownInv
<1>8. CASE Stamp
  <2>1. /\ pc = "next" /\ pc # "idle" /\ files' = files /\ unsaved = <<>> /\ table \in Table
    BY <1>1, <1>8, RunFacts DEF Stamp, Saved, Storing, Inv, RunInv
  <2>2. table'.chunks = table.chunks
    BY <1>8, <2>1 DEF Stamp, SetManifest, Table
  <2> QED
    BY <1>1, <2>1, <2>2, KeepShown
<1>9. CASE Save
  <2>1. /\ pc # "idle" /\ table' = table /\ UNCHANGED <<pc, run>> /\ table.chunks \in Seq(Chunk)
        /\ Current' = Current
    BY <1>1, <1>9, RunFacts DEF Save, SaveNext, Saved, Storing, ingestVars, Table, Current
  <2>2. TableShown' = TableShown /\ TableShown \in [Episodes -> SUBSET Chunk]
    BY <2>1 DEF TableShown, ToSet
  <2>3. /\ Loads' => shown' = ChunksShown' /\ shown' \in {shown, TableShown}
        /\ ~Loads' => shown' = shown
        /\ files'.manifest # Torn
        /\ unsaved' \in {<<>>, <<"manifest">>} => shown' = TableShown
    BY <1>9, SaveShown
  <2>4. shown' = shown \/ shown' = TableShown
    BY <2>3
  <2>5. TableShown' = shown' \/ Emptied' \/ Filled'
    <3>1. CASE shown' = TableShown
      BY <2>2, <3>1
    <3>2. CASE shown' = shown
      BY <1>1, <2>1, <2>2, <3>2 DEF ShownInv, Emptied, Filled
    <3> QED
      BY <2>4, <3>1, <3>2
  <2> QED
    BY <1>1, <2>1, <2>2, <2>3, <2>4, <2>5 DEF ShownInv
<1>10. CASE Crash
  BY <1>1, <1>10, CrashShown DEF ShownInv, Crash
<1> QED
  BY <1>1, <1>3, <1>4, <1>5, <1>6, <1>7, <1>8, <1>9, <1>10 DEF Next

LEMMA ShownInvStutters ==
    ASSUME ShownInv, UNCHANGED indexVars
    PROVE  ShownInv'
BY DEF ShownInv, indexVars, vars, storeVars, ingestVars, Loads, Exists, ChunksShown, Loaded,
       TableShown, Emptied, Filled, Current

\* Ingestion implements the abstract index: whoever reads the files, between any
\* two writes or behind any kill, gets each episode whole or not at all, and
\* never two versions of one, provided that slugs tell the episodes apart, all
\* embedders give vectors of one length and writes do not raise.
THEOREM AlwaysShowsWhole ==
    ASSUME SlugsDiffer, OneDimension, MaxFaults = 0
    PROVE  IndexSpec => ShowsWhole
<1>1. IndexInit => Index!Init /\ ShownInv
  <2> SUFFICES ASSUME IndexInit
               PROVE  Index!Init /\ ShownInv
    OBVIOUS
  <2>1. ~Exists /\ Loads = TRUE /\ pc = "idle"
    BY DEF IndexInit, Init, StoreInit, Exists, Loads
  <2>2. ChunksShown = [e \in Episodes |-> {}]
    BY <2>1 DEF ChunksShown, Loaded, EmptyTable, ToSet
  <2> QED
    BY <2>1, <2>2 DEF IndexInit, Index!Init, ShownInv
<1>2. IndexSpec => Spec
  <2>1. IndexInit => Init
    BY DEF IndexInit
  <2>2. [IndexNext]_indexVars => [Next]_vars
    BY DEF IndexNext, indexVars
  <2> QED
    BY <2>1, <2>2, PTL DEF IndexSpec, Spec
<1>3. Inv /\ FaultInv => Undamaged
  BY NoWriteFails DEF FaultInv
<1>4. Inv /\ FaultInv /\ ShownInv /\ [IndexNext]_indexVars => ShownInv'
  BY <1>3, NextShownInv, ShownInvStutters DEF WholeInv
<1>5. IndexSpec => [](Inv /\ FaultInv /\ ShownInv)
  BY <1>1, <1>2, <1>4, InvHolds, FaultInvHolds, PTL DEF IndexSpec
<1>6. Inv /\ FaultInv /\ ShownInv /\ [IndexNext]_indexVars => [Index!Next]_Index!indexVars
  BY <1>3, StepImplements DEF WholeInv
<1> QED
  BY <1>1, <1>5, <1>6, PTL DEF IndexSpec, ShowsWhole, Index!Spec

=============================================================================
