----------------------------- MODULE NumpyStore -----------------------------
(***************************************************************************)
(* The vector store of app/providers/store_numpy.py: a table of chunks and *)
(* their vectors held in memory by one process, and the three files under  *)
(* data/index that _persist writes one after the other and load() reads.   *)
(*                                                                         *)
(* A chunk is named by its episode and its position; its id is the slug of *)
(* the episode and the position, so two names with one slug share ids.  A  *)
(* vector remembers which chunk it was computed from and by which          *)
(* embedder: what a float array cannot tell and the properties are about.  *)
(***************************************************************************)
EXTENDS Integers, SequencesExt

CONSTANTS
    Episodes,       \* episode names; numbers, in the order the names sort
    Embedders,      \* names of embedders
    Transcribers,   \* names of transcribers (model and prompt)
    Dim,            \* [Embedders -> Nat]: length of an embedder's vectors
    Slug,           \* [Episodes -> slug]: slugify(), not injective in general
    MaxChunks,      \* bound of the model: most chunks of one episode
    MaxFaults,      \* bound of the model: writes that raise OSError
    Missing, Torn,  \* a file that is absent, and one cut short by a crash
    NoName,         \* no embedder recorded
    NotLoaded       \* no table in memory

ASSUME NumpyStoreAssumption ==
    /\ Episodes \subseteq Nat /\ IsFiniteSet(Episodes)
    /\ Dim \in [Embedders -> Nat]
    /\ DOMAIN Slug = Episodes
    /\ NoName \notin Embedders
    /\ MaxChunks \in Nat
    /\ MaxFaults \in Nat

VARIABLES
    files,      \* embeddings.npy, chunks.json and manifest.json
    table,      \* _chunks, _embeddings and _manifest, or NotLoaded
    unsaved,    \* the files _persist still has to write, in order
    faults      \* writes that raised so far

storeVars == <<files, table, unsaved, faults>>

Chunk == [ep : Episodes, ix : 1..MaxChunks, heard : Transcribers]
Vector == [of : Chunk, by : Embedders]
Table == [chunks : Seq(Chunk), vectors : Seq(Vector),
          embedder : Embedders \cup {NoName}]

\* The marks of what is absent or broken are none of the values they stand for.
ASSUME MarksAssumption ==
    /\ Missing # Torn
    /\ {Missing, Torn} \cap (Seq(Vector) \cup Seq(Chunk)) = {}
    /\ {Missing, Torn} \cap (Embedders \cup {NoName}) = {}
    /\ NotLoaded \notin Table

Id(c) == <<Slug[c.ep], c.ix>>

EmptyTable == [chunks |-> <<>>, vectors |-> <<>>, embedder |-> NoName]
EpisodesOf(chunks) == {chunks[i].ep : i \in DOMAIN chunks}

PersistOrder == <<"embeddings", "chunks", "manifest">>

StoreInit ==
    /\ files = [embeddings |-> Missing, chunks |-> Missing, manifest |-> Missing]
    /\ table = NotLoaded
    /\ unsaved = <<>>
    /\ faults = 0

-----------------------------------------------------------------------------
(* load(), and the check that guards serving. *)

Exists == files.embeddings # Missing /\ files.chunks # Missing

\* Mutated: a table whose counts disagree is loaded all the same.
LoadsUncounted ==
    Exists => files.embeddings # Torn /\ files.chunks # Torn /\ files.manifest # Torn

\* load() returns rather than raises: every file parses and the counts agree.
Loads ==
    Exists =>
        /\ files.embeddings # Torn
        /\ files.chunks # Torn
        /\ files.manifest # Torn
        /\ Len(files.chunks) = Len(files.embeddings)

\* Mutated: an index whose manifest was never written is not expected.
LoadedRaw ==
    IF ~Exists THEN EmptyTable
    ELSE [chunks |-> files.chunks, vectors |-> files.embeddings,
          embedder |-> files.manifest]

Loaded ==
    IF ~Exists THEN EmptyTable
    ELSE [chunks |-> files.chunks, vectors |-> files.embeddings,
          embedder |-> IF files.manifest = Missing THEN NoName ELSE files.manifest]

\* verify_embedder: only a manifest that names another embedder is refused.
Verifies(embedder) == Loaded.embedder \in {NoName, embedder}

\* validate_serving_config, given the credentials and the model: it looks for
\* the vectors only, load() for the chunks too.
Configured == files.embeddings # Missing

\* A server configured with `embedder` starts on the files as they are now.
Boots(embedder) == Configured /\ Loads /\ Verifies(embedder)

-----------------------------------------------------------------------------
(* Changing the table: delete_episode, upsert, set_manifest. *)

\* Reading the vectors of the kept rows raises IndexError when an earlier
\* failure left more chunks than vectors.
Readable(kept) == \A i \in kept : i <= Len(table.vectors)

RowsAt(kept) == {[chunk |-> table.chunks[i], vector |-> table.vectors[i]] : i \in kept}

\* np.vstack raises unless every vector has the same length.
Stackable(rows) ==
    \A r, s \in rows : Dim[r.vector.by] = Dim[s.vector.by]

\* The members of S in order: the i-th has i - 1 members before it.
Ordered(S, Before(_, _)) ==
    [i \in 1..Cardinality(S) |->
        CHOOSE x \in S : Cardinality({y \in S : Before(y, x)}) = i - 1]

\* rows.sort(key=(episode, index)).
RowBefore(r, s) ==
    \/ r.chunk.ep < s.chunk.ep
    \/ r.chunk.ep = s.chunk.ep /\ r.chunk.ix < s.chunk.ix

Sorted(rows) == Ordered(rows, RowBefore)

\* _replace: the chunks are assigned before the vectors are stacked, so a
\* failing vstack leaves the new chunks beside the old vectors.
Replaced(rows) ==
    LET sorted == Sorted(rows)
    IN [table EXCEPT
           !.chunks = [i \in DOMAIN sorted |-> sorted[i].chunk],
           !.vectors = IF Stackable(rows)
                         THEN [i \in DOMAIN sorted |-> sorted[i].vector] ELSE @]

KeptByDelete(ep) == {i \in DOMAIN table.chunks : table.chunks[i].ep # ep}

KeptByUpsert(chunks) ==
    {i \in DOMAIN table.chunks : \A c \in chunks : Id(c) # Id(table.chunks[i])}

\* delete_episode up to its _persist.
DeleteEpisode(ep) ==
    LET kept == KeptByDelete(ep)
    IN /\ Readable(kept)
       /\ table' = Replaced(RowsAt(kept))
       /\ unsaved' = PersistOrder

DeleteRaises(ep) ==
    /\ ~Readable(KeptByDelete(ep))
    /\ UNCHANGED <<table, unsaved>>

UpsertRows(chunks, embedder) ==
    {[chunk |-> c, vector |-> [of |-> c, by |-> embedder]] : c \in chunks}

\* upsert of freshly embedded chunks up to its _persist.
Upsert(chunks, embedder) ==
    LET kept == KeptByUpsert(chunks)
        merged == RowsAt(kept) \cup UpsertRows(chunks, embedder)
    IN /\ Readable(kept) /\ Stackable(merged)
       /\ table' = Replaced(merged)
       /\ unsaved' = PersistOrder

UpsertRaises(chunks, embedder) ==
    LET kept == KeptByUpsert(chunks)
        merged == RowsAt(kept) \cup UpsertRows(chunks, embedder)
    IN /\ ~(Readable(kept) /\ Stackable(merged))
       /\ table' = IF Readable(kept) THEN Replaced(merged) ELSE table
       /\ UNCHANGED unsaved

\* Mutated: only the manifest is written again.
SetManifestOnly(embedder) ==
    /\ table' = [table EXCEPT !.embedder = embedder]
    /\ unsaved' = <<"manifest">>

SetManifest(embedder) ==
    /\ table' = [table EXCEPT !.embedder = embedder]
    /\ unsaved' = PersistOrder

-----------------------------------------------------------------------------
(* _persist, one file at a time. *)

Contents ==
    [embeddings |-> table.vectors, chunks |-> table.chunks, manifest |-> table.embedder]

Saved == unsaved = <<>>

\* np.save, then chunks.json, then manifest.json.
SaveNext ==
    /\ ~Saved
    /\ files' = [files EXCEPT ![Head(unsaved)] = Contents[Head(unsaved)]]
    /\ unsaved' = Tail(unsaved)
    /\ UNCHANGED <<table, faults>>

\* The write raises OSError: the file is cut short or untouched, and the files
\* after it are not written.
SaveRaises ==
    /\ ~Saved
    /\ faults < MaxFaults
    /\ faults' = faults + 1
    /\ \/ files' = [files EXCEPT ![Head(unsaved)] = Torn]
       \/ UNCHANGED files
    /\ unsaved' = <<>>

\* The process dies.  A file that was being written may be cut short.
StoreCrash ==
    /\ \/ ~Saved /\ files' = [files EXCEPT ![Head(unsaved)] = Torn]
       \/ UNCHANGED files
    /\ table' = NotLoaded
    /\ unsaved' = <<>>
    /\ UNCHANGED faults

StoreTypeOK ==
    /\ files.embeddings \in {Missing, Torn} \cup Seq(Vector)
    /\ files.chunks \in {Missing, Torn} \cup Seq(Chunk)
    /\ files.manifest \in {Missing, Torn, NoName} \cup Embedders
    /\ table \in {NotLoaded} \cup Table
    /\ unsaved \in {PersistOrder, <<"chunks", "manifest">>, <<"manifest">>, <<>>}
    /\ faults \in 0..MaxFaults

=============================================================================
