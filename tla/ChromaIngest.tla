---------------------------- MODULE ChromaIngest ----------------------------
(***************************************************************************)
(* ingest.py over the hosted embedder (app/providers/embeddings_remote.py) *)
(* and the Chroma store (app/providers/store.py): one episode, one run     *)
(* after another.  A run chunks a transcript with the loops of Chunker,    *)
(* embeds the chunks in requests of BatchSize, deletes the rows of the     *)
(* episode and upserts the new ones in batches of MaxBatch.  Every call    *)
(* may raise, and the process may be killed between any two of them.       *)
(*                                                                         *)
(* Chroma itself is outside: each call of it is one transaction.  A row is *)
(* found by the position of its chunk, as the id of a chunk is the slug of *)
(* the episode and the position; it remembers which run made its text and  *)
(* which chunk of that run its vector was computed from.                   *)
(***************************************************************************)
EXTENDS Chunker, SequencesExt

CONSTANTS
    BatchSize,      \* embedding_batch_size: texts of one request
    MaxBatch,       \* _MAX_BATCH: rows of one upsert
    MaxRuns         \* bound of the model: runs of ingest.py

ASSUME ChromaIngestAssumption ==
    /\ <<>> \in Transcripts
    /\ BatchSize \in Nat \ {0} /\ MaxBatch \in Nat \ {0} /\ MaxRuns \in Nat

VARIABLES
    stage,      \* where the run is
    texts,      \* how many chunks the run made
    vectors,    \* which chunk each vector was computed from, as received
    stored,     \* how many chunks were upserted
    rows,       \* the collection: [position -> [run, of]]
    report,     \* the status the latest run reported
    runs,
    made,       \* history: the latest run that reported "indexed", its chunks
    halfway     \* history: a later run stopped behind its delete

callVars == vars
runVars == <<stage, texts, vectors, stored, rows, report, runs, made, halfway>>
ingestVars == <<callVars, runVars>>

\* The locals of chunk_transcript: at the start of a call, and when none is
\* running.
Locals(transcript) ==
    /\ segments' = transcript
    /\ s' = 1 /\ cut' = Whole /\ pieces' = <<>>
    /\ i' = 1 /\ first' = 1 /\ load' = 0
    /\ chunks' = <<>> /\ done' = FALSE

IngestInit ==
    /\ Init /\ segments = <<>>
    /\ stage = "idle"
    /\ texts = 0 /\ vectors = <<>> /\ stored = 0
    /\ rows = <<>>
    /\ report = "none"
    /\ runs = 0
    /\ made = [run |-> 0, size |-> 0]
    /\ halfway = FALSE

-----------------------------------------------------------------------------
(* A run: skip or chunk. *)

\* `episode in already_indexed and not force`: one row is enough.
Skips(force) == rows # <<>> /\ ~force

StartSkips(force) ==
    /\ stage = "idle" /\ runs < MaxRuns
    /\ Skips(force)
    /\ runs' = runs + 1
    /\ report' = "skipped"
    /\ UNCHANGED <<callVars, stage, texts, vectors, stored, rows, made, halfway>>

Start(force, transcript) ==
    /\ stage = "idle" /\ runs < MaxRuns
    /\ ~Skips(force)
    /\ Locals(transcript)
    /\ stage' = "chunk"
    /\ runs' = runs + 1
    /\ report' = "none"
    /\ UNCHANGED <<texts, vectors, stored, rows, made, halfway>>

ChunkStep ==
    /\ stage = "chunk"
    /\ \/ DropBlank \/ KeepSegment \/ SplitWord \/ SplitRest
       \/ PackPiece \/ EmitAndPack \/ Finish
    /\ UNCHANGED runVars

\* The run is over: what it held in memory is gone.
Ends(status) ==
    /\ stage' = "idle"
    /\ report' = status
    /\ Locals(<<>>)
    /\ texts' = 0 /\ vectors' = <<>> /\ stored' = 0
    /\ UNCHANGED runs

\* No speech: the rows of the episode stay.
Chunked ==
    /\ stage = "chunk" /\ done
    /\ IF chunks = <<>>
         THEN Ends("empty")
         ELSE /\ stage' = "embed"
              /\ texts' = Len(chunks)
              /\ Locals(<<>>)
              /\ UNCHANGED <<vectors, stored, report, runs>>
    /\ UNCHANGED <<rows, made, halfway>>

-----------------------------------------------------------------------------
(* embed_documents of the hosted embedder: one request for each batch. *)

\* The numbers behind n, at most k of them and none beyond the last chunk.
Batch(n, k) == (n + 1)..(IF n + k < texts THEN n + k ELSE texts)

\* An answer names the input of each vector by its index.  Nothing makes the
\* provider keep the order of the inputs, nor send a vector for each.
Answers(batch) == SetToAllKPermutations(batch)

\* Mutated: the vectors are taken in the order they came.
ParsedAsSent(data) == data

\* sorted(data, key=index): k - 1 indexes are lower than the k-th.
Parsed(data) ==
    LET indexes == ToSet(data)
    IN [k \in 1..Len(data) |->
           CHOOSE x \in indexes : Cardinality({y \in indexes : y < x}) = k - 1]

\* A shorter answer is an EmbeddingError, which is not retried.
Accepts(data, batch) == Len(data) = Cardinality(batch)

EmbedBatch(data) ==
    /\ stage = "embed"
    /\ LET batch == Batch(Len(vectors), BatchSize)
       IN /\ Accepts(data, batch)
          /\ vectors' = vectors \o Parsed(data)
          /\ stage' = IF Max(batch) = texts THEN "delete" ELSE "embed"
    /\ UNCHANGED <<callVars, texts, stored, rows, report, runs, made, halfway>>

\* The request fails for good, or its answer is refused.
EmbedRaises ==
    /\ stage = "embed"
    /\ Ends("failed")
    /\ UNCHANGED <<rows, made, halfway>>

-----------------------------------------------------------------------------
(* embed_and_store: delete_episode, then upsert. *)

\* Mutated: the rows of earlier runs are left to be overwritten.
DeleteNothing ==
    /\ stage = "delete"
    /\ stage' = "upsert"
    /\ halfway' = TRUE
    /\ UNCHANGED <<callVars, texts, vectors, stored, rows, report, runs, made>>

Delete ==
    /\ stage = "delete"
    /\ rows' = <<>>
    /\ stage' = "upsert"
    /\ halfway' = TRUE
    /\ UNCHANGED <<callVars, texts, vectors, stored, report, runs, made>>

Upserted(batch) ==
    [k \in DOMAIN rows \cup batch |->
        IF k \in batch THEN [run |-> runs, of |-> vectors[k]] ELSE rows[k]]

\* Mutated: only the first batch is written.
UpsertFirstBatch ==
    /\ stage = "upsert"
    /\ rows' = Upserted(Batch(stored, MaxBatch))
    /\ stored' = Max(Batch(stored, MaxBatch))
    /\ stage' = "count"
    /\ UNCHANGED <<callVars, texts, vectors, report, runs, made, halfway>>

UpsertBatch ==
    /\ stage = "upsert"
    /\ LET batch == Batch(stored, MaxBatch)
       IN /\ rows' = Upserted(batch)
          /\ stored' = Max(batch)
          /\ stage' = IF Max(batch) = texts THEN "count" ELSE "upsert"
    /\ UNCHANGED <<callVars, texts, vectors, report, runs, made, halfway>>

\* Behind the last batch the collection is counted, for the log; then the episode
\* is reported.
Counted ==
    /\ stage = "count"
    /\ made' = [run |-> runs, size |-> texts]
    /\ halfway' = FALSE
    /\ Ends("indexed")
    /\ UNCHANGED rows

\* Chroma raises; what earlier calls wrote stays.  The count may raise as well:
\* then an episode that is stored to its last row is reported as failed.
StoreRaises ==
    /\ stage \in {"delete", "upsert", "count"}
    /\ Ends("failed")
    /\ UNCHANGED <<rows, made, halfway>>

Kill ==
    /\ stage # "idle"
    /\ Ends("none")
    /\ UNCHANGED <<rows, made, halfway>>

IngestNext ==
    \/ \E force \in BOOLEAN :
          StartSkips(force) \/ \E transcript \in Transcripts : Start(force, transcript)
    \/ ChunkStep \/ Chunked
    \/ \E data \in Answers(Batch(Len(vectors), BatchSize)) : EmbedBatch(data)
    \/ EmbedRaises
    \/ Delete \/ UpsertBatch \/ Counted \/ StoreRaises
    \/ Kill

IngestSpec == IngestInit /\ [][IngestNext]_ingestVars

-----------------------------------------------------------------------------
(* Properties (the type invariant is that of the loops, in Chunker). *)

\* Nothing is deleted before every chunk has its own vector, in the order of the
\* chunks, however the provider ordered its answers and whatever it left out:
\* from then on no answer of the embedder can cost the episode its rows.
EmbeddedBeforeDelete ==
    stage \in {"delete", "upsert", "count"} => vectors = [k \in 1..texts |-> k]

\* The collection never mixes two runs, leaves no hole and puts no chunk beside
\* the vector of another one, also where a run stopped between two batches ("no
\* duplicates, no stale chunks").
NeverMixed ==
    /\ DOMAIN rows = 1..Cardinality(DOMAIN rows)
    /\ \A k \in DOMAIN rows : rows[k] = [run |-> rows[1].run, of |-> k]

\* Until a run stops behind its delete, the collection holds all of what the
\* latest run that reported "indexed" made: failing embedders, kills before the
\* delete, silent transcripts and skipped runs take nothing away.
WholeUnlessHalfway ==
    ~halfway => rows = [k \in 1..made.size |-> [run |-> made.run, of |-> k]]

=============================================================================
