------------------------------- MODULE Ingest -------------------------------
(***************************************************************************)
(* ingest.py over the store of NumpyStore: one run after another, each with*)
(* its own settings and flags, that transcribes, chunks, embeds and stores *)
(* the episodes of the folder and stamps the manifest at the end.  A step  *)
(* may raise, a write may fail, and the process may die between any two    *)
(* steps and in the middle of a write.                                     *)
(*                                                                         *)
(* The transcriber and the embedder themselves are outside: they answer or *)
(* raise.  How many chunks a transcript gives is left open, because it     *)
(* depends on CHUNK_TOKENS, which may change between runs.                 *)
(***************************************************************************)
EXTENDS NumpyStore

CONSTANTS
    MaxRuns,        \* bound of the model: runs of ingest.py
    MaxCrashes,     \* bound of the model: runs that are killed
    NoTranscript,   \* the run has no transcript yet
    NoRun           \* no run in progress

ASSUME IngestAssumption == MaxRuns \in Nat /\ MaxCrashes \in Nat

VARIABLES
    run,            \* settings and progress of the run, or NoRun
    pc,             \* where the run is
    transcripts,    \* data/transcripts: [slug -> file]
    report,         \* status reported for each episode in the latest run
    made,           \* history: chunks made for each episode in the latest run
    runs, crashes

ingestVars == <<run, pc, transcripts, report, made, runs, crashes>>
vars == <<storeVars, ingestVars>>

Slugs == {Slug[e] : e \in Episodes}
Transcript == [ep : Episodes, heard : Transcribers]
Runs == [embedder : Embedders, transcriber : Transcribers,
         force : BOOLEAN, retranscribe : BOOLEAN,
         todo : Seq(Episodes), already : SUBSET Episodes,
         transcript : Transcript \cup {NoTranscript}, chunks : SUBSET Chunk]

ASSUME NothingAssumption ==
    {Missing, Torn, NoTranscript} \cap Transcript = {} /\ NoRun \notin Runs

Init ==
    /\ StoreInit
    /\ run = NoRun
    /\ pc = "idle"
    /\ transcripts = [s \in Slugs |-> Missing]
    /\ report = [e \in Episodes |-> "none"]
    /\ made = [e \in Episodes |-> {}]
    /\ runs = 0
    /\ crashes = 0

InOrder(episodes) == Ordered(episodes, <)

\* The episode whose turn it is.
Current == Head(run.todo)

\* A report is written for the current episode and the loop goes on.
Advance(status) ==
    /\ report' = [report EXCEPT ![Current] = status]
    /\ run' = [run EXCEPT !.todo = Tail(@)]
    /\ pc' = "next"

-----------------------------------------------------------------------------
(* Starting a run: discover the episodes and ask the store what it has. *)

Start(embedder, transcriber, force, retranscribe, limit) ==
    /\ pc = "idle"
    /\ runs < MaxRuns
    /\ Loads
    /\ table' = Loaded
    /\ run' = [embedder |-> embedder, transcriber |-> transcriber,
               force |-> force, retranscribe |-> retranscribe,
               todo |-> SubSeq(InOrder(Episodes), 1, limit),
               already |-> EpisodesOf(Loaded.chunks),
               transcript |-> NoTranscript, chunks |-> {}]
    /\ pc' = "next"
    /\ report' = [e \in Episodes |-> "none"]
    /\ made' = [e \in Episodes |-> {}]
    /\ runs' = runs + 1
    /\ UNCHANGED <<files, unsaved, faults, transcripts, crashes>>

\* store.episodes() raises outside the try block: the run ends at once.
StartRaises ==
    /\ pc = "idle"
    /\ runs < MaxRuns
    /\ ~Loads
    /\ runs' = runs + 1
    /\ UNCHANGED <<storeVars, run, pc, transcripts, report, made, crashes>>

-----------------------------------------------------------------------------
(* One episode. *)

\* `episode in already_indexed and not force`.
Skips == Current \in run.already /\ ~run.force

Skip ==
    /\ pc = "next" /\ run.todo # <<>>
    /\ Skips
    /\ Advance("skipped")
    /\ UNCHANGED <<storeVars, transcripts, made, runs, crashes>>

Takes == pc = "next" /\ run.todo # <<>> /\ ~Skips

Cached == transcripts[Slug[Current]]

\* Mutated: whatever transcript is cached is used.
CacheServesAny == ~run.retranscribe /\ Cached \notin {Missing, Torn}

\* The cached transcript is used: it exists, --retranscribe was not given, and
\* the same transcriber wrote it.
CacheServes ==
    /\ ~run.retranscribe
    /\ Cached \notin {Missing, Torn}
    /\ Cached.heard = run.transcriber

UseCached ==
    /\ Takes
    /\ CacheServes
    /\ run' = [run EXCEPT !.transcript = Cached]
    /\ pc' = "chunk"
    /\ UNCHANGED <<storeVars, transcripts, report, made, runs, crashes>>

\* json.loads raises on a transcript that was cut short.
CachedIsTorn == ~run.retranscribe /\ Cached = Torn

Transcribe ==
    /\ Takes
    /\ ~CacheServes /\ ~CachedIsTorn
    /\ run' = [run EXCEPT !.transcript = [ep |-> Current, heard |-> run.transcriber]]
    /\ pc' = "caching"
    /\ UNCHANGED <<storeVars, transcripts, report, made, runs, crashes>>

TranscribeRaises ==
    /\ Takes
    /\ ~CacheServes
    /\ Advance("failed")
    /\ UNCHANGED <<storeVars, transcripts, made, runs, crashes>>

SaveTranscript ==
    /\ pc = "caching"
    /\ transcripts' = [transcripts EXCEPT ![Slug[Current]] = run.transcript]
    /\ pc' = "chunk"
    /\ UNCHANGED <<storeVars, run, report, made, runs, crashes>>

SaveTranscriptRaises ==
    /\ pc = "caching"
    /\ faults < MaxFaults
    /\ faults' = faults + 1
    /\ \/ transcripts' = [transcripts EXCEPT ![Slug[Current]] = Torn]
       \/ UNCHANGED transcripts
    /\ Advance("failed")
    /\ UNCHANGED <<files, table, unsaved, made, runs, crashes>>

\* No speech: the run goes on and the store is not touched.
ChunkNothing ==
    /\ pc = "chunk"
    /\ Advance("empty")
    /\ UNCHANGED <<storeVars, transcripts, made, runs, crashes>>

\* The chunks carry the episode name of the transcript.
ChunkTranscript(n) ==
    /\ pc = "chunk"
    /\ run' = [run EXCEPT !.chunks =
           {[ep |-> run.transcript.ep, ix |-> i, heard |-> run.transcript.heard] :
                i \in 1..n}]
    /\ pc' = "embed"
    /\ UNCHANGED <<storeVars, transcripts, report, made, runs, crashes>>

\* Mutated: the old rows are deleted before the embedder is asked.
EmbedRaisesLate ==
    /\ pc = "embed"
    /\ DeleteEpisode(Current)
    /\ Advance("failed")
    /\ UNCHANGED <<files, faults, transcripts, made, runs, crashes>>

EmbedRaises ==
    /\ pc = "embed"
    /\ Advance("failed")
    /\ UNCHANGED <<storeVars, transcripts, made, runs, crashes>>

\* Mutated: the old rows of the episode are left in place.
EmbedAndKeep ==
    /\ pc = "embed"
    /\ pc' = "upsert"
    /\ UNCHANGED <<storeVars, run, report, transcripts, made, runs, crashes>>

\* Every chunk is embedded first; only then are the old rows deleted.
EmbedAndDelete ==
    /\ pc = "embed"
    /\ \/ DeleteEpisode(Current) /\ pc' = "upsert" /\ UNCHANGED <<run, report>>
       \/ DeleteRaises(Current) /\ Advance("failed")
    /\ UNCHANGED <<files, faults, transcripts, made, runs, crashes>>

UpsertChunks ==
    /\ pc = "upsert" /\ Saved
    /\ \/ Upsert(run.chunks, run.embedder) /\ pc' = "stored" /\ UNCHANGED <<run, report>>
       \/ UpsertRaises(run.chunks, run.embedder) /\ Advance("failed")
    /\ UNCHANGED <<files, faults, transcripts, made, runs, crashes>>

ReportIndexed ==
    /\ pc = "stored" /\ Saved
    /\ made' = [made EXCEPT ![Current] = run.chunks]
    /\ Advance("indexed")
    /\ UNCHANGED <<storeVars, transcripts, runs, crashes>>

-----------------------------------------------------------------------------
(* Writes, the stamp at the end of every run, and crashes. *)

Save ==
    /\ SaveNext
    /\ UNCHANGED ingestVars

\* A write that raises fails the episode, or ends the run if it was the stamp.
SaveFails ==
    /\ SaveRaises
    /\ IF pc = "stamp"
         THEN pc' = "idle" /\ run' = NoRun /\ table' = NotLoaded /\ UNCHANGED report
         ELSE Advance("failed") /\ UNCHANGED table
    /\ UNCHANGED <<transcripts, made, runs, crashes>>

\* _record_provenance, whatever happened to the episodes.
Stamp ==
    /\ pc = "next" /\ run.todo = <<>>
    /\ SetManifest(run.embedder)
    /\ pc' = "stamp"
    /\ UNCHANGED <<files, faults, run, transcripts, report, made, runs, crashes>>

Finish ==
    /\ pc = "stamp" /\ Saved
    /\ pc' = "idle"
    /\ run' = NoRun
    /\ table' = NotLoaded
    /\ UNCHANGED <<files, unsaved, faults, transcripts, report, made, runs, crashes>>

Crash ==
    /\ pc # "idle"
    /\ crashes < MaxCrashes
    /\ crashes' = crashes + 1
    /\ StoreCrash
    /\ \/ pc = "caching" /\ transcripts' = [transcripts EXCEPT ![Slug[Current]] = Torn]
       \/ UNCHANGED transcripts
    /\ pc' = "idle"
    /\ run' = NoRun
    /\ UNCHANGED <<report, made, runs>>

Next ==
    \/ \E e \in Embedders, w \in Transcribers, force, retranscribe \in BOOLEAN,
          limit \in 1..Cardinality(Episodes) :
             Start(e, w, force, retranscribe, limit)
    \/ StartRaises
    \/ Skip
    \/ UseCached \/ Transcribe \/ TranscribeRaises
    \/ SaveTranscript \/ SaveTranscriptRaises
    \/ ChunkNothing \/ \E n \in 1..MaxChunks : ChunkTranscript(n)
    \/ EmbedRaises \/ EmbedAndDelete
    \/ UpsertChunks \/ ReportIndexed
    \/ Save \/ SaveFails
    \/ Stamp \/ Finish
    \/ Crash

Spec == Init /\ [][Next]_vars

-----------------------------------------------------------------------------
(* Properties. *)

\* Type invariant of the store, the run and the transcript cache.
TypeOK ==
    /\ StoreTypeOK
    /\ run \in Runs \cup {NoRun}
    /\ pc \in {"idle", "next", "caching", "chunk", "embed", "upsert", "stored", "stamp"}
    /\ (pc = "idle") = (run = NoRun) /\ (pc = "idle") = (table = NotLoaded)
    /\ transcripts \in [Slugs -> Transcript \cup {Missing, Torn}]
    /\ report \in [Episodes -> {"none", "skipped", "indexed", "empty", "failed"}]
    /\ made \in [Episodes -> SUBSET Chunk]
    /\ runs \in 0..MaxRuns /\ crashes \in 0..MaxCrashes

\* A server that starts on the files as they are at any instant, in the middle
\* of a run or after a crash at any write, never pairs a chunk with the vector
\* of another one ("chunk metadata and text, in the same row order").
ServedAligned ==
    \A m \in Embedders : Boots(m) =>
        \A i \in DOMAIN Loaded.chunks :
            i \in DOMAIN Loaded.vectors /\ Loaded.vectors[i].of = Loaded.chunks[i]

\* Between runs, a server that starts finds only vectors of the embedder it will
\* embed the questions with ("boot fails on mismatch").
ServedByItsEmbedder ==
    \A m \in Embedders : (pc = "idle" /\ Boots(m)) =>
        \A i \in DOMAIN Loaded.vectors : Loaded.vectors[i].by = m

\* The chunks that are served were all heard by one transcriber ("You can't
\* accidentally serve a mix of two vocabularies").
OneVocabulary ==
    Loads => \A i, j \in DOMAIN Loaded.chunks :
                Loaded.chunks[i].heard = Loaded.chunks[j].heard

\* The episodes a run may be about to replace: the current one, between the
\* delete and the last file of the upsert.
AtRisk == IF pc \in {"upsert", "stored"} THEN {Current} ELSE {}

\* Whatever raises or crashes, an episode that was indexed when the run began
\* can be missing from a loadable index only if it is the one being replaced:
\* a transcriber or embedder that fails never costs an indexed episode.
OnlyCurrentAtRisk ==
    (pc # "idle" /\ Loads) => run.already \ AtRisk \subseteq EpisodesOf(Loaded.chunks)

\* Rows of the table that hold a chunk of episode e.
RowsOf(e) == {i \in DOMAIN table.chunks : table.chunks[i].ep = e}

\* An episode reported as indexed is in the table with exactly the chunks made
\* for it, under its own name and each beside its own vector: no stale chunks,
\* no duplicates, whatever other episodes failed before or after.
ReportedIsStored ==
    pc \in {"next", "stamp"} =>
        \A e \in Episodes : report[e] = "indexed" =>
            /\ made[e] # {}
            /\ {table.chunks[i] : i \in RowsOf(e)} = made[e]
            /\ Cardinality(RowsOf(e)) = Cardinality(made[e])
            /\ \A i \in RowsOf(e) :
                  /\ i <= Len(table.vectors)
                  /\ table.vectors[i] = [of |-> table.chunks[i], by |-> run.embedder]

\* What a run indexes was heard by its own transcriber: a transcript cached by
\* another model or prompt is never served, whichever run wrote it last and
\* whether or not that run was cut short.
IndexedAfresh ==
    pc # "idle" =>
        \A e \in Episodes : \A c \in made[e] : c.heard = run.transcriber

\* A run that reaches its end leaves on disk exactly what it had in memory, in
\* all three files and under the name of its embedder, whichever writes failed
\* and whichever vectors could not be stacked before.
FinishedIsSaved ==
    [][(pc = "stamp" /\ pc' = "idle" /\ crashes' = crashes /\ faults' = faults)
         => /\ files = Contents
            /\ files.manifest = run.embedder]_vars

=============================================================================
