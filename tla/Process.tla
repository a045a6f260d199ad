------------------------------ MODULE Process ------------------------------
(***************************************************************************)
(* One process that builds a RagPipeline from the settings and asks it     *)
(* questions: the server, whose lifespan (main.py) checks and loads        *)
(* everything before its worker threads answer, or eval.py, which builds   *)
(* the pipeline and puts its cases one after the other, with no check      *)
(* before them.                                                            *)
(*                                                                         *)
(* The index is read by load() of app/providers/store_numpy.py and the     *)
(* model by _load() of app/providers/embeddings_onnx.py, each on first use,*)
(* without a lock: its first field is tested, set and followed by another, *)
(* in steps of their own, and what is loaded is taken for whole as soon as *)
(* that field is set.  Of the index only the counts matter here, and       *)
(* whether its vectors have the length of the question's.                  *)
(***************************************************************************)
EXTENDS Integers, Sequences

CONSTANTS
    Threads,        \* worker threads of the server
    Main,           \* the thread that boots, and that runs eval.py
    Embedders,      \* names of embedders
    NoName,         \* no embedder recorded
    MaxRows,        \* bound of the model: vectors or chunks on disk
    Cases,          \* cases of the evaluation set
    Missing, Torn,  \* a file that is absent, and one that does not parse
    NotLoaded       \* a field that is still None

ASSUME ProcessAssumption ==
    /\ Main \notin Threads
    /\ NoName \notin Embedders
    /\ MaxRows \in Nat /\ Cases \in Nat \ {0}
    /\ {Missing, Torn, NotLoaded} \cap Nat = {}

VARIABLES
    settings,   \* [serves, chat, backend, embedder]: see Settings
    disk,       \* the files of the index and of the ONNX model
    at,         \* per thread: where it is
    vectors, chunks, manifest,  \* the store: _embeddings, _chunks, _manifest
    session, tokenizer,         \* the ONNX embedder: fields set or not
    stats,      \* app.state.stats: the chunks counted at boot
    outcome,    \* per thread: what its last question came to
    results,    \* eval.py: [outcome, sound] per case
    exit        \* eval.py: the exit code

store == <<vectors, chunks, manifest>>
model == <<session, tokenizer>>
given == <<settings, disk>>
observed == <<stats, results, exit>>
vars == <<given, at, store, model, outcome, observed>>

Actors == Threads \cup {Main}

\* What can be configured: the server or eval.py; a chat model that has the key it
\* needs or not; the embedder, local or hosted, which may lack its key or, when it
\* is sentence-transformers, its package; and the embedder's name.
Settings ==
    [serves : BOOLEAN, chat : {"keyless", "ready"},
     backend : {"onnx", "hosted", "keyless", "uninstalled"}, embedder : Embedders]

\* Whatever a run of ingestion, killed at any point, or a commit leaves behind.
Disks ==
    [vectors : {Missing, Torn} \cup 0..MaxRows,
     chunks : {Missing, Torn} \cup 0..MaxRows,
     manifest : {Missing, Torn, NoName} \cup Embedders,
     fits : BOOLEAN,        \* the vectors are as long as a question's
     model : {Missing, Torn, "present"},
     tokenizer : {Missing, Torn, "present"}]

Init ==
    /\ settings \in Settings /\ disk \in Disks
    /\ at = [a \in Actors |->
                IF a # Main THEN "idle"
                ELSE IF settings.serves THEN "validate" ELSE "build"]
    /\ vectors = NotLoaded /\ chunks = NotLoaded /\ manifest = NotLoaded
    /\ session = FALSE /\ tokenizer = FALSE
    /\ stats = NotLoaded
    /\ outcome = [a \in Actors |-> "none"]
    /\ results = <<>>
    /\ exit = NotLoaded

Onnx == settings.backend = "onnx"

\* The thread is in the lifespan of the server rather than in answer().
Booting(a) == a = Main /\ settings.serves

Go(a, place) == at' = [at EXCEPT ![a] = place]

\* A case of eval.py is over.  The table is sound when its counts agree.
Record(a, what) ==
    results' = IF a = Main
                 THEN Append(results, [outcome |-> what, sound |-> vectors = chunks])
                 ELSE results

\* The question of thread a is over: "empty" is the refusal for want of any
\* chunk, "failed" an exception with a message, "asserted" one without.
Ends(a, what) ==
    /\ Go(a, "idle")
    /\ outcome' = [outcome EXCEPT ![a] = what]
    /\ Record(a, what)
    /\ UNCHANGED <<stats, exit>>

\* Something raises: the boot fails, or the question does.
Raises(a, what) ==
    IF Booting(a)
      THEN Go(a, "down") /\ UNCHANGED <<outcome, observed>>
      ELSE Ends(a, what)

-----------------------------------------------------------------------------
(* lifespan and main() of eval.py, up to the first question. *)

\* What validate_serving_config finds: keys, the ONNX model but not its tokenizer,
\* the vectors but not the chunks, and no missing package.
Problems ==
    \/ settings.chat = "keyless"
    \/ settings.backend = "keyless"
    \/ Onnx /\ disk.model = Missing
    \/ disk.vectors = Missing

Validate ==
    /\ at[Main] = "validate"
    /\ IF Problems THEN Go(Main, "down") ELSE Go(Main, "build")
    /\ UNCHANGED <<given, store, model, outcome, observed>>

\* build_embedder and build_chat_model raise ConfigurationError, or return an
\* object that has loaded nothing.
EmbedderBuilds == settings.backend \notin {"keyless", "uninstalled"}

ChatModelBuilds == settings.chat # "keyless"

\* build_pipeline.  What it raises ends eval.py, too.
Build ==
    /\ at[Main] = "build"
    /\ Go(Main, IF ~(EmbedderBuilds /\ ChatModelBuilds) THEN "down"
                ELSE IF settings.serves THEN "index" ELSE "idle")
    /\ UNCHANGED <<given, store, model, outcome, observed>>

\* Mutated: any recorded embedder will do.
VerifyNothing ==
    /\ at[Main] = "verify"
    /\ Go(Main, "model")
    /\ UNCHANGED <<given, store, model, outcome, observed>>

\* verify_embedder, with the manifest that load() has read.
Verify ==
    /\ at[Main] = "verify"
    /\ Go(Main, IF manifest \in {NoName, settings.embedder} THEN "model" ELSE "down")
    /\ UNCHANGED <<given, store, model, outcome, observed>>

\* Mutated: counted as the store is before it is loaded.
IndexedChunksUnloaded == 0

\* count() of the store that warm_up has loaded.
IndexedChunks == chunks

\* index_stats, once for the life of the process; then requests are accepted.
Stats ==
    /\ at[Main] = "stats"
    /\ stats' = IndexedChunks
    /\ Go(Main, "up")
    /\ UNCHANGED <<given, store, model, outcome, results, exit>>

-----------------------------------------------------------------------------
(* load() of the store, by whoever needs it first. *)

\* Where a thread goes on once load() has returned.
Reads(a) == Go(a, IF Booting(a) THEN "verify" ELSE "search")

Exists == disk.vectors # Missing /\ disk.chunks # Missing

\* A call returns at once when the vectors are there.
UseIndex(a) ==
    /\ at[a] = "index"
    /\ IF vectors # NotLoaded THEN Reads(a) ELSE Go(a, "vectors")
    /\ UNCHANGED <<given, store, model, outcome, observed>>

\* The vectors are assigned before anything else is read.
LoadVectors(a) ==
    /\ at[a] = "vectors"
    /\ \/ /\ ~Exists
          /\ vectors' = 0 /\ chunks' = 0 /\ manifest' = NoName
          /\ Reads(a)
          /\ UNCHANGED <<outcome, observed>>
       \/ /\ Exists /\ disk.vectors = Torn
          /\ Raises(a, "failed")
          /\ UNCHANGED store
       \/ /\ Exists /\ disk.vectors # Torn
          /\ vectors' = disk.vectors
          /\ Go(a, "chunks")
          /\ UNCHANGED <<chunks, manifest, outcome, observed>>
    /\ UNCHANGED <<given, model>>

\* Mutated: the counts are not compared.
LoadChunksUncounted(a) ==
    /\ at[a] = "chunks"
    /\ chunks' = IF disk.chunks = Torn THEN chunks ELSE disk.chunks
    /\ manifest' = IF Torn \in {disk.chunks, disk.manifest} THEN manifest
                   ELSE IF disk.manifest = Missing THEN NoName ELSE disk.manifest
    /\ IF Torn \in {disk.chunks, disk.manifest}
         THEN Raises(a, "failed")
         ELSE Reads(a) /\ UNCHANGED <<outcome, observed>>
    /\ UNCHANGED <<given, vectors, model>>

\* Each file is read, and each field assigned, as far as the first error; the
\* counts are compared when all fields are set.
LoadChunks(a) ==
    /\ at[a] = "chunks"
    /\ chunks' = IF disk.chunks = Torn THEN chunks ELSE disk.chunks
    /\ manifest' = IF Torn \in {disk.chunks, disk.manifest} THEN manifest
                   ELSE IF disk.manifest = Missing THEN NoName ELSE disk.manifest
    /\ IF Torn \in {disk.chunks, disk.manifest} \/ chunks' # vectors
         THEN Raises(a, "failed")
         ELSE Reads(a) /\ UNCHANGED <<outcome, observed>>
    /\ UNCHANGED <<given, vectors, model>>

-----------------------------------------------------------------------------
(* embed_query, with _load() of the ONNX embedder. *)

\* Mutated: warm_up counts the chunks and leaves the model to the first question.
UseModelLater(a) ==
    /\ at[a] = "model"
    /\ Go(a, IF Booting(a) THEN "stats" ELSE IF session \/ ~Onnx THEN "encode" ELSE "session")
    /\ UNCHANGED <<given, store, model, outcome, observed>>

\* A session that is set is taken for a loaded model; a hosted one has none.
UseModel(a) ==
    /\ at[a] = "model"
    /\ Go(a, IF session \/ ~Onnx THEN "encode" ELSE "session")
    /\ UNCHANGED <<given, store, model, outcome, observed>>

LoadSession(a) ==
    /\ at[a] = "session"
    /\ IF disk.model # "present" \/ disk.tokenizer = Missing
         THEN Raises(a, "failed") /\ UNCHANGED session
         ELSE session' = TRUE /\ Go(a, "tokenizer") /\ UNCHANGED <<outcome, observed>>
    /\ UNCHANGED <<given, store, tokenizer>>

LoadTokenizer(a) ==
    /\ at[a] = "tokenizer"
    /\ IF disk.tokenizer = Torn
         THEN Raises(a, "failed") /\ UNCHANGED tokenizer
         ELSE tokenizer' = TRUE /\ Go(a, "encode") /\ UNCHANGED <<outcome, observed>>
    /\ UNCHANGED <<given, store, session>>

\* `assert self._session is not None and self._tokenizer is not None`
Encode(a) ==
    /\ at[a] = "encode"
    /\ IF Onnx /\ ~tokenizer
         THEN Raises(a, "asserted")
         ELSE Go(a, IF Booting(a) THEN "stats" ELSE "index") /\ UNCHANGED <<outcome, observed>>
    /\ UNCHANGED <<given, store, model>>

\* The hosted embedder gives up, be it on the question or on "warm up".
EncodeRaises(a) ==
    /\ at[a] = "encode" /\ ~Onnx
    /\ Raises(a, "failed")
    /\ UNCHANGED <<given, store, model>>

-----------------------------------------------------------------------------
(* answer(): embed the question, search the store, ask the chat model. *)

\* Mutated: eval.py goes over the end of its cases.
AskOnceMore(a) ==
    /\ at[a] = "idle"
    /\ IF a = Main THEN Len(results) <= Cases ELSE at[Main] = "up"
    /\ Go(a, "model")
    /\ outcome' = [outcome EXCEPT ![a] = "none"]
    /\ UNCHANGED <<given, store, model, observed>>

\* A request reaches a worker thread, or eval.py puts its next case.
Ask(a) ==
    /\ at[a] = "idle"
    /\ IF a = Main THEN Len(results) < Cases ELSE at[Main] = "up"
    /\ Go(a, "model")
    /\ outcome' = [outcome EXCEPT ![a] = "none"]
    /\ UNCHANGED <<given, store, model, observed>>

\* Mutated: a table that is not loaded is waited for.
SearchLoaded(a) ==
    /\ at[a] = "search"
    /\ chunks # NotLoaded
    /\ \/ chunks = 0 /\ Ends(a, "empty")
       \/ chunks # 0 /\ (~disk.fits \/ vectors = 0 \/ vectors > chunks) /\ Ends(a, "failed")
       \/ chunks # 0 /\ disk.fits /\ vectors # 0 /\ Ends(a, "answered")
    /\ UNCHANGED <<given, store, model>>

\* The store has no chunk; or it raises, because the lengths differ or a row has
\* no chunk; or the chat model is asked, or spared when nothing is near enough.
Search(a) ==
    /\ at[a] = "search"
    /\ \/ chunks = NotLoaded /\ Ends(a, "asserted")
       \/ chunks = 0 /\ Ends(a, "empty")
       \/ /\ chunks \notin {NotLoaded, 0}
          /\ ~disk.fits \/ vectors = 0 \/ vectors > chunks
          /\ Ends(a, "failed")
       \/ chunks \notin {NotLoaded, 0} /\ disk.fits /\ vectors # 0 /\ Go(a, "answer")
          /\ UNCHANGED <<outcome, observed>>
    /\ UNCHANGED <<given, store, model>>

\* A refusal for lack of a near chunk, a completion, or a GenerationError.
Answer(a) ==
    /\ at[a] = "answer"
    /\ \E what \in {"answered", "failed"} : Ends(a, what)
    /\ UNCHANGED <<given, store, model>>

-----------------------------------------------------------------------------
(* The end of eval.py. *)

\* `sum(1 for r in results if r.error)`: the message of an assertion is empty.
Errors == {k \in DOMAIN results : results[k].outcome = "failed"}

Summarise ==
    /\ at[Main] = "idle" /\ Len(results) = Cases
    /\ exit' = IF Errors = {} THEN 0 ELSE 1
    /\ Go(Main, "over")
    /\ UNCHANGED <<given, store, model, outcome, stats, results>>

Question(a) ==
    \/ UseIndex(a) \/ LoadVectors(a) \/ LoadChunks(a)
    \/ UseModel(a) \/ LoadSession(a) \/ LoadTokenizer(a) \/ Encode(a) \/ EncodeRaises(a)
    \/ Search(a) \/ Answer(a)

Boot == Validate \/ Build \/ Verify \/ Stats

Next ==
    \/ Boot
    \/ \E a \in Actors : Ask(a) \/ Question(a)
    \/ Summarise

\* Loading is local, calls have timeouts, and the loop of eval.py goes on by
\* itself; nobody has to ask the server anything.
Fairness ==
    /\ WF_vars(Boot) /\ WF_vars(Summarise) /\ WF_vars(Ask(Main))
    /\ \A a \in Actors : WF_vars(Question(a))

Spec == Init /\ [][Next]_vars /\ Fairness

-----------------------------------------------------------------------------
(* Properties. *)

Places ==
    {"idle", "model", "session", "tokenizer", "encode", "index", "vectors", "chunks",
     "search", "answer"}

\* Type invariant of the process.
TypeOK ==
    /\ settings \in Settings /\ disk \in Disks
    /\ at[Main] \in Places \cup {"validate", "build", "verify", "stats", "up", "down", "over"}
    /\ \A t \in Threads : at[t] \in Places
    /\ {vectors, chunks, stats} \subseteq {NotLoaded} \cup 0..MaxRows
    /\ manifest \in {NotLoaded, NoName} \cup Embedders
    /\ session \in BOOLEAN /\ tokenizer \in BOOLEAN
    /\ outcome \in [Actors -> {"none", "empty", "answered", "failed", "asserted"}]
    /\ Len(results) <= Cases
    /\ exit \in {NotLoaded, 0, 1}

\* A server that accepts requests has its providers, a table whose chunks and vectors
\* agree in number, built by the embedder of its questions as far as anybody
\* recorded it, and a model that is wholly loaded ("Anything expensive or fallible
\* happens here rather than on the request path").
UpIsSound ==
    at[Main] = "up" =>
        /\ EmbedderBuilds /\ ChatModelBuilds
        /\ vectors = chunks
        /\ manifest \in {NoName, settings.embedder}
        /\ Onnx => session /\ tokenizer

\* So no two questions ever race for the lazy loads, which have no lock: no
\* worker thread comes to load a part of the index or of the model, and none finds
\* one of them half loaded.
NobodyLoadsLate ==
    \A t \in Threads :
        /\ at[t] \notin {"vectors", "chunks", "session", "tokenizer"}
        /\ outcome[t] # "asserted"

\* What /health says at boot stays true of every question: it reports the index
\* as empty exactly when questions are refused for want of any chunk ("every
\* question would be refused until ingest.py has run").
HealthTruthful ==
    at[Main] = "up" =>
        \A t \in Threads :
            /\ outcome[t] = "empty" => stats = 0
            /\ outcome[t] = "answered" => stats > 0

\* eval.py never passes off a broken pipeline: exit code 0 means that no case
\* raised and that each was answered from a table whose counts agree, although
\* load() raises only once and the assertions after it have no message to count.
ExitTellsErrors ==
    exit = 0 => \A k \in DOMAIN results :
                    results[k].outcome \in {"empty", "answered"} /\ results[k].sound

\* Where a thread may stay: no question, or the process is up or has ended.
Resting(a) == at[a] \in {"idle", "up", "down", "over"}

\* Every boot ends, up or down, every question of the server is over at some
\* time, and an evaluation reaches its exit code unless it could not be built.
Settles ==
    /\ \A a \in Actors : ~Resting(a) ~> Resting(a)
    /\ ~settings.serves ~> at[Main] \in {"down", "over"}

=============================================================================
