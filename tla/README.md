# Verification of Ask the Commit

Ask the Commit answers questions about a podcast archive. Episodes are
transcribed, cut into chunks, embedded and written to an index on disk
(`ingest.py`, run by hand); a small HTTP service (`main.py`, `rag.py`) embeds a
question, looks up the nearest chunks and asks a chat model to answer from them.
This directory holds TLA+ models of the parts that keep state, the TLC runs that
check them and the TLAPS proofs of the theorems about them.

## The system

| Part | State | Operations | Talks to | What is hard about it |
| --- | --- | --- | --- | --- |
| Rate limiter `app/ratelimit.py` | per client a deque of stamps, in an `OrderedDict` | `check`, `reset` | called in a worker thread by `enforce_rate_limit` | the clock is read outside the lock; eviction; the boundary of the window |
| Answer cache `app/cache.py` | `OrderedDict` of (time, answer), counters | `get`, `put`, `clear` | called by `RagPipeline.answer` | LRU order, TTL, capacity, many threads |
| RAG pipeline `rag.py` | none of its own | `answer` | cache, embedder, store, chat model | lookup and put are separated by two slow calls that may raise |
| NumPy store `app/providers/store_numpy.py` | vectors, chunks and manifest in memory; three files | `load`, `search`, `upsert`, `delete_episode`, `set_manifest` | ingestion writes, the service reads | three files written in place, one after the other; half-done changes |
| Ingestion `ingest.py` | the run, transcript cache | discover, transcribe, chunk, embed, store, stamp | transcriber, embedder, store | long runs that fail, are killed and are repeated with other settings |
| HTTP service `main.py` | limiter, pipeline, health facts | boot, `/ask`, `/health` | limiter, pipeline | one pool of worker threads for everything |
| Chat model `app/providers/llm.py`, hosted embedder `embeddings_remote.py` | lazily built client | `complete`, `embed_*` with retries | the network | which failures are retried, for how long |
| ONNX embedder `embeddings_onnx.py` | lazily loaded session | `embed_*` | | the lazy load is not locked |
| Chunker `app/chunking.py` | none | `chunk_transcript` | called by ingestion | overlap and limits at the boundary |
| Chroma store `app/providers/store.py` | external database | `upsert` in batches, `delete_episode`, `search` | called by ingestion | a batch may fail after others were stored |
| Boot `main.py`, `app/factory.py` | pipeline, health facts | check, build, load, warm up | store, embedder | a dozen fallible steps in an order; lazy loads that nothing locks |
| Evaluation `eval.py` | results so far | one case after another | pipeline | goes on after errors, on what they left half done |
| Prompts, records, configuration, logging, web page | none | | | formatting and wiring |

## The models

| Module | Models | Extends |
| --- | --- | --- |
| `OrderedDict` | the order of the keys of a `collections.OrderedDict`: `Touch` is an assignment followed by `move_to_end`, `Newest` the loop over `popitem(last=False)` | |
| `RateLimiter` | `RateLimiter.check` and `reset` | `OrderedDict` |
| `AnswerCache` | `AnswerCache.get`, `put`, `clear` | `OrderedDict` |
| `AbstractCache` | what a bounded cache promises, order aside; `AnswerCache` implements it | |
| `RagPipeline` | `RagPipeline.answer` by several workers over the cache | `AnswerCache` |
| `NumpyStore` | the table in memory, the three files, and every change of either | |
| `Ingest` | runs of `ingest()` over the store and the transcript cache | `NumpyStore` |
| `AbstractIndex` | what the index promises to whoever reads its files | |
| `IngestIndex` | `Ingest` with a history of what the files last showed, which implements `AbstractIndex` | `Ingest` |
| `Chunker` | the three loops of `chunk_transcript` | |
| `ChromaIngest` | runs over one episode: the chunker, the requests of the hosted embedder, the batches of the Chroma store | `Chunker` |
| `Process` | a process from its start: the lifespan of the server and the questions of its threads, or `eval.py` | |
| `Serving` | `POST /ask` through the worker threads and the retry loops of both providers | |
| `MCRateLimiter`, `MCRagPipeline`, `MCIngest`, `MCIngestIndex`, `MCChromaIngest`, `MCServing`, `MCProcess` | small values of the constants for TLC | the module of the name |
| `OrderedDict_proofs`, `RateLimiter_proofs`, `AnswerCache_proofs`, `RagPipeline_proofs`, `Serving_proofs`, `Process_proofs` | theorems | the module of the name |
| `Chunker_proofs` | theorems about the chunker and about `ChromaIngest`, which runs it | `ChromaIngest` |
| `Ingest_proofs` | theorems about `Ingest` and `IngestIndex` | `IngestIndex` |

Definitions whose comment starts with "Mutated" are not part of a model. Each is
a version of the definition after it with a plausible mistake in it; putting it
in that definition's place must break one of the properties, which shows that
the property depends on the code it is about.

### Rate limiter

`check` is two steps of a thread. `Stamp` reads `time.monotonic()`, which the
code does before it takes the lock; `Decide` is everything under the lock:
look up the client, move it to the end, prune, then refuse or admit and evict.
Any number of ticks and of other threads' steps may come between the two, so
stamps can be recorded out of order. `PruneLen` follows the code: it stops at
the first stamp that has not expired, whatever lies behind it. `Reset` is
`reset()`. `log`, `promise` and `others` are history variables that the actions
write and never read: the true admissions of a client, what its last refusal
told it, and which clients were decided after it. The limiter is enabled; with
`max_requests` 0 the method returns at once.

### Answer cache and pipeline

Each method of the cache works under its lock, the clock included, and is one
step: `GetMiss`, `GetExpired` and `GetHit` are the three outcomes of `get`.
`RagPipeline.answer` is cut at the calls other threads can overtake: the lookup,
the retrieval (`Retrieve`, `Refuse` below the score floor, `RetrieveRaises`),
the generation (`Generate`, `GenerateRaises`) and the `put` (`Store`). A question
is a record of what is asked, how it is worded and to what depth; `Key` keeps
what `normalise_question` keeps. The text of an answer is either the refusal
sentence or something else, which is all the code looks at. `clear()` has no
caller in the service; the model lets it happen at any time.

`AbstractCache` says the same without the order of the keys, the counters and the
two kinds of lookup: a key maps to what was put last, an answer is lost to its
age, to `clear()`, or to a new key in a full cache, and a new key costs one
answer at most. `Remembers` is the refinement: `clock` and `entries` are the
abstract state, every put is a `Remember`, an expired lookup is a `Forget`, and
hits, misses and everything else of the pipeline stutter. Which answer makes
room is left open there; that it is the least recently used one is `KeepsRecent`.

### Store and ingestion

A chunk is an episode, a position and the transcriber that heard it; a vector
remembers the chunk and the embedder it came from, which is what an array of
floats cannot tell and what the properties are about. `table` is the store's
memory during a run, `files` is the directory, and `unsaved` lists the files that
the `_persist` in progress still has to write: one `Save` step each, so that a
kill (`Crash`) or an `OSError` (`SaveFails`) falls between any two writes or in
the middle of one (`Torn`). `Replaced` assigns the chunks first and the vectors
only if they can be stacked, as `_replace` does. A run is a sequence of steps
that follows `ingest()`: `Start` (or `StartRaises`, when the index cannot be
loaded), then per episode `Skip`, or a transcript from the cache or the
transcriber, chunks, `EmbedAndDelete`, `UpsertChunks`, `ReportIndexed`, and at
the end `Stamp` and `Finish`. Every step that may raise has a step for it, which
reports the episode as failed and goes on, as the `try` block does. Runs follow
each other with any embedder, transcriber, `--force`, `--retranscribe` and
`--limit`. How many chunks a transcript gives is left open, because the chunk
size is a setting. `Boots` says what a server that starts on the files would
find, once `validate_serving_config` has seen the vectors (`Configured`); it
may start at any instant, in the middle of a run included.

`AbstractIndex` is what such a server should be able to count on: the files cannot
be read, or they show of each episode everything one run made of it, or nothing;
from one reading to the next at most one episode differs, and it is emptied
before it is filled. `IngestIndex` adds the history variable `shown`, the chunks
of each episode when the files were last readable, and `ShowsWhole` is the
refinement under `readable <- Loads, index <- shown`: the unreadable instants lie
between the writes of `_persist`, a run that dies among them leaves the last
reading standing, and the rest stutters.

### Chunker

One behaviour is one call of `chunk_transcript`; a step is an iteration of one of
its loops. `DropBlank` and `KeepSegment` are the outcomes of `_prepare`,
`SplitWord` and `SplitRest` the loop of `_split_oversized`; then `PackPiece` and
`EmitAndPack` are the two sides of the condition in the packing loop, and
`Finish` is what follows it. A segment is its token count and those of its words,
which are independent, because a tokenizer need not be additive. Pieces are
ranges of words, windows and chunks ranges of pieces, so nothing is copied and
the token count of a range is a difference of two running totals. `Carry` is
`_carry_overlap`: where its backward loop stops. The interpolated time stamps are
left out. `Ingest` does not build on this module: for the NumPy index it is enough
that an episode gives some number of chunks. `ChromaIngest` does.

### Chroma and the hosted embedder

`ChromaIngest` is the other path of ingestion, where writing is not one file but
several calls. A run skips the episode or takes a transcript through the loops of
`Chunker` (`ChunkStep` runs its actions unchanged), then embeds the chunks in
requests of `BatchSize` (`EmbedBatch`), deletes the episode's rows (`Delete`) and
upserts the new ones in batches of `MaxBatch` (`UpsertBatch`); at last the collection
is counted for the log (`Counted`), and the episode is reported as indexed. An answer of the
provider is any sequence of distinct vectors of the request, in any order and of
any length; `Parsed` sorts by index and `Accepts` counts. Every call may raise
(`EmbedRaises`, `StoreRaises`), which ends the episode and leaves what earlier
calls wrote, and the process may be killed between any two (`Kill`). The locals of
a function are forgotten when it returns. A call of Chroma is a transaction: that
is the only thing assumed of it. The retries within a request are in `Serving`;
here only its outcome counts. `made` and `halfway` are history variables.

### The process

`Process` starts from nothing in memory and any files on disk: each of the vectors,
the chunks, the manifest, the ONNX model and its tokenizer may be whole, missing or
torn, and the numbers of vectors and chunks need not agree. A server (`Main` runs
the lifespan) goes through `validate`, `build`, `index`, `vectors` and `chunks`
(`load()`, for `verify_index_compatibility` is the first to need it), `verify`,
`model`, `session` and `tokenizer` (`_load()`), `encode`, `stats`, and is `up` or
`down`. Its worker threads then ask questions through the same actions, from
`model` to `encode` and from `index` to `search` and `answer`. At `index` and
`model` (`UseIndex`, `UseModel`) the first field is tested, and only a thread that
finds it unset goes on to the steps that read files and assign fields, so that
other threads may come between a test and its assignment. With `settings.serves` false, `Main` is `eval.py`: it builds the same
pipeline without any of the checks and puts `Cases` questions to it. Both lazy loads
are taken for done as soon as their first field is set, as the code does, and are
not locked. An exception (`Raises`) ends the boot, or the question, with a message
(`"failed"`) or without one (`"asserted"`), and leaves the fields it found. The
answer cache is left out, since a hit repeats an earlier outcome; so is the Chroma
store, which has no check at boot.

### Serving

A request is a path through `step`: sent, waiting for or in
`enforce_rate_limit` (`check`), waiting for or in `RagPipeline.answer` (`answer`,
then `embed` and `chat` while the provider of that name is called), `done`. Both
functions block, so FastAPI runs them in worker threads: `queue` holds the
requests that wait for one, and `Take` gives the head of it to an idle thread. A
request goes through the queue twice, because the handler is a coroutine and
`run_in_threadpool` submits `answer` anew. The thread is held during the calls and
during `time.sleep`, which is what makes retries everybody's problem.

The two retry loops have one shape and differ in `Delay` and `ErrorStatus`. A
failure is retryable or not (`transient`, `permanent`: which of them a status or
an exception is, the code decides by a list). `GiveUp` is the `break` and the
response; `Sleep` and `Wake` are the rest of the iteration and the start of the
next one.

What a provider asks for comes in headers, and a client can read some of them only.
A failed call has any reply in `Replies`: for each header complete() looks at, the
form it is written in (`Forms`) and the wait it stands for. `Read` says which headers
a client looks at, the embedder only at Retry-After, and `Legible` which forms it
understands: `float()` takes signs and exponents but no unit, `_parse_duration` the
reverse, and neither a date or a compound such as `6m0s`. `Hint` is the wait in the
first header that can be read, if any. `Delay` makes a pause of it: the chat client
adds a cushion and caps the sum, and caps its own backoff; the embedder caps the
provider's wait only, and takes a wait of zero for none (`or`). A negative wait, for
which NaN stands as well, is below the cap, and `time.sleep` raises; it is called in
the `except` clause, so that nothing catches it (`SleepRaises`). Time is counted in
ticks, a second being `Second` of them; it passes for all sleepers at
once. `spent`, `fault` and `asked` are history variables.

What the limiter decides, what the cache holds and whether the store can be
searched is left open (`Refuse` or `Admit`, `CacheHit` or `CacheMiss`, `Retrieve`
or `SearchRaises`), so that whatever holds here holds for every state of those,
which have models of their own. A body that is not JSON is refused before the
limiter is asked (`Unreadable`), one whose fields are wrong after it has counted
the request (`Invalid`): FastAPI solves the dependencies first and then reports
what it found in the body. Either is a 422 and costs nothing. A response is ready when the
thread is done: what the event loop does after that does not wait for anything.

## The runs

All are complete explorations. `CHECK_DEADLOCK FALSE` is given where the bounds
on runs, requests, lookups or crashes let a behaviour come to its end; in `Serving`,
that no request is stuck at the end is what `AllAnswered` says.

| Run | Instance | Shows |
| --- | --- | --- |
| `RateLimiter` | 3 clients, table of 2, 2 threads, 2 requests per window of 2 ticks, 4 instants | `TypeOK`; `ExactDecision`: while nobody is overtaken, the decisions are those of a sliding window over the true history; `LiveWindowBound`: never more than the limit in the window that ends now; `BoundedMemory`; `RetryAfterHonoured`: waiting as long as told is enough; `ForgetsLeastRecent` |
| `RateLimiterStaleWindow` | 1 client, 2 threads, 2 requests per window of 2, 5 instants | violates `ExactWindow`: finding below |
| `RagPipeline` | 2 workers, 4 questions with 3 keys, cache of 2, TTL 1 | the cache: `Remembers` (it implements `AbstractCache`), `KeepsRecent`, `HitIsLatest`; the pipeline: `TypeOK`, `OwnAnswer`, `OnlyGenerated`, `RepeatIsFree` |
| `IngestCrash` | 2 episodes of up to 2 chunks, 3 runs, 2 kills | `ServedAligned`: whatever loads pairs every chunk with its vector; `OnlyCurrentAtRisk`: a kill costs at most the episode being replaced; `ShowsWhole`: the files implement `AbstractIndex`; `TypeOK` |
| `IngestFaults` | 2 runs, 1 failing write, 1 kill, 2 transcribers, 2 embedders of different dimension | `ReportedIsStored`, `IndexedAfresh`, `FinishedIsSaved` |
| `ChromaIngest` | 2 runs over transcripts of up to 4 segments that are blank or fit, or of up to 2 when some have up to 3 words to split; limits 4 and 2; requests and batches of 2 | the loops of the chunker: `TypeOK`; `PiecesTile`: no word lost, repeated or moved; `ChunksAdvance`: no gap, and progress; `WithinBudget`: over the limit only by one word or by one piece behind the overlap; `OverlapIsLongest`; what becomes of the chunks: `EmbeddedBeforeDelete`: no answer of the embedder can cost the episode its rows; `NeverMixed`: the rows are of one run and have their own vectors; `WholeUnlessHalfway`: all of them, unless a run stopped behind its delete |
| `Process` | 2 worker threads, 2 cases, 2 embedders, every combination of files of up to 2 rows | `UpIsSound`; `NobodyLoadsLate`: no question loads anything or meets anything half loaded; `HealthTruthful`; `ExitTellsErrors`: exit code 0 means what it says; `Settles`: every boot, question and evaluation ends; `TypeOK` |
| `Serving` | 3 requests, 2 threads, 1 retry of each call, 4 replies and one without headers, 2 ticks at most | `OnePlace`: a request waits once or has one thread, and none when it is answered; `CostBounded`: calls per question; `GivesUpWhenSpent`: which errors come with retries left; `HintHonoured`: no call before the wait that the first legible header asks for is over; `AllAnswered`: every question is answered, however long retries hold the threads; `TypeOK` |
| `IngestSwitchEmbedder` | 2 runs, 2 embedders | violates `ServedByItsEmbedder` |
| `IngestSwitchTranscriber` | 2 runs, 2 transcribers | violates `OneVocabulary` |
| `IngestSwitchDimension` | 2 runs, 2 embedders of different dimension, 1 kill | violates `ServedAligned` |
| `IngestSlugCollision` | 1 run, 2 names with one slug | violates `ReportedIsStored` |

Why these bounds are enough to be interesting: two threads are what overtaking
takes, and two requests per window are what makes an unsorted deque possible;
three clients over two places make eviction choose. Three keys over two places
do the same for the cache, and a TTL shorter than the clock lets entries expire
between a lookup and a put. Three runs with two kills include a kill in the
recovery from a kill, and re-indexing an episode with more and with fewer chunks
than it had; two chunks let counts agree by accident. Segments over limits of 4 and
2 fill several chunks with overlaps of no, one and two pieces, and the words to
split are too small, exactly right and too large; the proofs cover longer ones.
Three or more chunks over requests and batches of 2 put a failure or a kill before,
between and behind two batches. In `Process` two rows let the counts agree, exceed
and fall short of each other, two cases are one behind a failure, and two threads
may meet in every half-done load, were there one.

In `Serving` a third request has to wait for one of two threads, the pauses fall
below, on and beyond the longest sleep, and one retry is enough for a first, a
repeated and a last failure of either provider. The replies are a wait of zero; one
beyond the longest sleep in front of a shorter one; a header nobody can read in front
of one that only the chat client can; and a negative one, which makes the embedder's
sleep raise, in front of one that the chat client takes instead.

`AllAnswered` and `Settles` need fairness, and only weak fairness. `AllAnswered`: of `Take`, because the
pool starts whatever waits as soon as a thread is idle; of `Serve`, because every
call to a provider has a timeout (`timeout_s`) and the limiter, the cache and the
store only compute; and of `Tick`, because time passes. `Settles`: of `Boot` and of
each thread's `Question`, which read local files or make calls that have timeouts;
and of the loop of `eval.py` (`Ask(Main)`, `Summarise`), which waits for nobody.
Nothing says that a request arrives or that a provider ever succeeds. All other properties are safety properties.

### What the violations say

* **A stale clock reading** (`RateLimiterStaleWindow`). A thread that reads the
  clock and is then overtaken decides with an old time. A window that ended in
  the past can hold more than `max_requests` stamps, and by the same route a
  request can be refused because of admissions stamped after it. Short of that
  the limiter holds up: `LiveWindowBound` and `RetryAfterHonoured` survive.
* **A second embedder** (`IngestSwitchEmbedder`). A run skips what is indexed
  and then stamps the manifest with its own embedder, so the check at boot passes
  on an index of mixed vectors.
* **A second vocabulary** (`IngestSwitchTranscriber`). The skip comes before the
  transcript cache, so a new prompt reaches new episodes only.
* **A second dimension** (`IngestSwitchDimension`). `np.vstack` raises after the
  chunks have been assigned; the run goes on, and the next `delete_episode` pairs
  the new positions with the old rows and saves them.
* **One slug for two names** (`IngestSlugCollision`). The cached transcript of
  the first name is served for the second one, which is reported as indexed and
  is not in the index.

A failing write does to the files what a second dimension does to the table. `_persist`
writes the vectors first; if the write of the chunks raises, the run reports the
episode as failed and goes on with new vectors beside old chunks on disk. The next
write of vectors may bring the numbers together again, and for a server that starts
there, or for all if the run is killed there, the index loads and pairs chunks with
vectors of others. TLC finds it with `MaxFaults = 1` and one embedder in the
instance of `IngestSwitchDimension`; a run that reaches its end repairs the files
(`FinishedIsSaved`).

`WithinBudget` is weaker than it may seem: a chunk can hold up to
`overlap_tokens + max_tokens` tokens, because the piece behind an overlap is
appended without a second look at the limit. `max_tokens` is called a target, and
the tests use segments too small to show it.

A failing chat model is a 502, as the table of statuses in `src/README.md` and
`main.py` say. A failing hosted embedder, the other upstream of the same request,
is not: `EmbeddingError` has no handler, and `ErrorStatus` is 500 there.

Its docstring says that `_request` raises `EmbeddingError` "If every attempt fails
or the response is malformed" (`embeddings_remote.py:152`), and that `_retry_after`
honours "a provider's Retry-After header when it sends one" (line 243). Neither is
all of it. A negative or NaN header makes `time.sleep` raise a `ValueError` with
attempts left, and the question ends in a 500: `GivesUpWhenSpent` names this exception
and the other one, a search that raises behind an embedding that is paid for, and
says that there is no third. And a header that is a date, or has a unit, is taken
for none: the embedder calls again after its own backoff, a second at first. So does
the chat client with a date or `6m0s`, unless a later header can be read.
`HintHonoured` is about what can be read, and about the backoff when nothing can.

`ExitTellsErrors` holds by a narrow margin. `load()` says "Idempotent", but a call
after one that raised returns at once with whatever was assigned: in an evaluation
over an index whose counts differ, the first case fails and the later ones are
answered from the misaligned table and graded. And `errors` counts the results
whose message is not empty, which leaves out a failed `assert`; such an assertion
only follows a load that failed with a message, which is what keeps the exit code
honest. The accuracy that is printed in such a run is worth nothing, though.
`eval.py` never calls `verify_index_compatibility`, so it grades an index of
another embedder without a word if the dimensions agree. A server is up only
behind all of these checks (`UpIsSound`), but without a manifest the vectors may have
another length than the question's: `/health` then says "ok" and every question
fails.

With Chroma, a run that stops between two batches leaves a part of the episode,
and because one row is enough for `episodes()`, later runs skip it unless they are
forced. `WholeUnlessHalfway` is exact about when that can happen. The count behind
the last batch may raise, too: then an episode is reported as failed that is stored
to its last row.

Also visible in the model, where the code makes no promise: after a kill between
two writes the index does not load, and every later run ends in `StartRaises`
until the files are removed; a first run killed between its first two writes
leaves vectors without chunks, on which the service boots as an empty, `degraded`
one, because `validate_serving_config` looks for the vectors only; a torn transcript fails its episode on every run
without `--retranscribe`; a forced re-ingestion that hears nothing leaves the old
chunks in place.

## The proofs

For every value of the constants that satisfies the named assumptions
(`RateLimiterAssumption`, `AnswerCacheAssumption`: limits are positive naturals,
the window and the bounds of the model naturals; `RagPipelineAssumption`,
`CacheUseAssumption`: what the pipeline puts fits the cache's keys and values;
`ProcessAssumption`: a file or a field that is not there is not a number; `ServingAssumption`: retries
are naturals, a wait is negative only where a sign can be written, durations are positive, and powers of two are positive, which the
prover does not know; `ChunkerAssumption`: the overlap
is smaller than the limit, which the code checks, and the input is a transcript;
`ChromaIngestAssumption`: batches are not empty, and a transcript may be;
`NumpyStoreAssumption`, `IngestAssumption`: episodes are finitely many numbers, which stand
for their order by name, and the bounds of the model are naturals;
`MarksAssumption`, `NothingAssumption`: what stands for a missing, torn or unread
file, and for no run, is not a value the file or the run could have):

* `OrderedDict_proofs`: what `Touch`, `RemoveFirst` and `Newest` do to the keys,
  their number and their order. `Recency` says that the order of the keys is the
  order of their last uses; all three preserve it, and `NewestRecency` concludes
  that a dropped key has as many later-used keys behind it as the limit allows.
* `RateLimiter_proofs`: `TypeCorrect`, `MemoryIsBounded`, `LiveWindowIsBounded`,
  `RetryAfterIsHonoured`, `LeastRecentIsForgotten`, `DecisionIsExact`. None of the properties is
  inductive. The invariant `Inv` adds what the deque is: the newest part of the
  true history, with everything before it already outside the window that ends
  now (`HitsAreRecent`), although the deque may be unsorted; stamps are never in
  the future; and a standing promise is the expiry of the head of a full deque
  (`PromisesExpiry`). `Recent` adds the order of last decisions. For `DecisionIsExact`,
  while the deque is in order, what pruning dropped is exactly what has left the
  window (`Dropped`, `LiveIsExact`), so the length it decides by is the true count.
* `AnswerCache_proofs`: `CacheTypeCorrect`, `CapacityIsBounded`, `RecentIsKept`,
  from the same `Recency` and the finiteness of the history sets; `HitIsAlwaysLatest`,
  because an entry that is present is the one stored last; and the refinement
  `CacheRemembers`. What needs an argument there is the put: the keys in the order
  and the keys with an entry are the same finite set (`KeysCounted`, `SameCount`), so
  dropping down to `max_entries` takes one answer, and only from a full cache.
* `RagPipeline_proofs`: `TypeCorrect`, `AnswerIsOwn`, `OnlyGeneratedIsCached`,
  `RepeatIsAlwaysFree`, from an invariant that follows the key of a question from
  the lookup to the put. `RunsTheCache` says that every behaviour of the pipeline is one
  of the cache, so `PipelineRemembers` inherits what is proved of it.

* `Chunker_proofs`: all five properties of the run, for transcripts of any length.
  `CarryProperties` says where the loop of `_carry_overlap` stops; it exists
  because the set of admissible starts has a least element (`LeastNatural`). The
  invariant `Inv` adds that totals grow (`Mono`), how far a cut has come
  (`Cutting`), and that the window begins as the next chunk should (`Following`)
  and exceeds the limit only by its last piece (`Window`). `TileInv` adds that
  the pieces end where the splitting goes on (`Behind`).
* `Chunker_proofs`, second half, about `ChromaIngest`: `AlwaysEmbeddedBeforeDelete`,
  `AlwaysNeverMixed`, `AlwaysWholeUnlessHalfway`, for any number of chunks and any
  sizes of requests and batches. `ParsedInOrder` says what sorting does: an answer that
  is as long as its request is a permutation of it, so the k-th index is the one with
  k - 1 below it. `MemoryInv` follows the vectors request by request, `RowsInv` the rows
  batch by batch (`RowsOf`): both are the first so many chunks of one run.
  `LoopsInsideIngestion` carries the five properties of the chunker over to every call
  the ingestion makes.

* `Ingest_proofs`. `ReplacedTable` says what `_replace` leaves in memory, whatever the
  order of the rows before: sorting keeps the set of rows (`SortedRows`), because each
  row has a rank of its own (`PlacesAreTaken`).
  - `TypeCorrect`, `AlwaysIndexedAfresh`, `AlwaysFinishedIsSaved`: with any faults, kills,
    embedders and names. `Inv` ties the place in the run to what is still unsaved.
  - `AlwaysReportedIsStored`, if the slugs differ (`SlugsDiffer`): with any failing writes,
    kills and dimensions. In `StoredInv` the episodes reported as indexed stay as
    they were made (`IndexedStay`). Once there is one, the table has a vector for each
    chunk, of the length of the run's own (`Even`), so no later delete or upsert of the
    run can raise half way.
  - `AlwaysServedAligned` and `AlwaysOnlyCurrentAtRisk`, if the slugs differ, all embedders
    have one dimension (`OneDimension`) and no write has failed (`faults = 0`): with any
    number of kills. `Undamaged` describes every mixture of old and new files a kill
    can leave: `FilesSound` says that files whose counts agree belong together, and `Apart` why:
    while `chunks.json` is behind the table it has another length, because exactly one
    episode's rows come or go with each delete and each upsert.
  - `AlwaysShowsWhole`, if also `MaxFaults = 0`: every step of `IngestIndex` is a
    step of `AbstractIndex` or a stutter (`StepImplements`). `ShownInv` relates what the
    files last showed to the table: equal (`TableShown`), or one episode emptied
    (`Emptied`) or filled (`Filled`) since.

  None of the three conditions can be left out: without the first TLC finds the
  property violated in `IngestSlugCollision`, without the second in
  `IngestSwitchDimension`, and without the third by a failing write, as described above.
  They are hypotheses of the theorems, not assumptions of the models,
  and the runs `IngestCrash` and `IngestFaults` have states that satisfy them.

* `Serving_proofs`: `TypeOKHolds`, `CostBoundedHolds`, `GivesUpWhenSpentHolds` and
  `HintHonouredHolds`, for any number of requests, threads and retries and any headers
  a failed call may have. The
  invariant `Inv` ties the calls made to the attempt the loop is in (`Paid`), says
  that a sleep is before the last attempt and that the time waited and the time
  left add up to the delay that was worked out from the headers (`Slept`), and what
  each status implies (`Told`). `HintIsFirst` says that there is a hint exactly when
  some header can be read, and which one it is from; `DelayProperties`, from that
  and the arithmetic of the caps, that a delay is either enough or negative, and the
  latter only for a negative Retry-After read by the embedder.
  `AlwaysOnePlace` has an invariant of its own, `PoolInv`: no place of the queue and no
  two threads hold the same request, none is in both, and the requests that are in
  either are those on their way.
  `AlwaysHeadway` is what `AllAnswered` rests on besides fairness: each step of a
  thread leaves the request it serves fewer steps to go (`StepsLeft`, at most four
  and two for each retry), and nothing that happens takes a request back.

* `Process_proofs`: `TypeCorrect`, `UpIsAlwaysSound`, `NobodyEverLoadsLate`,
  `HealthIsTruthful`, `ExitAlwaysTells`, for any number of threads and any index. The
  invariant has two halves: `On` says, place by place, what a lifespan that got
  there has done, and `Served` what the threads can find then; `Off` says of an
  evaluation that as long as no case has failed with a message, whatever is loaded
  is loaded whole. `HalfWay` ties the steps of `load()` together.
  `AlwaysNearer` is the same for `Settles`: every step of a boot (eleven at most), of a
  question (nine) and of an evaluation (ten for each case) lowers `WorkLeft` of
  its thread and leaves that of all others alone, save that each question of the
  server begins anew.

Only model-checked: `AllAnswered` and `Settles`, which are liveness under fairness and
out of the prover's reach, as is induction over data. The measures of `AlwaysHeadway`
and `AlwaysNearer` are proved; that a fair thread takes the steps they count, and that
a measure that only falls ends, is what TLC checks. All other properties of the passing
runs are theorems. What the runs that end in a violation check is, of course, not.

## The plan

1. The limiter's `retry_after` in fractions of a second, which the response rounds.
2. A server that boots while ingestion writes: `load()` reads three files one after
   the other, where `Loads` sees the directory at one instant. Nothing in the
   repository starts the two together.

## Not modelled

Formatting (prompts, time stamps, log records), configuration parsing, the
numerical content of vectors and scores, the transcription model, the grading of
answers in `eval.py`, the parity script, and the web page: they keep no state that
another part reads.
`client_key` chooses the key of a client from the request and is represented by
the set of clients.
