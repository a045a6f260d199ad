---------------------------- MODULE RagPipeline ----------------------------
(***************************************************************************)
(* RagPipeline.answer (rag.py) run by several worker threads at once over  *)
(* one AnswerCache.  Between the lookup of a thread and its put lie two    *)
(* slow calls, the embedder and the chat model, and the threads interleave *)
(* there: two may miss the same key, entries may be evicted or expire, and *)
(* either call may raise.                                                  *)
(*                                                                         *)
(* The index does not change while the service runs, so whether a question *)
(* finds anything above the score floor is a fact about the question.      *)
(***************************************************************************)
EXTENDS AnswerCache

CONSTANTS
    Workers,        \* threads of the pool that run answer()
    Questions,      \* records [asks, wording, depth]: see Key
    Weak,           \* the questions whose best chunk is below min_score
    Texts,          \* what the chat model may say
    RefusalText,    \* the text is_refusal recognises
    NoAnswer        \* nothing to return yet, or an exception

ASSUME RagPipelineAssumption == Weak \subseteq Questions /\ RefusalText \in Texts

VARIABLES
    pc,             \* per worker: where answer() is
    question,       \* per worker: its argument
    result,         \* per worker: the RagAnswer built or returned last
    lookedUp,       \* history: per worker, the time of its lookup
    generated       \* history: every RagAnswer built from a completion

workVars == <<pc, question, result, lookedUp, generated>>
vars == <<cacheVars, workVars>>

Init ==
    /\ CacheInit
    /\ pc = [t \in Workers |-> "idle"]
    /\ question \in [Workers -> {CHOOSE q \in Questions : TRUE}]
    /\ result = [t \in Workers |-> NoAnswer]
    /\ lookedUp = [t \in Workers |-> 0]
    /\ generated = {}

\* Mutated: the retrieval depth is not part of the key.
KeyWithoutDepth(q) == <<q.asks, 1>>

\* normalise_question: the wording (case, white space, final punctuation) is
\* folded away, and the retrieval depth is kept because it changes the answer.
Key(q) == <<q.asks, q.depth>>

\* The RagAnswer built from a completion: a refusal cites nothing.
Answer(q, text) ==
    [question |-> q, text |-> text,
     sources |-> IF text = RefusalText THEN 0 ELSE q.depth]

\* The canned refusal, built without the chat model.
Refusal(q) == Answer(q, RefusalText)

-----------------------------------------------------------------------------
(* answer(), one step per call that other threads can overtake. *)

Calls(t, q) ==
    /\ pc[t] = "idle"
    /\ question' = [question EXCEPT ![t] = q]
    /\ lookedUp' = [lookedUp EXCEPT ![t] = clock]
    /\ UNCHANGED generated

\* Mutated: a repeated question is looked up and then answered afresh.
LookupHitRepeats(t, q) ==
    /\ Calls(t, q)
    /\ GetHit(Key(q))
    /\ result' = [result EXCEPT ![t] = NoAnswer]
    /\ pc' = [pc EXCEPT ![t] = "retrieve"]

\* The entry is returned as it is; its question stays that of the first asker.
LookupHit(t, q) ==
    /\ Calls(t, q)
    /\ GetHit(Key(q))
    /\ result' = [result EXCEPT ![t] = entries[Key(q)].value]
    /\ UNCHANGED pc

LookupMiss(t, q) ==
    /\ Calls(t, q)
    /\ GetMiss(Key(q)) \/ GetExpired(Key(q))
    /\ result' = [result EXCEPT ![t] = NoAnswer]
    /\ pc' = [pc EXCEPT ![t] = "retrieve"]

\* The embedder raises, or the search does because its vector and the index
\* differ in dimension: nothing is cached.
RetrieveRaises(t) ==
    /\ pc[t] = "retrieve"
    /\ pc' = [pc EXCEPT ![t] = "idle"]
    /\ UNCHANGED <<cacheVars, question, result, lookedUp, generated>>

\* Mutated: the canned refusal is cached like an answer.
RefuseAndStore(t) ==
    /\ pc[t] = "retrieve"
    /\ question[t] \in Weak
    /\ result' = [result EXCEPT ![t] = Refusal(question[t])]
    /\ pc' = [pc EXCEPT ![t] = "store"]
    /\ UNCHANGED <<cacheVars, question, lookedUp, generated>>

\* Nothing above the floor: refuse without the chat model, and cache nothing.
Refuse(t) ==
    /\ pc[t] = "retrieve"
    /\ question[t] \in Weak
    /\ result' = [result EXCEPT ![t] = Refusal(question[t])]
    /\ pc' = [pc EXCEPT ![t] = "idle"]
    /\ UNCHANGED <<cacheVars, question, lookedUp, generated>>

Retrieve(t) ==
    /\ pc[t] = "retrieve"
    /\ question[t] \notin Weak
    /\ pc' = [pc EXCEPT ![t] = "generate"]
    /\ UNCHANGED <<cacheVars, question, result, lookedUp, generated>>

\* Mutated: the exception is swallowed and the worker goes on.
GenerateRaisesStores(t) ==
    /\ pc[t] = "generate"
    /\ pc' = [pc EXCEPT ![t] = "store"]
    /\ UNCHANGED <<cacheVars, question, result, lookedUp, generated>>

\* GenerationError: nothing is cached.
GenerateRaises(t) ==
    /\ pc[t] = "generate"
    /\ pc' = [pc EXCEPT ![t] = "idle"]
    /\ UNCHANGED <<cacheVars, question, result, lookedUp, generated>>

Generate(t, text) ==
    /\ pc[t] = "generate"
    /\ result' = [result EXCEPT ![t] = Answer(question[t], text)]
    /\ generated' = generated \cup {Answer(question[t], text)}
    /\ pc' = [pc EXCEPT ![t] = "store"]
    /\ UNCHANGED <<cacheVars, question, lookedUp>>

\* The answer is cached, a generated refusal included, and returned.
Store(t) ==
    /\ pc[t] = "store"
    /\ Put(Key(question[t]), result[t])
    /\ pc' = [pc EXCEPT ![t] = "idle"]
    /\ UNCHANGED <<question, result, lookedUp, generated>>

\* Time passes; clear() may be called by whoever holds the cache.
Outside == (CacheTick \/ Clear) /\ UNCHANGED workVars

Next ==
    \/ \E t \in Workers, q \in Questions : LookupHit(t, q) \/ LookupMiss(t, q)
    \/ \E t \in Workers :
          \/ RetrieveRaises(t) \/ Refuse(t) \/ Retrieve(t)
          \/ GenerateRaises(t) \/ \E text \in Texts : Generate(t, text)
          \/ Store(t)
    \/ Outside

Spec == Init /\ [][Next]_vars

-----------------------------------------------------------------------------
(* Properties. *)

Answers == {Answer(q, text) : q \in Questions, text \in Texts}

\* What the cache is used for.
ASSUME CacheUseAssumption ==
    /\ Questions # {} /\ \A q \in Questions : Key(q) \in CacheKeys
    /\ Answers \subseteq Values /\ NoAnswer \notin Answers

\* Type invariant of the workers and of the cache they share.
TypeOK ==
    /\ CacheTypeOK
    /\ pc \in [Workers -> {"idle", "retrieve", "generate", "store"}]
    /\ question \in [Workers -> Questions]
    /\ result \in [Workers -> Answers \cup {NoAnswer}]
    /\ lookedUp \in [Workers -> 0..MaxClock]
    /\ generated \subseteq Answers
    /\ \A t \in Workers : pc[t] = "store" => result[t] # NoAnswer

\* A worker never returns an answer to something else than it was asked, nor
\* one that was retrieved to another depth, whatever the other workers have
\* stored meanwhile.
OwnAnswer ==
    \A t \in Workers : result[t] # NoAnswer =>
        /\ result[t].question.asks = question[t].asks
        /\ result[t].question.depth = question[t].depth

\* Only completions are cached, each under the key of its own question: a
\* failed call leaves nothing behind, and a refusal for lack of chunks is not
\* kept from the wording that would have found some.
OnlyGenerated ==
    \A k \in CacheKeys : entries[k] # NoEntry =>
        /\ entries[k].value \in generated
        /\ Key(entries[k].value.question) = k

\* The chat model is paid for an answer the cache already has only by a worker
\* that had looked before it was put there ("a repeat question then costs no
\* generation call and no quota").
RepeatIsFree ==
    [][\A t \in Workers :
          LET k == Key(question[t])
          IN (pc[t] = "generate" /\ pc'[t] = "store" /\ entries[k] # NoEntry)
                => entries[k].at >= lookedUp[t]]_vars

=============================================================================
