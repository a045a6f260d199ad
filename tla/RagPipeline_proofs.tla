------------------------ MODULE RagPipeline_proofs ------------------------
(***************************************************************************)
(* The pipeline, for any number of workers, questions and cached answers.  *)
(* Every step of it is a step of the cache or leaves the cache alone, so   *)
(* what AnswerCache_proofs shows holds here.  The invariant adds that what *)
(* a worker is about to store is a completion (Paid), and that an entry    *)
(* found under the key of a question that is under way was put there after *)
(* the question's own lookup (Since).                                      *)
(***************************************************************************)
EXTENDS RagPipeline, AnswerCache_proofs

WorkersTyped ==
    /\ pc \in [Workers -> {"idle", "retrieve", "generate", "store"}]
    /\ question \in [Workers -> Questions]
    /\ result \in [Workers -> Answers \cup {NoAnswer}]
    /\ lookedUp \in [Workers -> 0..MaxClock]
    /\ generated \subseteq Answers

Paid == \A t \in Workers : pc[t] = "store" => result[t] \in generated

Since ==
    \A t \in Workers :
        /\ lookedUp[t] <= clock
        /\ LET entry == entries[Key(question[t])]
           IN (pc[t] # "idle" /\ entry # NoEntry) => entry.at >= lookedUp[t]

PInv == Inv /\ WorkersTyped /\ OwnAnswer /\ OnlyGenerated /\ Paid /\ Since

\* Updating a function at one point.
LEMMA UpdateTyped ==
    ASSUME NEW D, NEW R, NEW f \in [D -> R], NEW d \in D, NEW r \in R
    PROVE  /\ [f EXCEPT ![d] = r] \in [D -> R]
           /\ [f EXCEPT ![d] = r][d] = r
           /\ \A e \in D : e # d => [f EXCEPT ![d] = r][e] = f[e]
OBVIOUS

LEMMA AnswerFields ==
    ASSUME NEW q \in Questions, NEW text \in Texts
    PROVE  /\ Answer(q, text) \in Answers /\ Answer(q, text) \in Values
           /\ Answer(q, text) # NoAnswer
           /\ Answer(q, text).question = q
<1>1. Answer(q, text) \in Answers
  BY DEF Answers
<1>2. Answer(q, text).question = q
  BY DEF Answer
<1> QED
  BY <1>1, <1>2, CacheUseAssumption

\* Two questions have one key when they ask the same to the same depth.
LEMMA SameKey ==
    ASSUME NEW p, NEW q
    PROVE  Key(p) = Key(q) <=> p.asks = q.asks /\ p.depth = q.depth
BY DEF Key

\* No step but a put adds an entry.
Shrinks == \A j \in CacheKeys : entries'[j] = entries[j] \/ entries'[j] = NoEntry

LEMMA LookupShrinks ==
    ASSUME Inv, NEW k \in CacheKeys, GetMiss(k) \/ GetExpired(k) \/ GetHit(k)
    PROVE  /\ Shrinks /\ UNCHANGED clock
           /\ ~GetHit(k) => entries'[k] = NoEntry
<1>1. /\ entries \in [CacheKeys -> Entry \cup {NoEntry}]
      /\ \A j \in CacheKeys : j \in Keys(order) <=> entries[j] # NoEntry
  BY DEF Inv, CacheTypeOK
<1>2. CASE GetMiss(k)
  BY <1>1, <1>2 DEF GetMiss, Shrinks
<1>3. CASE GetExpired(k)
  BY <1>1, <1>3 DEF GetExpired, Shrinks
<1>4. CASE GetHit(k)
  BY <1>4 DEF GetHit, Shrinks
<1> QED
  BY <1>2, <1>3, <1>4

LEMMA OutsideShrinks ==
    ASSUME Inv, CacheTick \/ Clear
    PROVE  Shrinks /\ clock' >= clock
<1>1. clock \in Nat
  BY AnswerCacheAssumption DEF Inv, CacheTypeOK
<1> QED
  BY <1>1 DEF CacheTick, Clear, Shrinks

\* What put() leaves: the new entry, and some of the others.
LEMMA PutEntries ==
    ASSUME Inv, NEW k \in CacheKeys, NEW v \in Values, Put(k, v)
    PROVE  /\ UNCHANGED clock
           /\ entries'[k] = [at |-> clock, value |-> v] \/ entries'[k] = NoEntry
           /\ \A j \in CacheKeys : j # k =>
                 entries'[j] = entries[j] \/ entries'[j] = NoEntry
<1> DEFINE kept == Newest(Touch(order, k), MaxEntries)
           new == [at |-> clock, value |-> v]
<1>1. /\ UNCHANGED clock
      /\ entries' = [j \in CacheKeys |->
             IF j \notin Keys(kept) THEN NoEntry
             ELSE IF j = k THEN new ELSE entries[j]]
  BY DEF Put
<1> HIDE DEF kept, new
<1>2. /\ entries'[k] = new \/ entries'[k] = NoEntry
      /\ \A j \in CacheKeys : j # k =>
            entries'[j] = entries[j] \/ entries'[j] = NoEntry
  BY <1>1
<1> QED
  BY <1>1, <1>2 DEF new

\* A step of the pipeline is one of the cache, or none of its business.
LEMMA CacheStep ==
    ASSUME PInv, [Next]_vars
    PROVE  [CacheNext]_cacheVars
<1> USE CacheUseAssumption
<1>1. ASSUME NEW t \in Workers, NEW q \in Questions, LookupHit(t, q) \/ LookupMiss(t, q)
      PROVE  CacheNext
  BY <1>1 DEF LookupHit, LookupMiss, CacheNext
<1>2. ASSUME NEW t \in Workers,
             \/ RetrieveRaises(t) \/ Refuse(t) \/ Retrieve(t)
             \/ GenerateRaises(t) \/ \E text \in Texts : Generate(t, text)
      PROVE  UNCHANGED cacheVars
  BY <1>2 DEF RetrieveRaises, Refuse, Retrieve, GenerateRaises, Generate
<1>3. ASSUME NEW t \in Workers, Store(t)
      PROVE  CacheNext
  <2>1. question[t] \in Questions /\ result[t] \in Values
    BY <1>3 DEF PInv, WorkersTyped, Paid, Store
  <2> QED
    BY <1>3, <2>1 DEF Store, CacheNext
<1>4. CASE Outside
  BY <1>4 DEF Outside, CacheNext
<1>5. CASE UNCHANGED vars
  BY <1>5 DEF vars
<1> QED
  BY <1>1, <1>2, <1>3, <1>4, <1>5 DEF Next

-----------------------------------------------------------------------------
(* The workers' part of the invariant, one lemma per kind of step. *)

WInv == WorkersTyped /\ OwnAnswer /\ OnlyGenerated /\ Paid /\ Since

\* An entry that was there before is as good as it was.
LEMMA ShrinkingKeeps ==
    ASSUME OnlyGenerated, Shrinks, generated \subseteq generated'
    PROVE  OnlyGenerated'
BY DEF OnlyGenerated, Shrinks, Key

LEMMA LookupInv ==
    ASSUME PInv, NEW t \in Workers, NEW q \in Questions,
           LookupHit(t, q) \/ LookupMiss(t, q)
    PROVE  WInv'
<1> DEFINE k == Key(q)
<1>1. k \in CacheKeys
  BY CacheUseAssumption
<1>2. /\ Shrinks /\ UNCHANGED clock
      /\ ~GetHit(k) => entries'[k] = NoEntry
      /\ pc[t] = "idle"
      /\ question' = [question EXCEPT ![t] = q]
      /\ lookedUp' = [lookedUp EXCEPT ![t] = clock]
      /\ UNCHANGED generated
  BY <1>1, LookupShrinks DEF PInv, LookupHit, LookupMiss, Calls
<1>3. /\ WorkersTyped /\ OwnAnswer /\ OnlyGenerated /\ Paid /\ Since
      /\ clock \in 0..MaxClock /\ clock \in Nat
  BY AnswerCacheAssumption DEF PInv, Inv, CacheTypeOK
<1>4. \/ /\ pc' = pc
         /\ result' = [result EXCEPT ![t] = entries[k].value]
         /\ k \in Keys(order)
      \/ /\ pc' = [pc EXCEPT ![t] = "retrieve"]
         /\ result' = [result EXCEPT ![t] = NoAnswer]
         /\ entries'[k] = NoEntry
  <2>1. CASE LookupHit(t, q)
    BY <2>1 DEF LookupHit, GetHit
  <2>2. CASE LookupMiss(t, q)
    <3>1. ~GetHit(k)
      BY <2>2 DEF LookupMiss, GetMiss, GetExpired, GetHit
    <3> QED
      BY <1>2, <2>2, <3>1 DEF LookupMiss
  <2> QED
    BY <2>1, <2>2
<1>5. k \in Keys(order) =>
         /\ entries[k].value \in generated
         /\ entries[k].value \in Answers
         /\ entries[k].value.question.asks = q.asks
         /\ entries[k].value.question.depth = q.depth
  BY <1>1, <1>3, SameKey DEF PInv, Inv, CacheTypeOK, OnlyGenerated, WorkersTyped
<1> HIDE DEF k
<1>6. PICK answer \in Answers \cup {NoAnswer} :
         /\ result' = [result EXCEPT ![t] = answer]
         /\ answer # NoAnswer => /\ answer.question.asks = q.asks
                                 /\ answer.question.depth = q.depth
  BY <1>4, <1>5
<1>7. PICK place \in {"idle", "retrieve"} :
         /\ pc' = [pc EXCEPT ![t] = place]
         /\ place # "idle" => entries'[k] = NoEntry
  BY <1>2, <1>3, <1>4 DEF WorkersTyped
<1>8. WorkersTyped'
  BY <1>2, <1>3, <1>6, <1>7, UpdateTyped DEF WorkersTyped
<1>9. /\ pc'[t] = place /\ question'[t] = q /\ result'[t] = answer /\ lookedUp'[t] = clock
      /\ \A x \in Workers : x # t =>
            /\ pc'[x] = pc[x] /\ question'[x] = question[x]
            /\ result'[x] = result[x] /\ lookedUp'[x] = lookedUp[x]
  BY <1>2, <1>3, <1>6, <1>7 DEF WorkersTyped
<1>10. OwnAnswer'
  BY <1>3, <1>6, <1>9 DEF OwnAnswer
<1>11. OnlyGenerated'
  BY <1>2, <1>3, ShrinkingKeeps
<1>12. Paid'
  BY <1>2, <1>3, <1>7, <1>9 DEF Paid
<1>13. Since'
  <2> SUFFICES ASSUME NEW x \in Workers
               PROVE  /\ lookedUp'[x] <= clock
                      /\ (pc'[x] # "idle" /\ entries'[Key(question'[x])] # NoEntry)
                            => entries'[Key(question'[x])].at >= lookedUp'[x]
    BY <1>2 DEF Since, Key
  <2>1. CASE x = t
    BY <1>3, <1>7, <1>9, <2>1 DEF k
  <2>2. CASE x # t
    <3>1. Key(question[x]) \in CacheKeys
      BY <1>3, CacheUseAssumption DEF WorkersTyped
    <3> QED
      BY <1>2, <1>3, <1>9, <2>2, <3>1 DEF Since, Shrinks
  <2> QED
    BY <2>1, <2>2
<1> QED
  BY <1>8, <1>10, <1>11, <1>12, <1>13 DEF WInv

\* A worker goes on by itself: its place and its result change, and what it
\* stores next it has generated.
LEMMA WorkerInv ==
    ASSUME PInv, NEW t \in Workers,
           NEW place \in {"idle", "retrieve", "generate", "store"},
           NEW answer \in Answers \cup {NoAnswer},
           pc[t] # "idle",
           pc' = [pc EXCEPT ![t] = place],
           result' = [result EXCEPT ![t] = answer],
           answer # NoAnswer => /\ answer.question.asks = question[t].asks
                                /\ answer.question.depth = question[t].depth,
           generated' \subseteq Answers, generated \subseteq generated',
           place = "store" => answer \in generated',
           UNCHANGED <<cacheVars, question, lookedUp>>
    PROVE  WInv'
<1>1. WorkersTyped /\ OwnAnswer /\ OnlyGenerated /\ Paid /\ Since
  BY DEF PInv
<1>2. WorkersTyped'
  BY <1>1, UpdateTyped DEF WorkersTyped
<1>3. /\ pc'[t] = place /\ result'[t] = answer
      /\ \A x \in Workers : x # t => pc'[x] = pc[x] /\ result'[x] = result[x]
  BY <1>1 DEF WorkersTyped
<1>4. OwnAnswer'
  BY <1>1, <1>3 DEF OwnAnswer
<1>5. OnlyGenerated'
  BY <1>1, ShrinkingKeeps DEF cacheVars, Shrinks
<1>6. Paid'
  BY <1>1, <1>3 DEF Paid
<1>7. Since'
  BY <1>1, <1>3 DEF Since, Key, cacheVars
<1> QED
  BY <1>2, <1>4, <1>5, <1>6, <1>7 DEF WInv

LEMMA RetrieveInv ==
    ASSUME PInv, NEW t \in Workers,
           RetrieveRaises(t) \/ Refuse(t) \/ Retrieve(t) \/ GenerateRaises(t)
    PROVE  WInv'
<1>1. /\ WorkersTyped /\ OwnAnswer
      /\ question[t] \in Questions
      /\ result = [result EXCEPT ![t] = result[t]]
      /\ result[t] \in Answers \cup {NoAnswer}
      /\ generated \subseteq Answers
  BY DEF PInv, WorkersTyped
<1>2. /\ pc[t] # "idle" /\ UNCHANGED <<cacheVars, question, lookedUp, generated>>
  BY DEF RetrieveRaises, Refuse, Retrieve, GenerateRaises
<1>3. CASE RetrieveRaises(t) \/ GenerateRaises(t)
  <2>1. pc' = [pc EXCEPT ![t] = "idle"] /\ result' = result
    BY <1>3 DEF RetrieveRaises, GenerateRaises
  <2> QED
    BY <1>1, <1>2, <2>1, WorkerInv DEF OwnAnswer
<1>4. CASE Retrieve(t)
  <2>1. pc' = [pc EXCEPT ![t] = "generate"] /\ result' = result
    BY <1>4 DEF Retrieve
  <2> QED
    BY <1>1, <1>2, <2>1, WorkerInv DEF OwnAnswer
<1>5. CASE Refuse(t)
  <2> DEFINE refusal == Refusal(question[t])
  <2>1. refusal \in Answers /\ refusal.question = question[t]
    BY <1>1, AnswerFields, RagPipelineAssumption DEF Refusal
  <2>2. pc' = [pc EXCEPT ![t] = "idle"] /\ result' = [result EXCEPT ![t] = refusal]
    BY <1>5 DEF Refuse
  <2> HIDE DEF refusal
  <2> QED
    BY <1>1, <1>2, <2>1, <2>2, WorkerInv
<1> QED
  BY <1>3, <1>4, <1>5

LEMMA GenerateInv ==
    ASSUME PInv, NEW t \in Workers, NEW text \in Texts, Generate(t, text)
    PROVE  WInv'
<1> DEFINE answer == Answer(question[t], text)
<1>1. question[t] \in Questions /\ generated \subseteq Answers
  BY DEF PInv, WorkersTyped
<1>2. answer \in Answers /\ answer.question = question[t]
  BY <1>1, AnswerFields
<1>3. /\ pc[t] # "idle" /\ pc' = [pc EXCEPT ![t] = "store"]
      /\ result' = [result EXCEPT ![t] = answer]
      /\ generated' = generated \cup {answer}
      /\ UNCHANGED <<cacheVars, question, lookedUp>>
  BY DEF Generate
<1> HIDE DEF answer
<1> QED
  BY <1>1, <1>2, <1>3, WorkerInv

LEMMA StoreInv ==
    ASSUME PInv, NEW t \in Workers, Store(t)
    PROVE  WInv'
<1> DEFINE k == Key(question[t])
<1>1. /\ WorkersTyped /\ OwnAnswer /\ OnlyGenerated /\ Paid /\ Since
      /\ clock \in Nat
  BY AnswerCacheAssumption DEF PInv, Inv, CacheTypeOK
<1>2. /\ pc[t] = "store" /\ pc' = [pc EXCEPT ![t] = "idle"]
      /\ Put(k, result[t])
      /\ UNCHANGED <<question, result, lookedUp, generated>>
  BY DEF Store
<1>3. /\ question[t] \in Questions /\ k \in CacheKeys
      /\ result[t] \in generated /\ result[t] \in Values /\ result[t] # NoAnswer
  BY <1>1, <1>2, CacheUseAssumption DEF WorkersTyped, Paid
<1>4. Key(result[t].question) = k
  BY <1>1, <1>3, SameKey DEF OwnAnswer
<1> HIDE DEF k
<1>5. /\ UNCHANGED clock
      /\ entries'[k] = [at |-> clock, value |-> result[t]] \/ entries'[k] = NoEntry
      /\ \A j \in CacheKeys : j # k =>
            entries'[j] = entries[j] \/ entries'[j] = NoEntry
  BY <1>2, <1>3, PutEntries DEF PInv
<1>6. WorkersTyped'
  BY <1>1, <1>2, UpdateTyped DEF WorkersTyped
<1>7. OwnAnswer'
  BY <1>1, <1>2 DEF OwnAnswer
<1>8. OnlyGenerated'
  <2> SUFFICES ASSUME NEW j \in CacheKeys, entries'[j] # NoEntry
               PROVE  /\ entries'[j].value \in generated
                      /\ Key(entries'[j].value.question) = j
    BY <1>2 DEF OnlyGenerated, Key
  <2>1. CASE j = k
    BY <1>3, <1>4, <1>5, <2>1
  <2>2. CASE j # k
    BY <1>1, <1>5, <2>2 DEF OnlyGenerated
  <2> QED
    BY <2>1, <2>2
<1>9. Paid'
  BY <1>1, <1>2 DEF Paid, WorkersTyped
<1>10. Since'
  <2> SUFFICES ASSUME NEW x \in Workers
               PROVE  /\ lookedUp[x] <= clock
                      /\ (pc'[x] # "idle" /\ entries'[Key(question[x])] # NoEntry)
                            => entries'[Key(question[x])].at >= lookedUp[x]
    BY <1>2, <1>5 DEF Since, Key
  <2>1. /\ Key(question[x]) \in CacheKeys
        /\ lookedUp[x] <= clock /\ lookedUp[x] \in Int
        /\ pc'[x] # "idle" => pc[x] # "idle"
    BY <1>1, <1>2, CacheUseAssumption DEF WorkersTyped, Since
  <2>2. CASE Key(question[x]) = k
    BY <1>1, <1>5, <2>1, <2>2
  <2>3. CASE Key(question[x]) # k
    BY <1>1, <1>5, <2>1, <2>3 DEF Since
  <2> QED
    BY <2>1, <2>2, <2>3
<1> QED
  BY <1>6, <1>7, <1>8, <1>9, <1>10 DEF WInv

LEMMA OutsideInv ==
    ASSUME PInv, Outside
    PROVE  WInv'
<1>1. /\ Shrinks /\ clock' >= clock
      /\ UNCHANGED <<pc, question, result, lookedUp, generated>>
  BY OutsideShrinks DEF PInv, Outside, workVars
<1>2. /\ WorkersTyped /\ OwnAnswer /\ OnlyGenerated /\ Paid /\ Since
      /\ clock \in Int /\ clock' \in Int
  BY AnswerCacheAssumption DEF PInv, Inv, CacheTypeOK, Outside, CacheTick, Clear
<1>3. WorkersTyped' /\ OwnAnswer' /\ Paid'
  BY <1>1, <1>2 DEF WorkersTyped, OwnAnswer, Paid
<1>4. OnlyGenerated'
  BY <1>1, <1>2, ShrinkingKeeps
<1>5. Since'
  <2> SUFFICES ASSUME NEW x \in Workers
               PROVE  /\ lookedUp[x] <= clock'
                      /\ (pc[x] # "idle" /\ entries'[Key(question[x])] # NoEntry)
                            => entries'[Key(question[x])].at >= lookedUp[x]
    BY <1>1 DEF Since, Key
  <2>1. Key(question[x]) \in CacheKeys /\ lookedUp[x] \in Int
    BY <1>2, CacheUseAssumption DEF WorkersTyped
  <2> QED
    BY <1>1, <1>2, <2>1 DEF Since, Shrinks
<1> QED
  BY <1>3, <1>4, <1>5 DEF WInv

LEMMA PInvStep ==
    ASSUME PInv, [Next]_vars
    PROVE  PInv'
<1>1. [CacheNext]_cacheVars /\ Inv
  BY CacheStep DEF PInv
<1>2. Inv'
  BY <1>1, NextInv
<1>3. WInv'
  <2>1. CASE UNCHANGED vars
    BY <2>1 DEF PInv, WInv, vars, workVars, cacheVars, WorkersTyped, OwnAnswer,
                OnlyGenerated, Paid, Since, Key
  <2> QED
    BY <2>1, LookupInv, RetrieveInv, GenerateInv, StoreInv, OutsideInv DEF Next
<1> QED
  BY <1>2, <1>3 DEF PInv, WInv

LEMMA PInvInit == Init => PInv
<1> SUFFICES ASSUME Init PROVE PInv
  OBVIOUS
<1>1. Inv
  BY InitInv DEF Init
<1>2. WorkersTyped
  BY CacheUseAssumption, AnswerCacheAssumption DEF Init, WorkersTyped
<1>3. OwnAnswer /\ Paid
  BY DEF Init, OwnAnswer, Paid
<1>4. OnlyGenerated
  BY DEF Init, CacheInit, OnlyGenerated
<1>5. Since
  BY DEF Init, CacheInit, Since
<1> QED
  BY <1>1, <1>2, <1>3, <1>4, <1>5 DEF PInv

\* The strengthened invariant holds in every reachable state.
THEOREM PInvHolds == Spec => []PInv
BY PInvInit, PInvStep, PTL DEF Spec

\* Every state of the pipeline and of its cache is well typed.
THEOREM TypeCorrect == Spec => []TypeOK
<1>1. PInv => TypeOK
  BY CacheUseAssumption DEF PInv, Inv, WorkersTyped, Paid, TypeOK
<1> QED
  BY <1>1, PInvHolds, PTL

\* No worker returns the answer to another question.
THEOREM AnswerIsOwn == Spec => []OwnAnswer
<1>1. PInv => OwnAnswer
  BY DEF PInv
<1> QED
  BY <1>1, PInvHolds, PTL

\* Nothing is cached but completions, under their own keys.
THEOREM OnlyGeneratedIsCached == Spec => []OnlyGenerated
<1>1. PInv => OnlyGenerated
  BY DEF PInv
<1> QED
  BY <1>1, PInvHolds, PTL

\* A question that the cache can answer is not paid for.
THEOREM RepeatIsAlwaysFree == Spec => RepeatIsFree
<1> DEFINE Fresh(t) ==
              LET k == Key(question[t])
              IN (pc[t] = "generate" /\ pc'[t] = "store" /\ entries[k] # NoEntry)
                    => entries[k].at >= lookedUp[t]
<1>1. PInv => \A t \in Workers : Fresh(t)
  BY DEF PInv, Since
<1> QED
  BY <1>1, PInvHolds, PTL DEF Spec, RepeatIsFree

\* The pipeline runs the cache as AnswerCache says, whatever its threads do.
THEOREM RunsTheCache == Spec => CacheSpec
<1>1. Init => CacheInit
  BY DEF Init
<1> QED
  BY <1>1, PInvHolds, CacheStep, PTL DEF Spec, CacheSpec

\* So the cache of the pipeline keeps what is recent, returns what was put last,
\* and is the abstract memory.
THEOREM PipelineRemembers == Spec => []KeepsRecent /\ HitIsLatest /\ Remembers
BY RunsTheCache, RecentIsKept, HitIsAlwaysLatest, CacheRemembers, PTL

=============================================================================
