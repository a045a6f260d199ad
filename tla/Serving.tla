------------------------------ MODULE Serving ------------------------------
(***************************************************************************)
(* POST /ask from the request to its status (main.py), through the pool of *)
(* worker threads and the two retry loops: RemoteEmbedder._request and     *)
(* OpenAICompatibleChatModel.complete.                                     *)
(*                                                                         *)
(* A request goes through the pool twice, for enforce_rate_limit and for   *)
(* RagPipeline.answer, and keeps its thread while it calls and sleeps.     *)
(* What the limiter decides, what the cache holds and whether the store    *)
(* can be searched is left open here: RateLimiter, RagPipeline and Process *)
(* are about that.  Time is counted in ticks.                              *)
(***************************************************************************)
EXTENDS Integers, Sequences, FiniteSets

CONSTANTS
    Requests,       \* bound of the model: each is sent at most once
    Workers,        \* threads of the pool
    None,           \* what an idle thread serves
    Retries,        \* max_retries of the two loops, by stage
    Replies,        \* what the headers of a failed call may ask for
    Second,         \* ticks to a second, the base of the backoff
    Cushion,        \* what complete() adds to a hint
    MaxBackoff      \* _MAX_BACKOFF_S

Stages == {"embed", "chat"}

\* The headers that may ask for a wait, in the order complete() reads them:
\* retry-after, x-ratelimit-reset-tokens and x-ratelimit-reset-requests.
Names == 1..3

\* How a wait is written: "digits" (9, 8.5), with a "unit" (8.865s, 2m), as any
\* other "float" (-1, 1e3, nan), or in "words" of another grammar (6m0s, a date).
\* NaN stands with the negative numbers, as time.sleep refuses all of them.
Forms == {"absent", "digits", "unit", "float", "words"}

Headers == [form : Forms, wait : Int]

Silent == [n \in Names |-> [form |-> "absent", wait |-> 0]]

ASSUME ServingAssumption ==
    /\ None \notin Requests
    /\ Retries \in [Stages -> Nat]
    /\ Replies \subseteq [Names -> Headers]
    /\ \A reply \in Replies : \A n \in Names :
          reply[n].form # "float" => reply[n].wait \in Nat
    /\ Second \in Nat \ {0} /\ Cushion \in Nat \ {0} /\ MaxBackoff \in Nat \ {0}
    /\ \A g \in Stages : \A k \in 0..Retries[g] : 2 ^ k \in Nat \ {0}

VARIABLES
    step,       \* per request: where its handler is
    status,     \* per request: the status of the response, 0 before
    queue,      \* requests that wait for a thread
    worker,     \* per thread: the request it serves, or None
    attempt,    \* per request: attempt of the loop it is in
    rest,       \* per request: ticks left of time.sleep, Awake outside
    spent,      \* history: calls made for the request, by stage
    fault,      \* history: how its latest step failed, "none" while it has not
    asked       \* history: the headers it sleeps for, and the ticks since

flow == <<step, status, queue, worker>>
loop == <<attempt, rest>>
history == <<spent, fault, asked>>
vars == <<flow, loop, history>>

Awake == -1
NotAsked == [reply |-> Silent, waited |-> 0]

Init ==
    /\ step = [r \in Requests |-> "unsent"]
    /\ status = [r \in Requests |-> 0]
    /\ queue = <<>>
    /\ worker = [w \in Workers |-> None]
    /\ attempt = [r \in Requests |-> 0]
    /\ rest = [r \in Requests |-> Awake]
    /\ spent = [r \in Requests |-> [g \in Stages |-> 0]]
    /\ fault = [r \in Requests |-> "none"]
    /\ asked = [r \in Requests |-> NotAsked]

-----------------------------------------------------------------------------
(* The pool. *)

\* A body that is not JSON is refused before anything else is done for it.
Unreadable(r) ==
    /\ step[r] = "unsent"
    /\ step' = [step EXCEPT ![r] = "done"]
    /\ status' = [status EXCEPT ![r] = 422]
    /\ UNCHANGED <<queue, worker, loop, history>>

\* The dependency is submitted before the handler is entered.
Arrive(r) ==
    /\ step[r] = "unsent"
    /\ step' = [step EXCEPT ![r] = "check"]
    /\ queue' = Append(queue, r)
    /\ UNCHANGED <<status, worker, loop, history>>

\* First come, first served.
Take(w) ==
    /\ worker[w] = None
    /\ queue # <<>>
    /\ worker' = [worker EXCEPT ![w] = Head(queue)]
    /\ queue' = Tail(queue)
    /\ UNCHANGED <<step, status, loop, history>>

At(w, s) == worker[w] # None /\ step[worker[w]] = s

\* The response is ready, the calls have returned and the thread is free.
Respond(w, code) ==
    /\ step' = [step EXCEPT ![worker[w]] = "done"]
    /\ status' = [status EXCEPT ![worker[w]] = code]
    /\ worker' = [worker EXCEPT ![w] = None]
    /\ attempt' = [attempt EXCEPT ![worker[w]] = 0]
    /\ UNCHANGED <<queue, rest>>

-----------------------------------------------------------------------------
(* enforce_rate_limit and the handler. *)

\* Mutated: the thread of a refused request is not given back.
RefuseKeepingThread(w) ==
    /\ At(w, "check")
    /\ step' = [step EXCEPT ![worker[w]] = "done"]
    /\ status' = [status EXCEPT ![worker[w]] = 429]
    /\ UNCHANGED <<queue, worker, loop, history>>

\* RateLimitExceeded.
Refuse(w) ==
    /\ At(w, "check")
    /\ Respond(w, 429)
    /\ UNCHANGED history

\* The check has counted the request, and its fields are not those of AskRequest.
Invalid(w) ==
    /\ At(w, "check")
    /\ Respond(w, 422)
    /\ UNCHANGED history

\* The check returns; answer() is submitted behind whatever waits by then.
Admit(w) ==
    /\ At(w, "check")
    /\ step' = [step EXCEPT ![worker[w]] = "answer"]
    /\ queue' = Append(queue, worker[w])
    /\ worker' = [worker EXCEPT ![w] = None]
    /\ UNCHANGED <<status, loop, history>>

CacheHit(w) ==
    /\ At(w, "answer")
    /\ Respond(w, 200)
    /\ UNCHANGED history

-----------------------------------------------------------------------------
(* The retry loops. *)

\* The loop of stage g is entered with its first call.
EnterLoop(w, g) ==
    /\ step' = [step EXCEPT ![worker[w]] = g]
    /\ attempt' = [attempt EXCEPT ![worker[w]] = 0]
    /\ spent' = [spent EXCEPT ![worker[w]][g] = @ + 1]
    /\ UNCHANGED <<status, queue, worker, rest, fault, asked>>

Calling(w, g) == At(w, g) /\ rest[worker[w]] = Awake

CacheMiss(w) == At(w, "answer") /\ EnterLoop(w, "embed")

\* The question is embedded, its chunks are found and the chat model is called.
Retrieve(w) == Calling(w, "embed") /\ EnterLoop(w, "chat")

\* GenerationError has a handler; everything else that is raised has none.
ErrorStatus(g) == IF g = "chat" THEN 502 ELSE 500

\* The question is embedded and search() raises: its vector has not the length of
\* those in the index, or the index is not whole.
SearchRaises(w) ==
    /\ Calling(w, "embed")
    /\ Respond(w, 500)
    /\ fault' = [fault EXCEPT ![worker[w]] = "search"]
    /\ UNCHANGED <<spent, asked>>

\* Nothing scores above the floor: the refusal is an answer.
NotCovered(w) ==
    /\ Calling(w, "embed")
    /\ Respond(w, 200)
    /\ UNCHANGED history

Generate(w) ==
    /\ Calling(w, "chat")
    /\ Respond(w, 200)
    /\ UNCHANGED history

Least(a, b) == IF a < b THEN a ELSE b

Backoff(k) == Second * 2 ^ k

\* The headers that the loop of stage g reads, and what it can read of them:
\* float() of the embedder takes no unit, _parse_duration no sign or exponent.
Read(g) == IF g = "embed" THEN {1} ELSE Names

Legible(g, header) ==
    header.form \in {"digits"} \cup (IF g = "embed" THEN {"float"} ELSE {"unit"})

\* Mutated: the first header decides, be it legible or not.
HintOfFirst(g, reply) == {reply[n].wait : n \in {m \in {1} : Legible(g, reply[m])}}

\* The wait in the first header that can be read: a set of one or none.
Hint(g, reply) ==
    {reply[n].wait : n \in {m \in Read(g) :
        Legible(g, reply[m]) /\ \A l \in Read(g) : l < m => ~Legible(g, reply[l])}}

\* What each loop sleeps after attempt k.  The embedder takes a wait of 0 for
\* no hint, and does not cap its own backoff.
Delay(g, k, reply) ==
    LET hint == CHOOSE wait \in Hint(g, reply) : TRUE
    IN CASE g = "embed" /\ ~(Hint(g, reply) \subseteq {0}) -> Least(hint, MaxBackoff)
         [] g = "embed" /\ Hint(g, reply) \subseteq {0} -> Backoff(k)
         [] g = "chat" /\ Hint(g, reply) # {} -> Least(hint + Cushion, MaxBackoff)
         [] g = "chat" /\ Hint(g, reply) = {} -> Least(Backoff(k), MaxBackoff)

\* Mutated: the loop goes on as long as the attempts are not exceeded.
LastLate(g, k) == k > Retries[g]

Last(g, k) == k = Retries[g]

Failed(w, g, kind) ==
    /\ Calling(w, g)
    /\ fault' = [fault EXCEPT ![worker[w]] = kind]

\* Mutated: every failure of a call ends the loop.
GiveUpAtOnce(w, g, kind) ==
    /\ Failed(w, g, kind)
    /\ Respond(w, ErrorStatus(g))
    /\ UNCHANGED <<spent, asked>>

\* The failure is not retryable, or the attempts are used up.
GiveUp(w, g, kind) ==
    /\ Failed(w, g, kind)
    /\ kind = "permanent" \/ Last(g, attempt[worker[w]])
    /\ Respond(w, ErrorStatus(g))
    /\ UNCHANGED <<spent, asked>>

\* A failure that is worth another attempt, with what its headers say; one
\* without a response has none.
Retryable(w, g, reply) ==
    /\ Failed(w, g, "transient")
    /\ ~Last(g, attempt[worker[w]])
    /\ asked' = [asked EXCEPT ![worker[w]] = [reply |-> reply, waited |-> 0]]
    /\ UNCHANGED spent

Sleep(w, g, reply) ==
    LET delay == Delay(g, attempt[worker[w]], reply)
    IN /\ Retryable(w, g, reply)
       /\ delay >= 0
       /\ rest' = [rest EXCEPT ![worker[w]] = delay]
       /\ UNCHANGED <<flow, attempt>>

\* time.sleep raises ValueError, in the except clause: nothing catches it.
SleepRaises(w, g, reply) ==
    /\ Retryable(w, g, reply)
    /\ Delay(g, attempt[worker[w]], reply) < 0
    /\ Respond(w, 500)

\* The next attempt.
Wake(w, g) ==
    LET r == worker[w]
    IN /\ At(w, g)
       /\ rest[r] = 0
       /\ rest' = [rest EXCEPT ![r] = Awake]
       /\ attempt' = [attempt EXCEPT ![r] = @ + 1]
       /\ spent' = [spent EXCEPT ![r][g] = @ + 1]
       /\ fault' = [fault EXCEPT ![r] = "none"]
       /\ asked' = [asked EXCEPT ![r] = NotAsked]
       /\ UNCHANGED flow

\* Time passes for those that sleep.
Tick ==
    /\ \E r \in Requests : rest[r] > 0
    /\ rest' = [r \in Requests |-> IF rest[r] > 0 THEN rest[r] - 1 ELSE rest[r]]
    /\ asked' = [r \in Requests |->
           IF rest[r] > 0 THEN [asked[r] EXCEPT !.waited = @ + 1] ELSE asked[r]]
    /\ UNCHANGED <<flow, attempt, spent, fault>>

-----------------------------------------------------------------------------

Check(w) == Refuse(w) \/ Invalid(w) \/ Admit(w)
Answer(w) == CacheHit(w) \/ CacheMiss(w)
Succeed(w) == Retrieve(w) \/ SearchRaises(w) \/ NotCovered(w) \/ Generate(w)
Fail(w) ==
    \E g \in Stages :
        \/ \E kind \in {"transient", "permanent"} : GiveUp(w, g, kind)
        \/ \E reply \in Replies \cup {Silent} : Sleep(w, g, reply) \/ SleepRaises(w, g, reply)

\* What a thread does with the request it serves.
Serve(w) ==
    \/ Check(w) \/ Answer(w) \/ Succeed(w) \/ Fail(w)
    \/ \E g \in Stages : Wake(w, g)

Next ==
    \/ \E r \in Requests : Unreadable(r) \/ Arrive(r)
    \/ \E w \in Workers : Take(w) \/ Serve(w)
    \/ Tick

Fairness ==
    /\ WF_vars(Tick)
    /\ \A w \in Workers : WF_vars(Take(w)) /\ WF_vars(Serve(w))

Spec == Init /\ [][Next]_vars /\ Fairness

-----------------------------------------------------------------------------
(* Properties. *)

Steps == {"unsent", "check", "answer", "done"} \cup Stages

\* Type invariant of the pool and the loops.
TypeOK ==
    /\ step \in [Requests -> Steps]
    /\ status \in [Requests -> {0, 200, 422, 429, 500, 502}]
    /\ queue \in Seq(Requests)
    /\ worker \in [Workers -> Requests \cup {None}]
    /\ attempt \in [Requests -> Nat]
    /\ rest \in [Requests -> Nat \cup {Awake}]
    /\ spent \in [Requests -> [Stages -> Nat]]
    /\ fault \in [Requests -> {"none", "transient", "permanent", "search"}]
    /\ asked \in [Requests -> [reply : Replies \cup {Silent}, waited : Nat]]
    /\ \A r \in Requests, g \in Stages : step[r] = g => attempt[r] <= Retries[g]

\* The places where request r is: positions in the queue, and threads.
Places(r) ==
    ({"queue"} \X {k \in DOMAIN queue : queue[k] = r})
        \cup ({"pool"} \X {w \in Workers : worker[w] = r})

\* A request that is not answered is in one place, waiting or served, and one
\* that is answered holds no thread: whatever failed, the thread came back.
OnePlace ==
    \A r \in Requests :
        Cardinality(Places(r)) = IF step[r] \in {"unsent", "done"} THEN 0 ELSE 1

\* What one request may cost: nothing if it is refused or waits for its check;
\* otherwise at most the retries and one call of each provider, and none of
\* the chat model before the question is embedded.
CostBounded ==
    \A r \in Requests :
        /\ \A g \in Stages : spent[r][g] <= Retries[g] + 1
        /\ spent[r]["chat"] > 0 => spent[r]["embed"] > 0
        /\ (status[r] \in {422, 429} \/ step[r] \in {"check", "answer"}) =>
              \A g \in Stages : spent[r][g] = 0

\* The last failure of stage g left nothing to retry.
Spent(r, g) ==
    \/ fault[r] = "permanent"
    \/ fault[r] = "transient" /\ spent[r][g] = Retries[g] + 1

\* An error says which provider failed, and that no retry was left or would have
\* helped: 502 is the chat model's ("Upstream model failures are a bad gateway"),
\* 500 comes before anything is paid to it.  Two errors come with attempts left:
\* of a search that raises, which embedding again cannot help, and of a retry that
\* a negative Retry-After keeps from happening.
GivesUpWhenSpent ==
    \A r \in Requests :
        /\ status[r] = 502 => Spent(r, "chat")
        /\ status[r] = 500 =>
              /\ spent[r]["chat"] = 0
              /\ \/ Spent(r, "embed")
                 \/ fault[r] = "search"
                 \/ fault[r] = "transient" /\ asked[r].reply[1].wait < 0

\* A pause that is long enough for what the headers ask for.
Enough(g, k, reply, pause) ==
    \/ \E n \in Read(g) :
          /\ Legible(g, reply[n])
          /\ \A m \in Read(g) : m < n => ~Legible(g, reply[m])
          /\ pause >= Least(reply[n].wait, MaxBackoff)
    \/ /\ \A n \in Read(g) : ~Legible(g, reply[n])
       /\ pause >= Least(Backoff(k), MaxBackoff)

\* No call is made again before the wait is over that the first legible header
\* asks for, whatever stands in front of it, or, when the loop can read none of
\* them, before the backoff of the attempt is; unless that is longer than the
\* longest sleep.
HintHonoured ==
    \A r \in Requests, g \in Stages :
        step[r] = g /\ rest[r] = 0 =>
            Enough(g, attempt[r], asked[r].reply, asked[r].waited)

\* Every question is answered, however long the threads are held by retries: from
\* any time on, one comes when all that were sent are.
AllAnswered ==
    (\E r \in Requests : step[r] = "check")
        ~> (\A r \in Requests : step[r] \in {"unsent", "done"})

=============================================================================
