--------------------------- MODULE Serving_proofs ---------------------------
(* Proofs about the pool and the two retry loops, for any number of        *)
(* requests, threads and retries.                                          *)
EXTENDS Serving, FiniteSetTheorems, TLAPS

\* What has been spent on a request, by where its handler is.
Paid(r) ==
    /\ step[r] \in {"unsent", "check", "answer"} => spent[r]["embed"] = 0 /\ spent[r]["chat"] = 0
    /\ step[r] = "embed" => spent[r]["chat"] = 0
    /\ \A g \in Stages : step[r] = g => spent[r][g] = attempt[r] + 1
    /\ \A g \in Stages : spent[r][g] <= Retries[g] + 1
    /\ spent[r]["chat"] > 0 => spent[r]["embed"] > 0

\* A sleep is inside a loop, before its last attempt, and long enough.
Slept(r) ==
    rest[r] # Awake =>
        \E g \in Stages :
            /\ step[r] = g /\ attempt[r] < Retries[g]
            /\ Enough(g, attempt[r], asked[r].reply, asked[r].waited + rest[r])

\* A response says what happened.
Told(r) ==
    /\ status[r] # 0 => step[r] = "done"
    /\ status[r] \in {422, 429} => spent[r]["embed"] = 0 /\ spent[r]["chat"] = 0
    /\ status[r] = 502 => Spent(r, "chat")
    /\ status[r] = 500 =>
          /\ spent[r]["chat"] = 0
          /\ \/ Spent(r, "embed")
             \/ fault[r] = "search"
             \/ fault[r] = "transient" /\ asked[r].reply[1].wait < 0

Inv == TypeOK /\ \A r \in Requests : Paid(r) /\ Slept(r) /\ Told(r)

LEMMA InitInv == Init => Inv
<1> SUFFICES ASSUME Init PROVE Inv
  OBVIOUS
<1> USE ServingAssumption DEF ServingAssumption, Init, Stages, NotAsked, Awake
<1>1. TypeOK
  BY DEF TypeOK, Steps
<1>2. \A r \in Requests : Paid(r) /\ Slept(r) /\ Told(r)
  BY DEF Paid, Slept, Told
<1> QED
  BY <1>1, <1>2 DEF Inv

AnyReply == Replies \cup {Silent}

\* What is followed is the first legible header, and complete() reads no negative.
LEMMA HintIsFirst ==
    ASSUME NEW g \in Stages, NEW reply \in AnyReply
    PROVE  \/ Hint(g, reply) = {} /\ \A n \in Read(g) : ~Legible(g, reply[n])
           \/ \E n \in Read(g) :
                 /\ Legible(g, reply[n])
                 /\ \A m \in Read(g) : m < n => ~Legible(g, reply[m])
                 /\ Hint(g, reply) = {reply[n].wait}
                 /\ reply[n].wait \in Int
                 /\ g = "chat" => reply[n].wait \in Nat
<1>1. \A n \in Names : /\ reply[n].wait \in Int
                       /\ reply[n].form # "float" => reply[n].wait \in Nat
  BY ServingAssumption DEF ServingAssumption, AnyReply, Silent, Headers
<1>2. Read(g) \subseteq Names /\ Names = {1, 2, 3}
  BY DEF Read, Names
<1>3. CASE \A n \in Read(g) : ~Legible(g, reply[n])
  BY <1>3 DEF Hint
<1>4. CASE \E n \in Read(g) : Legible(g, reply[n])
  <2>1. PICK n \in Read(g) : /\ Legible(g, reply[n])
                             /\ \A m \in Read(g) : m < n => ~Legible(g, reply[m])
    <3>1. CASE 1 \in Read(g) /\ Legible(g, reply[1])
      BY <1>2, <3>1
    <3>2. CASE ~(1 \in Read(g) /\ Legible(g, reply[1])) /\ 2 \in Read(g) /\ Legible(g, reply[2])
      BY <1>2, <3>2
    <3>3. CASE /\ ~(1 \in Read(g) /\ Legible(g, reply[1]))
               /\ ~(2 \in Read(g) /\ Legible(g, reply[2]))
      BY <1>2, <1>4, <3>3
    <3> QED
      BY <3>1, <3>2, <3>3
  <2>2. {m \in Read(g) : Legible(g, reply[m]) /\ \A l \in Read(g) : l < m => ~Legible(g, reply[l])}
           = {n}
    <3>1. \A m \in Read(g) : m \in Int
      BY <1>2
    <3> QED
      BY <2>1, <3>1
  <2>3. Hint(g, reply) = {reply[n].wait}
    BY <2>2 DEF Hint
  <2>4. g = "chat" => reply[n].form # "float"
    BY <2>1 DEF Legible
  <2> QED
    BY <1>1, <1>2, <2>1, <2>3, <2>4
<1> QED
  BY <1>3, <1>4

\* Every sleep is as long as it should be, and only a negative Retry-After makes
\* the embedder's impossible.
LEMMA DelayProperties ==
    ASSUME NEW g \in Stages, NEW k \in 0..Retries[g], NEW reply \in AnyReply
    PROVE  /\ Delay(g, k, reply) \in Int
           /\ Delay(g, k, reply) >= 0 => Enough(g, k, reply, Delay(g, k, reply))
           /\ Delay(g, k, reply) < 0 => g = "embed" /\ reply[1].wait < 0
<1>1. Backoff(k) \in Nat \ {0} /\ MaxBackoff \in Nat \ {0} /\ Cushion \in Nat \ {0}
  <2>1. 2 ^ k \in Nat \ {0}
    BY ServingAssumption DEF ServingAssumption
  <2> QED
    BY <2>1, ServingAssumption DEF Backoff, ServingAssumption
<1>2. CASE Hint(g, reply) = {} /\ \A n \in Read(g) : ~Legible(g, reply[n])
  <2>1. Delay(g, k, reply) \in {Backoff(k), Least(Backoff(k), MaxBackoff)}
    BY <1>2 DEF Delay, Stages
  <2> HIDE DEF Delay
  <2> QED
    BY <1>1, <1>2, <2>1 DEF Enough, Least
<1>3. ASSUME NEW n \in Read(g),
             Legible(g, reply[n]), \A m \in Read(g) : m < n => ~Legible(g, reply[m]),
             Hint(g, reply) = {reply[n].wait}, reply[n].wait \in Int,
             g = "chat" => reply[n].wait \in Nat
      PROVE  /\ Delay(g, k, reply) \in Int
             /\ Delay(g, k, reply) >= 0 => Enough(g, k, reply, Delay(g, k, reply))
             /\ Delay(g, k, reply) < 0 => g = "embed" /\ reply[1].wait < 0
  <2> DEFINE wait == reply[n].wait
  <2>1. (CHOOSE x \in Hint(g, reply) : TRUE) = wait
    BY <1>3
  <2>2. CASE g = "embed"
    <3>1. n = 1
      BY <2>2 DEF Read
    <3>2. Delay(g, k, reply) = IF wait = 0 THEN Backoff(k) ELSE Least(wait, MaxBackoff)
      BY <1>3, <2>1, <2>2 DEF Delay
    <3>3. Delay(g, k, reply) >= Least(wait, MaxBackoff) /\ Delay(g, k, reply) \in Int
      BY <1>1, <1>3, <3>2 DEF Least
    <3>4. Delay(g, k, reply) < 0 => wait < 0
      BY <1>1, <1>3, <3>2 DEF Least
    <3> QED
      BY <1>3, <2>2, <3>1, <3>3, <3>4 DEF Enough
  <2>3. CASE g = "chat"
    <3>1. Delay(g, k, reply) = Least(wait + Cushion, MaxBackoff)
      BY <1>3, <2>1, <2>3 DEF Delay
    <3>2. /\ Delay(g, k, reply) >= Least(wait, MaxBackoff) /\ Delay(g, k, reply) \in Int
          /\ Delay(g, k, reply) >= 0
      BY <1>1, <1>3, <2>3, <3>1 DEF Least
    <3> QED
      BY <1>3, <2>3, <3>2 DEF Enough
  <2> QED
    BY <2>2, <2>3 DEF Stages
<1> QED
  BY <1>2, <1>3, HintIsFirst

-----------------------------------------------------------------------------
(* One lemma per action. *)

\* A function stays of its type when one value is replaced by a typed one.
LEMMA UpdateTyped ==
    ASSUME NEW D, NEW C, NEW f \in [D -> C], NEW a, NEW c \in C
    PROVE  [f EXCEPT ![a] = c] \in [D -> C]
OBVIOUS

\* What a step leaves alone for a request stays true of it.
LEMMA Untouched ==
    ASSUME NEW q \in Requests, Paid(q), Slept(q), Told(q),
           step'[q] = step[q], status'[q] = status[q], attempt'[q] = attempt[q],
           rest'[q] = rest[q], spent'[q] = spent[q], fault'[q] = fault[q],
           asked'[q] = asked[q]
    PROVE  Paid(q)' /\ Slept(q)' /\ Told(q)'
<1>1. Paid(q)' /\ Slept(q)'
  BY DEF Paid, Slept
<1>2. Spent(q, "embed")' <=> Spent(q, "embed")
  BY DEF Spent
<1>3. Spent(q, "chat")' <=> Spent(q, "chat")
  BY DEF Spent
<1> QED
  BY <1>1, <1>2, <1>3 DEF Told

\* The types of what belongs to one request.
LEMMA RequestTyped ==
    ASSUME TypeOK, NEW r \in Requests
    PROVE  /\ step[r] \in Steps /\ attempt[r] \in Nat /\ rest[r] \in Nat \cup {Awake}
           /\ spent[r] \in [Stages -> Nat] /\ spent[r]["embed"] \in Nat /\ spent[r]["chat"] \in Nat
           /\ fault[r] \in {"none", "transient", "permanent", "search"}
           /\ asked[r].reply \in AnyReply /\ asked[r].waited \in Nat
           /\ \A g \in Stages : Retries[g] \in Nat /\ (step[r] = g => attempt[r] <= Retries[g])
BY ServingAssumption DEF TypeOK, Stages, ServingAssumption, AnyReply

LEMMA ArriveInv ==
    ASSUME Inv, NEW r \in Requests, Arrive(r)
    PROVE  Inv'
<1> USE DEF Arrive, Inv, loop, history
<1>1. TypeOK'
  <2>1. step' \in [Requests -> Steps] /\ queue' \in Seq(Requests)
    BY DEF TypeOK, Steps
  <2>2. \A q \in Requests, g \in Stages : step'[q] = g => attempt'[q] <= Retries[g]
    BY DEF TypeOK, Stages
  <2> QED
    BY <2>1, <2>2 DEF TypeOK
<1>2. ASSUME NEW q \in Requests
      PROVE  Paid(q)' /\ Slept(q)' /\ Told(q)'
  <2>1. CASE q = r
    <3>1. step'[q] = "check" /\ step[q] = "unsent"
      BY <2>1 DEF TypeOK
    <3>2. status'[q] = 0
      BY <3>1 DEF Told, TypeOK
    <3>3. rest'[q] = Awake
      BY <3>1 DEF Slept, Stages
    <3> QED
      BY <3>1, <3>2, <3>3 DEF Paid, Slept, Told, Stages
  <2>2. CASE q # r
    BY <2>2, Untouched DEF TypeOK
  <2> QED
    BY <2>1, <2>2
<1> QED
  BY <1>1, <1>2

LEMMA TakeInv ==
    ASSUME Inv, NEW w \in Workers, Take(w)
    PROVE  Inv'
<1> USE DEF Take, Inv, loop, history
<1>1. worker' \in [Workers -> Requests \cup {None}] /\ queue' \in Seq(Requests)
  <2>1. Head(queue) \in Requests
    BY DEF TypeOK
  <2> QED
    BY <2>1 DEF TypeOK
<1>2. TypeOK'
  BY <1>1 DEF TypeOK
<1>3. \A q \in Requests : Paid(q)' /\ Slept(q)' /\ Told(q)'
  BY Untouched
<1> QED
  BY <1>2, <1>3

\* The response that `code` stands for is true of request r.
LEMMA RespondInv ==
    ASSUME Inv, NEW w \in Workers, NEW r \in Requests, r = worker[w], step[r] # "done",
           NEW code \in {200, 422, 429, 500, 502}, Respond(w, code),
           rest[r] = Awake, UNCHANGED spent,
           fault' \in [Requests -> {"none", "transient", "permanent", "search"}],
           asked' \in [Requests -> [reply : AnyReply, waited : Nat]],
           \A q \in Requests : q # r => fault'[q] = fault[q] /\ asked'[q] = asked[q],
           code \in {422, 429} => spent[r]["embed"] = 0 /\ spent[r]["chat"] = 0,
           code = 502 => Spent(r, "chat")',
           code = 500 => /\ spent[r]["chat"] = 0
                         /\ \/ Spent(r, "embed")'
                            \/ fault'[r] = "search"
                            \/ fault'[r] = "transient" /\ asked'[r].reply[1].wait < 0
    PROVE  Inv'
<1>1. /\ step' = [step EXCEPT ![r] = "done"] /\ status' = [status EXCEPT ![r] = code]
      /\ attempt' = [attempt EXCEPT ![r] = 0] /\ worker' = [worker EXCEPT ![w] = None]
      /\ queue' = queue /\ rest' = rest
  BY DEF Respond
<1>2. TypeOK'
  <2>1. /\ step' \in [Requests -> Steps] /\ status' \in [Requests -> {0, 200, 422, 429, 500, 502}]
        /\ attempt' \in [Requests -> Nat] /\ worker' \in [Workers -> Requests \cup {None}]
    <3>1. /\ "done" \in Steps /\ 0 \in Nat /\ code \in {0, 200, 422, 429, 500, 502}
          /\ None \in Requests \cup {None}
      BY DEF Steps
    <3>2. /\ step \in [Requests -> Steps] /\ status \in [Requests -> {0, 200, 422, 429, 500, 502}]
          /\ attempt \in [Requests -> Nat] /\ worker \in [Workers -> Requests \cup {None}]
      BY DEF Inv, TypeOK
    <3> QED
      BY <1>1, <3>1, <3>2, UpdateTyped, Zenon
  <2>2. \A q \in Requests, g \in Stages : step'[q] = g => attempt'[q] <= Retries[g]
    BY <1>1 DEF Inv, TypeOK, Stages
  <2> QED
    BY <1>1, <2>1, <2>2 DEF Inv, TypeOK, AnyReply
<1>3. ASSUME NEW q \in Requests
      PROVE  Paid(q)' /\ Slept(q)' /\ Told(q)'
  <2>1. CASE q = r
    <3>1. step'[q] = "done" /\ status'[q] = code /\ rest'[q] = Awake /\ spent'[q] = spent[q]
      BY <1>1, <2>1 DEF Inv, TypeOK
    <3>2. Paid(q)'
      BY <3>1 DEF Inv, Paid, Stages
    <3>3. Slept(q)'
      BY <3>1 DEF Slept
    <3>4. Told(q)'
      BY <2>1, <3>1 DEF Told
    <3> QED
      BY <3>2, <3>3, <3>4
  <2>2. CASE q # r
    <3>1. /\ step'[q] = step[q] /\ status'[q] = status[q] /\ attempt'[q] = attempt[q]
          /\ rest'[q] = rest[q] /\ spent'[q] = spent[q] /\ fault'[q] = fault[q]
          /\ asked'[q] = asked[q]
      BY <1>1, <2>2 DEF Inv, TypeOK
    <3> QED
      BY <3>1, Untouched DEF Inv
  <2> QED
    BY <2>1, <2>2
<1> QED
  BY <1>2, <1>3 DEF Inv

LEMMA UnreadableInv ==
    ASSUME Inv, NEW r \in Requests, Unreadable(r)
    PROVE  Inv'
<1> USE DEF Unreadable, Inv, loop, history
<1>1. TypeOK'
  <2>1. step' \in [Requests -> Steps] /\ status' \in [Requests -> {0, 200, 422, 429, 500, 502}]
    BY DEF TypeOK, Steps
  <2>2. \A q \in Requests, g \in Stages : step'[q] = g => attempt'[q] <= Retries[g]
    BY DEF TypeOK, Stages
  <2> QED
    BY <2>1, <2>2 DEF TypeOK
<1>2. ASSUME NEW q \in Requests
      PROVE  Paid(q)' /\ Slept(q)' /\ Told(q)'
  <2>1. CASE q = r
    <3>1. step'[q] = "done" /\ status'[q] = 422 /\ step[q] = "unsent"
      BY <2>1 DEF TypeOK
    <3>2. rest'[q] = Awake
      BY <3>1 DEF Slept, Stages
    <3> QED
      BY <3>1, <3>2 DEF Paid, Slept, Told, Stages
  <2>2. CASE q # r
    BY <2>2, Untouched DEF TypeOK
  <2> QED
    BY <2>1, <2>2
<1> QED
  BY <1>1, <1>2

LEMMA RefuseInv ==
    ASSUME Inv, NEW w \in Workers, Refuse(w) \/ Invalid(w)
    PROVE  Inv'
<1> USE DEF Refuse, Invalid, Inv, history
<1>1. worker[w] \in Requests /\ step[worker[w]] = "check"
  BY DEF At, TypeOK
<1>2. rest[worker[w]] = Awake
  BY <1>1 DEF Slept, Stages
<1>3. spent[worker[w]]["embed"] = 0 /\ spent[worker[w]]["chat"] = 0
  BY <1>1 DEF Paid
<1>4. /\ fault' \in [Requests -> {"none", "transient", "permanent", "search"}] /\ fault' = fault
      /\ asked' \in [Requests -> [reply : AnyReply, waited : Nat]] /\ asked' = asked
  BY DEF TypeOK, AnyReply
<1> QED
  BY <1>1, <1>2, <1>3, <1>4, RespondInv

LEMMA AnswerInv ==
    ASSUME Inv, NEW w \in Workers, CacheHit(w) \/ NotCovered(w) \/ Generate(w)
    PROVE  Inv'
<1> USE DEF CacheHit, NotCovered, Generate, Calling, Inv, history
<1>1. worker[w] \in Requests /\ step[worker[w]] # "done"
  BY DEF At, TypeOK
<1>2. rest[worker[w]] = Awake
  BY <1>1 DEF Slept, Stages, At
<1>3. /\ fault' \in [Requests -> {"none", "transient", "permanent", "search"}] /\ fault' = fault
      /\ asked' \in [Requests -> [reply : AnyReply, waited : Nat]] /\ asked' = asked
  BY DEF TypeOK, AnyReply
<1> QED
  BY <1>1, <1>2, <1>3, RespondInv

LEMMA SearchRaisesInv ==
    ASSUME Inv, NEW w \in Workers, SearchRaises(w)
    PROVE  Inv'
<1> USE DEF SearchRaises, Calling, Inv
<1>1. worker[w] \in Requests /\ step[worker[w]] = "embed"
  BY DEF At, TypeOK
<1>2. spent[worker[w]]["chat"] = 0
  BY <1>1 DEF Paid
<1>3. /\ fault' \in [Requests -> {"none", "transient", "permanent", "search"}]
      /\ fault'[worker[w]] = "search"
      /\ \A q \in Requests : q # worker[w] => fault'[q] = fault[q]
      /\ asked' \in [Requests -> [reply : AnyReply, waited : Nat]] /\ asked' = asked
  BY <1>1 DEF TypeOK, AnyReply
<1> QED
  BY <1>1, <1>2, <1>3, RespondInv

LEMMA GiveUpInv ==
    ASSUME Inv, NEW w \in Workers, NEW g \in Stages, NEW kind \in {"transient", "permanent"},
           GiveUp(w, g, kind)
    PROVE  Inv'
<1> USE DEF GiveUp, Failed, Calling, Inv
<1>1. PICK r \in Requests : r = worker[w] /\ step[r] = g
  BY DEF At, TypeOK, Stages
<1>2. /\ fault' \in [Requests -> {"none", "transient", "permanent", "search"}]
      /\ fault'[r] = kind
      /\ \A q \in Requests : q # r => fault'[q] = fault[q]
      /\ asked' \in [Requests -> [reply : AnyReply, waited : Nat]] /\ asked' = asked
  BY <1>1 DEF TypeOK, AnyReply
<1>3. Spent(r, g)'
  <2>1. attempt[r] = Retries[g] => spent'[r][g] = Retries[g] + 1
    BY <1>1 DEF Paid
  <2>2. kind = "permanent" \/ attempt[r] = Retries[g]
    BY <1>1 DEF Last
  <2> QED
    BY <1>2, <2>1, <2>2 DEF Spent
<1>4. /\ ErrorStatus(g) \in {500, 502}
      /\ ErrorStatus(g) = 502 => g = "chat"
      /\ ErrorStatus(g) = 500 => g = "embed"
  BY DEF ErrorStatus, Stages
<1>5. ErrorStatus(g) = 500 => spent[r]["chat"] = 0
  BY <1>1, <1>4 DEF Paid
<1>6. step[r] # "done" /\ rest[r] = Awake /\ spent' = spent /\ Respond(w, ErrorStatus(g))
  BY <1>1 DEF Stages
<1> HIDE DEF GiveUp, Inv
<1> QED
  BY <1>1, <1>2, <1>3, <1>4, <1>5, <1>6, RespondInv

\* What a retry that is prepared leaves to be said about the failure.
LEMMA RetryableTyped ==
    ASSUME Inv, NEW w \in Workers, NEW g \in Stages, NEW reply \in AnyReply,
           Retryable(w, g, reply)
    PROVE  /\ worker[w] \in Requests /\ step[worker[w]] = g /\ rest[worker[w]] = Awake
           /\ attempt[worker[w]] \in 0..Retries[g] /\ attempt[worker[w]] < Retries[g]
           /\ fault' \in [Requests -> {"none", "transient", "permanent", "search"}]
           /\ asked' \in [Requests -> [reply : AnyReply, waited : Nat]]
           /\ fault'[worker[w]] = "transient"
           /\ asked'[worker[w]] = [reply |-> reply, waited |-> 0]
           /\ \A q \in Requests : q # worker[w] => fault'[q] = fault[q] /\ asked'[q] = asked[q]
<1>1. worker[w] \in Requests /\ step[worker[w]] = g /\ rest[worker[w]] = Awake
  BY DEF Retryable, Failed, Calling, At, Inv, TypeOK
<1>2. attempt[worker[w]] \in 0..Retries[g] /\ attempt[worker[w]] < Retries[g]
  BY <1>1, RequestTyped DEF Retryable, Last, Inv
<1>3. /\ fault' = [fault EXCEPT ![worker[w]] = "transient"]
      /\ asked' = [asked EXCEPT ![worker[w]] = [reply |-> reply, waited |-> 0]]
  BY DEF Retryable, Failed
<1>4. /\ fault \in [Requests -> {"none", "transient", "permanent", "search"}]
      /\ asked \in [Requests -> [reply : AnyReply, waited : Nat]]
  BY DEF Inv, TypeOK, AnyReply
<1>5. /\ [reply |-> reply, waited |-> 0] \in [reply : AnyReply, waited : Nat]
      /\ "transient" \in {"none", "transient", "permanent", "search"}
  OBVIOUS
<1>6. /\ fault' \in [Requests -> {"none", "transient", "permanent", "search"}]
      /\ asked' \in [Requests -> [reply : AnyReply, waited : Nat]]
  BY <1>3, <1>4, <1>5, UpdateTyped, Zenon
<1> QED
  BY <1>1, <1>2, <1>3, <1>4, <1>6

LEMMA SleepRaisesInv ==
    ASSUME Inv, NEW w \in Workers, NEW g \in Stages, NEW reply \in AnyReply,
           SleepRaises(w, g, reply)
    PROVE  Inv'
<1>1. Retryable(w, g, reply) /\ Respond(w, 500) /\ Delay(g, attempt[worker[w]], reply) < 0
  BY DEF SleepRaises
<1>2. /\ worker[w] \in Requests /\ step[worker[w]] = g /\ rest[worker[w]] = Awake
      /\ attempt[worker[w]] \in 0..Retries[g]
      /\ fault' \in [Requests -> {"none", "transient", "permanent", "search"}]
      /\ asked' \in [Requests -> [reply : AnyReply, waited : Nat]]
      /\ fault'[worker[w]] = "transient"
      /\ asked'[worker[w]] = [reply |-> reply, waited |-> 0]
      /\ \A q \in Requests : q # worker[w] => fault'[q] = fault[q] /\ asked'[q] = asked[q]
  BY <1>1, RetryableTyped
<1>3. g = "embed" /\ reply[1].wait < 0
  BY <1>1, <1>2, DelayProperties
<1>4. spent[worker[w]]["chat"] = 0 /\ spent' = spent
  BY <1>1, <1>2, <1>3 DEF Inv, Paid, Retryable
<1> QED
  BY <1>1, <1>2, <1>3, <1>4, RespondInv

LEMMA AdmitInv ==
    ASSUME Inv, NEW w \in Workers, Admit(w)
    PROVE  Inv'
<1> USE DEF Admit, Inv, loop, history
<1> DEFINE r == worker[w]
<1>0. r \in Requests /\ step[r] = "check"
  BY DEF At, TypeOK
<1>1. TypeOK'
  <2>1. step' \in [Requests -> Steps] /\ worker' \in [Workers -> Requests \cup {None}]
    BY DEF TypeOK, Steps
  <2>2. queue' \in Seq(Requests)
    BY <1>0 DEF TypeOK
  <2>3. \A q \in Requests, g \in Stages : step'[q] = g => attempt'[q] <= Retries[g]
    BY DEF TypeOK, Stages
  <2> QED
    BY <2>1, <2>2, <2>3 DEF TypeOK
<1> HIDE DEF r
<1>2. ASSUME NEW q \in Requests
      PROVE  Paid(q)' /\ Slept(q)' /\ Told(q)'
  <2>1. CASE q = r
    <3>1. step'[q] = "answer" /\ step[q] = "check"
      BY <1>0, <2>1 DEF TypeOK, r
    <3>2. status'[q] = 0
      BY <3>1 DEF Told, TypeOK
    <3>3. rest'[q] = Awake
      BY <3>1 DEF Slept, Stages
    <3> QED
      BY <3>1, <3>2, <3>3 DEF Paid, Slept, Told, Stages
  <2>2. CASE q # r
    BY <2>2, Untouched DEF TypeOK, r
  <2> QED
    BY <2>1, <2>2
<1> QED
  BY <1>1, <1>2

\* The first call of a loop, from the step before it.
LEMMA EnterLoopInv ==
    ASSUME Inv, NEW w \in Workers, CacheMiss(w) \/ Retrieve(w)
    PROVE  Inv'
<1> USE DEF CacheMiss, Retrieve, EnterLoop, Calling, Inv
<1> DEFINE r == worker[w]
<1>0. r \in Requests
  BY DEF At, TypeOK
<1>1. PICK g \in Stages :
        /\ EnterLoop(w, g)
        /\ \/ g = "embed" /\ step[r] = "answer"
           \/ g = "chat" /\ step[r] = "embed"
  BY DEF At, Stages
<1> HIDE DEF r
<1>2. /\ step' = [step EXCEPT ![r] = g] /\ attempt' = [attempt EXCEPT ![r] = 0]
      /\ spent' = [spent EXCEPT ![r][g] = @ + 1]
      /\ UNCHANGED <<status, queue, worker, rest, fault, asked>>
  BY <1>1 DEF r
<1>3. /\ step'[r] = g /\ attempt'[r] = 0
      /\ spent'[r] = [spent[r] EXCEPT ![g] = @ + 1]
      /\ \A q \in Requests : q # r => /\ step'[q] = step[q] /\ attempt'[q] = attempt[q]
                                      /\ spent'[q] = spent[q]
  BY <1>0, <1>2 DEF TypeOK
<1>4. spent[r] \in [Stages -> Nat] /\ spent'[r] \in [Stages -> Nat]
      /\ spent'[r][g] = spent[r][g] + 1
      /\ \A h \in Stages : h # g => spent'[r][h] = spent[r][h]
  BY <1>0, <1>3, RequestTyped
<1>5. TypeOK'
  <2>1. step' \in [Requests -> Steps] /\ attempt' \in [Requests -> Nat]
    <3> HIDE DEF Inv, CacheMiss, Retrieve
    <3>1. g \in Steps /\ 0 \in Nat
      BY DEF Steps
    <3>2. step \in [Requests -> Steps] /\ attempt \in [Requests -> Nat]
      BY DEF Inv, TypeOK
    <3> QED
      BY <1>2, <3>1, <3>2, UpdateTyped, Zenon
  <2>2. spent' \in [Requests -> [Stages -> Nat]]
    BY <1>2, <1>3, <1>4 DEF TypeOK
  <2>3. ASSUME NEW q \in Requests, NEW h \in Stages, step'[q] = h
        PROVE  attempt'[q] <= Retries[h]
    <3> HIDE DEF CacheMiss, Retrieve, EnterLoop
    <3>1. Retries[h] \in Nat /\ (step[q] = h => attempt[q] <= Retries[h])
      BY RequestTyped
    <3> QED
      BY <1>3, <2>3, <3>1
  <2> QED
    BY <1>2, <2>1, <2>2, <2>3 DEF TypeOK
<1>6. /\ status[r] = 0 /\ rest[r] = Awake
      /\ spent[r][g] = 0 /\ spent[r]["chat"] = 0
      /\ g = "chat" => spent[r]["embed"] > 0 /\ spent[r]["embed"] <= Retries["embed"] + 1
  <2>1. status[r] = 0
    BY <1>0, <1>1 DEF Told, Stages
  <2>2. rest[r] = Awake
    <3>1. CASE step[r] = "answer"
      BY <1>0, <3>1 DEF Slept, Stages
    <3>2. CASE step[r] = "embed"
      BY <1>0, <3>2 DEF r, At
    <3> QED
      BY <1>1, <3>1, <3>2
  <2>3. attempt[r] \in Nat /\ "embed" \in Stages
    BY <1>0, RequestTyped DEF Stages
  <2> QED
    BY <1>0, <1>1, <2>1, <2>2, <2>3 DEF Paid
<1>7. ASSUME NEW q \in Requests
      PROVE  Paid(q)' /\ Slept(q)' /\ Told(q)'
  <2>1. CASE q = r
    <3>0. \A h \in Stages : Retries[h] \in Nat
      BY <1>0, RequestTyped
    <3>1. CASE g = "embed"
      <4>1. spent'[r]["embed"] = 1 /\ spent'[r]["chat"] = 0
        BY <1>4, <1>6, <3>1 DEF Stages
      <4> QED
        BY <1>2, <1>3, <1>6, <2>1, <3>0, <3>1, <4>1 DEF Paid, Slept, Told, Stages
    <3>2. CASE g = "chat"
      <4>1. spent'[r]["chat"] = 1 /\ spent'[r]["embed"] = spent[r]["embed"]
        BY <1>4, <1>6, <3>2 DEF Stages
      <4> QED
        BY <1>2, <1>3, <1>6, <2>1, <3>0, <3>2, <4>1 DEF Paid, Slept, Told, Stages
    <3> QED
      BY <3>1, <3>2 DEF Stages
  <2>2. CASE q # r
    BY <1>2, <1>3, <2>2, Untouched
  <2> QED
    BY <2>1, <2>2
<1> QED
  BY <1>5, <1>7

LEMMA SleepInv ==
    ASSUME Inv, NEW w \in Workers, NEW g \in Stages, NEW reply \in AnyReply,
           Sleep(w, g, reply)
    PROVE  Inv'
<1> DEFINE r == worker[w]
           d == Delay(g, attempt[r], reply)
<1>0. /\ r \in Requests /\ step[r] = g
      /\ attempt[r] \in 0..Retries[g] /\ attempt[r] < Retries[g]
      /\ fault' \in [Requests -> {"none", "transient", "permanent", "search"}]
      /\ asked' \in [Requests -> [reply : AnyReply, waited : Nat]]
      /\ fault'[r] = "transient"
      /\ asked'[r] = [reply |-> reply, waited |-> 0]
      /\ \A q \in Requests : q # r => fault'[q] = fault[q] /\ asked'[q] = asked[q]
  BY RetryableTyped DEF Sleep
<1>1. d >= 0
  BY DEF Sleep
<1>2. d \in Nat /\ Enough(g, attempt[r], reply, d)
  BY <1>0, <1>1, DelayProperties
<1>3. /\ rest' = [rest EXCEPT ![r] = d]
      /\ UNCHANGED <<step, status, queue, worker, attempt, spent>>
  BY DEF Sleep, Retryable, flow
<1> HIDE DEF r, d
<1>4. TypeOK'
  <2>1. rest' \in [Requests -> Nat \cup {Awake}]
    <3>1. d \in Nat \cup {Awake} /\ rest \in [Requests -> Nat \cup {Awake}]
      BY <1>2 DEF Inv, TypeOK
    <3> QED
      BY <1>3, <3>1, UpdateTyped, Zenon
  <2> QED
    BY <1>0, <1>3, <2>1 DEF Inv, TypeOK, AnyReply
<1>5. ASSUME NEW q \in Requests
      PROVE  Paid(q)' /\ Slept(q)' /\ Told(q)'
  <2>1. CASE q = r
    <3>1. status[q] = 0 /\ rest'[q] = d
      BY <1>0, <1>3, <2>1 DEF Inv, Told, TypeOK, Stages
    <3>2. asked'[q].reply = reply /\ asked'[q].waited + rest'[q] = d
      BY <1>0, <1>2, <2>1, <3>1
    <3>3. Enough(g, attempt'[q], asked'[q].reply, asked'[q].waited + rest'[q])
      BY <1>2, <1>3, <2>1, <3>2
    <3>4. Slept(q)'
      BY <1>0, <1>3, <2>1, <3>3 DEF Slept
    <3>5. Paid(q)' /\ Told(q)'
      BY <1>3, <3>1 DEF Inv, Paid, Told
    <3> QED
      BY <3>4, <3>5
  <2>2. CASE q # r
    <3>1. rest'[q] = rest[q]
      BY <1>3, <2>2 DEF Inv, TypeOK
    <3> QED
      BY <1>0, <1>3, <2>2, <3>1, Untouched DEF Inv
  <2> QED
    BY <2>1, <2>2
<1> QED
  BY <1>4, <1>5 DEF Inv

LEMMA WakeInv ==
    ASSUME Inv, NEW w \in Workers, NEW g \in Stages, Wake(w, g)
    PROVE  Inv'
<1> USE DEF Inv
<1> DEFINE r == worker[w]
<1>0. r \in Requests /\ step[r] = g /\ rest[r] = 0
  BY DEF Wake, At, TypeOK
<1>1. attempt[r] \in Nat /\ Retries[g] \in Nat /\ attempt[r] < Retries[g]
  BY <1>0, RequestTyped DEF Slept, Awake
<1>2. /\ rest' = [rest EXCEPT ![r] = Awake]
      /\ attempt' = [attempt EXCEPT ![r] = attempt[r] + 1]
      /\ spent' = [spent EXCEPT ![r] = [spent[r] EXCEPT ![g] = spent[r][g] + 1]]
      /\ fault' = [fault EXCEPT ![r] = "none"]
      /\ asked' = [asked EXCEPT ![r] = NotAsked]
      /\ UNCHANGED <<step, status, queue, worker>>
  BY DEF Wake, flow
<1> HIDE DEF r
<1>3. spent[r] \in [Stages -> Nat] /\ [spent[r] EXCEPT ![g] = spent[r][g] + 1] \in [Stages -> Nat]
  BY <1>0, RequestTyped
<1>4. TypeOK'
  <2>1. /\ Awake \in Nat \cup {Awake} /\ attempt[r] + 1 \in Nat
        /\ NotAsked \in [reply : AnyReply, waited : Nat]
        /\ "none" \in {"none", "transient", "permanent", "search"}
    BY <1>1 DEF NotAsked, AnyReply
  <2>2. /\ rest \in [Requests -> Nat \cup {Awake}] /\ attempt \in [Requests -> Nat]
        /\ spent \in [Requests -> [Stages -> Nat]]
        /\ asked \in [Requests -> [reply : AnyReply, waited : Nat]]
        /\ fault \in [Requests -> {"none", "transient", "permanent", "search"}]
    BY DEF TypeOK, AnyReply
  <2>3. /\ rest' \in [Requests -> Nat \cup {Awake}] /\ attempt' \in [Requests -> Nat]
        /\ spent' \in [Requests -> [Stages -> Nat]]
        /\ asked' \in [Requests -> [reply : AnyReply, waited : Nat]]
        /\ fault' \in [Requests -> {"none", "transient", "permanent", "search"}]
    <3> HIDE DEF Inv
    <3> QED
      BY <1>2, <1>3, <2>1, <2>2, UpdateTyped, Zenon
  <2>4. ASSUME NEW q \in Requests, NEW h \in Stages, step'[q] = h
        PROVE  attempt'[q] <= Retries[h]
    <3>1. CASE q = r
      BY <1>0, <1>1, <1>2, <2>2, <2>4, <3>1
    <3>2. CASE q # r
      BY <1>2, <2>2, <2>4, <3>2, RequestTyped
    <3> QED
      BY <3>1, <3>2
  <2> QED
    BY <1>2, <2>3, <2>4 DEF TypeOK, AnyReply
<1>5. ASSUME NEW q \in Requests
      PROVE  Paid(q)' /\ Slept(q)' /\ Told(q)'
  <2>1. CASE q = r
    <3>1. rest'[q] = Awake /\ attempt'[q] = attempt[q] + 1 /\ status[q] = 0
      <4>1. status[q] = 0
        BY <1>0, <2>1 DEF Told, Stages
      <4> QED
        BY <1>0, <1>2, <2>1, <4>1 DEF TypeOK
    <3>2. spent'[q][g] = spent[q][g] + 1 /\ \A h \in Stages : h # g => spent'[q][h] = spent[q][h]
      BY <1>0, <1>2, <1>3, <2>1 DEF TypeOK
    <3>3. spent[q]["embed"] \in Nat /\ spent[q]["chat"] \in Nat
          /\ spent[q][g] = attempt[q] + 1
      BY <1>0, <2>1, RequestTyped DEF Paid
    <3>4. Slept(q)' /\ Told(q)'
      BY <1>2, <3>1 DEF Slept, Told
    <3>5. Paid(q)'
      <4>1. /\ step'[q] = g /\ spent'[q][g] = attempt'[q] + 1
            /\ spent'[q][g] <= Retries[g] + 1
        BY <1>0, <1>1, <1>2, <2>1, <3>1, <3>2, <3>3
      <4>2. Paid(q) /\ step[q] = g
        BY <1>0, <2>1
      <4>3. CASE g = "embed"
        <5>1. spent'[q]["chat"] = spent[q]["chat"] /\ spent[q]["chat"] = 0
          BY <3>2, <4>2, <4>3 DEF Paid, Stages
        <5>2. spent'[q]["chat"] <= Retries["chat"] + 1
          BY <5>1, RequestTyped DEF Stages
        <5> QED
          BY <4>1, <4>3, <5>1, <5>2 DEF Paid, Stages
      <4>4. CASE g = "chat"
        <5>1. /\ spent'[q]["embed"] = spent[q]["embed"]
              /\ spent[q]["embed"] > 0 /\ spent[q]["embed"] <= Retries["embed"] + 1
          <6>1. spent'[q]["embed"] = spent[q]["embed"] /\ "embed" \in Stages
            BY <3>2, <4>4 DEF Stages
          <6>2. attempt[q] \in Nat
            BY RequestTyped
          <6> QED
            BY <3>3, <4>2, <4>4, <6>1, <6>2 DEF Paid
        <5> QED
          BY <4>1, <4>4, <5>1 DEF Paid, Stages
      <4> QED
        BY <4>3, <4>4 DEF Stages
    <3> QED
      BY <3>4, <3>5
  <2>2. CASE q # r
    <3>1. /\ rest'[q] = rest[q] /\ attempt'[q] = attempt[q] /\ spent'[q] = spent[q]
          /\ fault'[q] = fault[q] /\ asked'[q] = asked[q]
      BY <1>2, <2>2 DEF TypeOK
    <3> QED
      BY <1>2, <3>1, Untouched
  <2> QED
    BY <2>1, <2>2
<1> QED
  BY <1>4, <1>5

LEMMA TickInv ==
    ASSUME Inv, Tick
    PROVE  Inv'
<1> USE DEF Inv
<1>1. /\ UNCHANGED <<step, status, queue, worker, attempt, spent, fault>>
      /\ rest' = [r \in Requests |-> IF rest[r] > 0 THEN rest[r] - 1 ELSE rest[r]]
      /\ asked' = [r \in Requests |->
             IF rest[r] > 0 THEN [asked[r] EXCEPT !.waited = @ + 1] ELSE asked[r]]
  BY DEF Tick, flow
<1>2. ASSUME NEW q \in Requests
      PROVE  /\ rest'[q] = (IF rest[q] > 0 THEN rest[q] - 1 ELSE rest[q])
             /\ asked'[q] = (IF rest[q] > 0 THEN [asked[q] EXCEPT !.waited = @ + 1] ELSE asked[q])
             /\ rest[q] \in Nat \cup {Awake} /\ asked[q] \in [reply : AnyReply, waited : Nat]
  BY <1>1 DEF TypeOK, AnyReply
<1>3. TypeOK'
  <2>1. \A q \in Requests : rest'[q] \in Nat \cup {Awake}
    <3> SUFFICES ASSUME NEW q \in Requests
                 PROVE  rest'[q] \in Nat \cup {Awake}
      OBVIOUS
    <3>1. rest[q] \in Nat \cup {Awake}
      BY RequestTyped
    <3>2. CASE rest[q] > 0
      <4>1. rest[q] \in Nat /\ rest[q] - 1 \in Nat
        BY <3>1, <3>2 DEF Awake
      <4> QED
        BY <1>2, <3>2, <4>1
    <3>3. CASE ~(rest[q] > 0)
      BY <1>2, <3>1, <3>3
    <3> QED
      BY <3>2, <3>3
  <2>2. ASSUME NEW q \in Requests
        PROVE  asked'[q] \in [reply : AnyReply, waited : Nat]
    <3>1. asked[q] = [reply |-> asked[q].reply, waited |-> asked[q].waited]
          /\ asked[q].reply \in AnyReply /\ asked[q].waited \in Nat
      BY <1>2, RequestTyped
    <3>2. CASE rest[q] > 0
      <4>1. asked'[q] = [reply |-> asked[q].reply, waited |-> asked[q].waited + 1]
        BY <1>2, <3>1, <3>2
      <4> QED
        BY <3>1, <4>1
    <3>3. CASE ~(rest[q] > 0)
      BY <1>2, <3>3
    <3> QED
      BY <3>2, <3>3
  <2>3. /\ rest' \in [Requests -> Nat \cup {Awake}]
        /\ asked' \in [Requests -> [reply : AnyReply, waited : Nat]]
    BY <1>1, <2>1, <2>2
  <2> QED
    BY <1>1, <2>3 DEF TypeOK, AnyReply
<1>4. ASSUME NEW q \in Requests
      PROVE  Paid(q)' /\ Slept(q)' /\ Told(q)'
  <2>1. Slept(q)'
    <3>1. CASE rest[q] > 0
      <4>1. /\ rest'[q] = rest[q] - 1 /\ asked'[q].reply = asked[q].reply
            /\ asked'[q].waited = asked[q].waited + 1
        BY <1>2, <3>1
      <4>2. rest[q] # Awake /\ rest[q] \in Nat /\ asked[q].waited \in Nat
        BY <3>1, RequestTyped DEF Awake
      <4>3. asked'[q].waited + rest'[q] = asked[q].waited + rest[q]
        BY <4>1, <4>2
      <4> QED
        BY <1>1, <4>1, <4>2, <4>3 DEF Slept
    <3>2. CASE ~(rest[q] > 0)
      BY <1>1, <1>2, <3>2 DEF Slept
    <3> QED
      BY <3>1, <3>2
  <2>2. Paid(q)' /\ Told(q)'
    <3>1. asked'[q].reply = asked[q].reply
      BY <1>2
    <3> QED
      BY <1>1, <3>1 DEF Paid, Told, Spent
  <2> QED
    BY <2>1, <2>2
<1> QED
  BY <1>3, <1>4

-----------------------------------------------------------------------------

LEMMA NextInv == Inv /\ [Next]_vars => Inv'
<1> SUFFICES ASSUME Inv, [Next]_vars PROVE Inv'
  OBVIOUS
<1>1. ASSUME NEW r \in Requests, Unreadable(r) \/ Arrive(r) PROVE Inv'
  BY <1>1, UnreadableInv, ArriveInv
<1>2. ASSUME NEW w \in Workers, Take(w) PROVE Inv'
  BY <1>2, TakeInv
<1>3. ASSUME NEW w \in Workers, Serve(w) PROVE Inv'
  <2>1. CASE Check(w)
    BY <2>1, RefuseInv, AdmitInv DEF Check
  <2>2. CASE Answer(w)
    BY <2>2, AnswerInv, EnterLoopInv DEF Answer
  <2>3. CASE Succeed(w)
    BY <2>3, AnswerInv, SearchRaisesInv, EnterLoopInv DEF Succeed
  <2>4. CASE Fail(w)
    BY <2>4, GiveUpInv, SleepInv, SleepRaisesInv DEF Fail, AnyReply
  <2>5. CASE \E g \in Stages : Wake(w, g)
    BY <2>5, WakeInv
  <2> QED
    BY <1>3, <2>1, <2>2, <2>3, <2>4, <2>5 DEF Serve
<1>4. CASE Tick
  BY <1>4, TickInv
<1>5. CASE UNCHANGED vars
  <2>1. UNCHANGED <<step, status, queue, worker, attempt, rest, spent, fault, asked>>
    BY <1>5 DEF vars, flow, loop, history
  <2>2. TypeOK'
    BY <2>1 DEF Inv, TypeOK
  <2>3. \A q \in Requests : Paid(q)' /\ Slept(q)' /\ Told(q)'
    BY <2>1, Untouched DEF Inv
  <2> QED
    BY <2>2, <2>3 DEF Inv
<1> QED
  BY <1>1, <1>2, <1>3, <1>4, <1>5 DEF Next

LEMMA InvHolds == Spec => []Inv
BY InitInv, NextInv, PTL DEF Spec

\* The types of the pool and of the loops hold, and no attempt is beyond the
\* retries, for any number of requests, threads and retries.
THEOREM TypeOKHolds == Spec => []TypeOK
<1>1. Inv => TypeOK
  BY DEF Inv
<1> QED
  BY <1>1, InvHolds, PTL

\* However the calls fail, one question costs at most the retries and one call
\* of each provider, and nothing if it is refused (429) or invalid (422): the loops of
\* RemoteEmbedder._request and complete() end where their ranges do.
THEOREM CostBoundedHolds == Spec => []CostBounded
<1>1. Inv => CostBounded
  BY DEF Inv, CostBounded, Paid, Told, Stages
<1> QED
  BY <1>1, InvHolds, PTL

\* An error is reported when no retry was left or would have helped, when search()
\* raises, or when the embedder meets a negative Retry-After; a 500 never follows a
\* call of the chat model, and a 502 is never anybody else's.
THEOREM GivesUpWhenSpentHolds == Spec => []GivesUpWhenSpent
<1>1. Inv => GivesUpWhenSpent
  BY DEF Inv, GivesUpWhenSpent, Told
<1> QED
  BY <1>1, InvHolds, PTL

\* Whatever the headers of a failed call say, and in whatever order the threads go
\* on, the next call is made after the wait in the first header that the loop can
\* read, or after its backoff if it can read none, or after the longest sleep.
THEOREM HintHonouredHolds == Spec => []HintHonoured
<1>1. ASSUME Inv PROVE HintHonoured
  <2>1. ASSUME NEW r \in Requests, NEW g \in Stages, step[r] = g, rest[r] = 0
        PROVE  Enough(g, attempt[r], asked[r].reply, asked[r].waited)
    <3>1. asked[r].waited + rest[r] = asked[r].waited /\ rest[r] # Awake
      BY <1>1, <2>1, RequestTyped DEF Inv, Awake
    <3>2. PICK h \in Stages :
            /\ step[r] = h
            /\ Enough(h, attempt[r], asked[r].reply, asked[r].waited + rest[r])
      BY <1>1, <3>1 DEF Inv, Slept
    <3> QED
      BY <2>1, <3>1, <3>2
  <2> QED
    BY <2>1 DEF HintHonoured
<1> QED
  BY <1>1, InvHolds, PTL

-----------------------------------------------------------------------------
(* The pool: a request is in one place at a time. *)

Queued(r) == \E k \in 1..Len(queue) : queue[k] = r
Served(r) == \E w \in Workers : worker[w] = r

\* Nothing waits twice, is served twice, or waits while it is served; and what
\* is on its way is somewhere.
PoolInv ==
    /\ \A j, k \in 1..Len(queue) : queue[j] = queue[k] => j = k
    /\ \A v, w \in Workers : worker[v] = worker[w] /\ worker[v] # None => v = w
    /\ \A w \in Workers : worker[w] # None => ~Queued(worker[w])
    /\ \A r \in Requests : Queued(r) \/ Served(r) <=> step[r] \notin {"unsent", "done"}

\* The effect of each action on the pool.
LEMMA JoinQueue ==
    ASSUME TypeOK, PoolInv, NEW r \in Requests, step[r] = "unsent",
           step' = [step EXCEPT ![r] = "check"], queue' = Append(queue, r), worker' = worker
    PROVE  PoolInv'
<1>1. /\ queue \in Seq(Requests) /\ Len(queue) \in Nat /\ Len(queue') = Len(queue) + 1
      /\ \A k \in 1..Len(queue) : queue'[k] = queue[k]
      /\ queue'[Len(queue) + 1] = r
  BY DEF TypeOK
<1>2. ~Queued(r) /\ ~Served(r) /\ r # None
  BY ServingAssumption DEF PoolInv, ServingAssumption
<1>3. \A q : Queued(q)' <=> Queued(q) \/ q = r
  BY <1>1 DEF Queued
<1>4. \A q : Served(q)' <=> Served(q)
  BY DEF Served
<1>5. \A j, k \in 1..Len(queue') : queue'[j] = queue'[k] => j = k
  BY <1>1, <1>2 DEF PoolInv, Queued
<1>6. (\A w \in Workers : worker[w] # None => ~Queued(worker[w]))'
  BY <1>2, <1>3 DEF PoolInv, Served, Queued
<1>7. \A q \in Requests : Queued(q)' \/ Served(q)' <=> step'[q] \notin {"unsent", "done"}
  BY <1>3, <1>4 DEF PoolInv, TypeOK
<1> QED
  BY <1>5, <1>6, <1>7 DEF PoolInv

LEMMA LeaveQueue ==
    ASSUME TypeOK, PoolInv, NEW w \in Workers, Take(w)
    PROVE  PoolInv'
<1> DEFINE r == Head(queue)
<1>1. /\ queue \in Seq(Requests) /\ queue # <<>> /\ Len(queue) \in Nat /\ Len(queue) > 0
      /\ r = queue[1] /\ r \in Requests /\ Len(queue') = Len(queue) - 1
      /\ \A k \in 1..Len(queue') : queue'[k] = queue[k + 1]
  BY DEF Take, TypeOK
<1>2. /\ worker[w] = None /\ step' = step
      /\ worker'[w] = r /\ \A v \in Workers \ {w} : worker'[v] = worker[v]
  BY DEF Take, TypeOK
<1> HIDE DEF r
<1>3. Queued(r) /\ r # None
  BY <1>1, ServingAssumption DEF Queued, ServingAssumption
<1>4. ASSUME NEW q
      PROVE  Queued(q)' <=> Queued(q) /\ q # r
  <2>1. ASSUME Queued(q)'
        PROVE  Queued(q) /\ q # r
    <3>1. PICK k \in 1..Len(queue') : queue'[k] = q
      BY <2>1 DEF Queued
    <3>2. k + 1 \in 1..Len(queue) /\ queue[k + 1] = q /\ k + 1 # 1 /\ 1 \in 1..Len(queue)
      BY <1>1, <3>1
    <3> QED
      BY <1>1, <3>2 DEF Queued, PoolInv
  <2>2. ASSUME Queued(q), q # r
        PROVE  Queued(q)'
    <3>1. PICK k \in 1..Len(queue) : queue[k] = q
      BY <2>2 DEF Queued
    <3>2. k - 1 \in 1..Len(queue') /\ queue'[k - 1] = q
      BY <1>1, <2>2, <3>1
    <3> QED
      BY <3>2 DEF Queued
  <2> QED
    BY <2>1, <2>2
<1>5. \A v \in Workers : worker[v] # r
  BY <1>3 DEF PoolInv
<1>6. \A q : q # None => (Served(q)' <=> Served(q) \/ q = r)
  BY <1>2 DEF Served
<1>7. \A j, k \in 1..Len(queue') : queue'[j] = queue'[k] => j = k
  <2> SUFFICES ASSUME NEW j \in 1..Len(queue'), NEW k \in 1..Len(queue'), queue'[j] = queue'[k]
               PROVE  j = k
    OBVIOUS
  <2>1. j + 1 \in 1..Len(queue) /\ k + 1 \in 1..Len(queue) /\ queue[j + 1] = queue[k + 1]
    BY <1>1
  <2>2. j + 1 = k + 1
    BY <2>1 DEF PoolInv
  <2> QED
    BY <2>2
<1>8. \A v, u \in Workers : worker'[v] = worker'[u] /\ worker'[v] # None => v = u
  BY <1>2, <1>5 DEF PoolInv
<1>9. (\A v \in Workers : worker[v] # None => ~Queued(worker[v]))'
  BY <1>2, <1>4 DEF PoolInv, Queued
<1>10. \A q \in Requests : Queued(q)' \/ Served(q)' <=> step'[q] \notin {"unsent", "done"}
  BY <1>1, <1>2, <1>3, <1>4, <1>6, ServingAssumption DEF PoolInv, ServingAssumption
<1> QED
  BY <1>7, <1>8, <1>9, <1>10 DEF PoolInv

LEMMA FreeThread ==
    ASSUME TypeOK, PoolInv, NEW w \in Workers, worker[w] # None,
           step' = [step EXCEPT ![worker[w]] = "done"],
           worker' = [worker EXCEPT ![w] = None], queue' = queue
    PROVE  PoolInv'
<1> DEFINE r == worker[w]
<1>1. r \in Requests /\ r # None /\ ~Queued(r) /\ Served(r)
  BY DEF TypeOK, PoolInv, Served
<1>2. worker'[w] = None /\ \A v \in Workers \ {w} : worker'[v] = worker[v] /\ worker[v] # r
  BY DEF TypeOK, PoolInv
<1>3. step'[r] = "done" /\ \A q \in Requests \ {r} : step'[q] = step[q]
  BY <1>1 DEF TypeOK
<1> HIDE DEF r
<1>4. \A q : Queued(q)' <=> Queued(q)
  BY DEF Queued
<1>5. \A q \in Requests : Served(q)' <=> Served(q) /\ q # r
  BY <1>2, ServingAssumption DEF Served, r, ServingAssumption
<1>6. \A v, u \in Workers : worker'[v] = worker'[u] /\ worker'[v] # None => v = u
  BY <1>2 DEF PoolInv
<1>7. (\A v \in Workers : worker[v] # None => ~Queued(worker[v]))'
  BY <1>2, <1>4 DEF PoolInv, Queued
<1>8. \A q \in Requests : Queued(q)' \/ Served(q)' <=> step'[q] \notin {"unsent", "done"}
  BY <1>1, <1>3, <1>4, <1>5 DEF PoolInv
<1> QED
  BY <1>6, <1>7, <1>8 DEF PoolInv

LEMMA BackToQueue ==
    ASSUME TypeOK, PoolInv, NEW w \in Workers, Admit(w)
    PROVE  PoolInv'
<1> DEFINE r == worker[w]
<1>1. /\ r \in Requests /\ r # None /\ ~Queued(r) /\ Served(r)
      /\ step[r] = "check" /\ queue' = Append(queue, r)
  BY DEF Admit, At, TypeOK, PoolInv, Served
<1>2. worker'[w] = None /\ \A v \in Workers \ {w} : worker'[v] = worker[v] /\ worker[v] # r
  BY <1>1 DEF Admit, TypeOK, PoolInv
<1>3. step'[r] = "answer" /\ \A q \in Requests \ {r} : step'[q] = step[q]
  BY <1>1 DEF Admit, TypeOK
<1> HIDE DEF r
<1>4. /\ queue \in Seq(Requests) /\ Len(queue) \in Nat /\ Len(queue') = Len(queue) + 1
      /\ \A k \in 1..Len(queue) : queue'[k] = queue[k]
      /\ queue'[Len(queue) + 1] = r
  BY <1>1 DEF TypeOK
<1>5. \A q : Queued(q)' <=> Queued(q) \/ q = r
  BY <1>4 DEF Queued
<1>6. \A q \in Requests : Served(q)' <=> Served(q) /\ q # r
  BY <1>2, ServingAssumption DEF Served, r, ServingAssumption
<1>7. \A j, k \in 1..Len(queue') : queue'[j] = queue'[k] => j = k
  BY <1>1, <1>4 DEF PoolInv, Queued
<1>8. \A v, u \in Workers : worker'[v] = worker'[u] /\ worker'[v] # None => v = u
  BY <1>2 DEF PoolInv
<1>9. (\A v \in Workers : worker[v] # None => ~Queued(worker[v]))'
  <2>1. ASSUME NEW v \in Workers, worker'[v] # None
        PROVE  ~\E k \in 1..Len(queue') : queue'[k] = worker'[v]
    <3>1. v # w /\ worker'[v] = worker[v] /\ worker[v] # r /\ worker[v] # None
      BY <1>2, <2>1
    <3>2. ~Queued(worker[v])
      BY <3>1 DEF PoolInv
    <3> QED
      BY <1>5, <3>1, <3>2 DEF Queued
  <2> QED
    BY <2>1 DEF Queued
<1>10. \A q \in Requests : Queued(q)' \/ Served(q)' <=> step'[q] \notin {"unsent", "done"}
  BY <1>1, <1>3, <1>5, <1>6 DEF PoolInv
<1> QED
  BY <1>7, <1>8, <1>9, <1>10 DEF PoolInv

\* Work and time, while everyone keeps their place.
LEMMA StayInPlace ==
    ASSUME TypeOK, PoolInv, UNCHANGED <<queue, worker>>,
           \A q \in Requests : step[q] \in {"unsent", "done"} => step'[q] = step[q],
           \A q \in Requests :
               step[q] \notin {"unsent", "done"} => step'[q] \notin {"unsent", "done"}
    PROVE  PoolInv'
<1>1. \A q : (Queued(q)' <=> Queued(q)) /\ (Served(q)' <=> Served(q))
  BY DEF Queued, Served
<1> QED
  BY <1>1 DEF PoolInv

\* A request that is nowhere may be answered there.
LEMMA OutOfPool ==
    ASSUME TypeOK, PoolInv, NEW r \in Requests, Unreadable(r)
    PROVE  PoolInv'
<1>1. \A q : (Queued(q)' <=> Queued(q)) /\ (Served(q)' <=> Served(q))
  BY DEF Unreadable, Queued, Served
<1>2. step[r] = "unsent" /\ step'[r] = "done" /\ \A q \in Requests \ {r} : step'[q] = step[q]
  BY DEF Unreadable, TypeOK
<1>3. queue' = queue /\ worker' = worker
  BY DEF Unreadable
<1> QED
  BY <1>1, <1>2, <1>3 DEF PoolInv

LEMMA NextPoolInv ==
    ASSUME TypeOK, PoolInv, [Next]_vars
    PROVE  PoolInv'
<1>1. ASSUME NEW r \in Requests, Unreadable(r) \/ Arrive(r) PROVE PoolInv'
  BY <1>1, OutOfPool, JoinQueue DEF Arrive
<1>2. ASSUME NEW w \in Workers, Take(w) PROVE PoolInv'
  BY <1>2, LeaveQueue
<1>3. ASSUME NEW w \in Workers, Serve(w) PROVE PoolInv'
  <2>1. CASE Admit(w)
    BY <2>1, BackToQueue
  <2>2. ASSUME NEW code, Respond(w, code), worker[w] # None PROVE PoolInv'
    BY <2>2, FreeThread DEF Respond
  <2>3. ASSUME NEW g \in Stages, EnterLoop(w, g), worker[w] # None,
               step[worker[w]] \in {"answer", "embed"}
        PROVE  PoolInv'
    <3>1. worker[w] \in Requests /\ step' = [step EXCEPT ![worker[w]] = g]
      BY <2>3 DEF TypeOK, EnterLoop
    <3>2. g \notin {"unsent", "done"}
      BY DEF Stages
    <3>3. \A q \in Requests : step'[q] = IF q = worker[w] THEN g ELSE step[q]
      BY <3>1 DEF TypeOK
    <3> QED
      BY <2>3, <3>2, <3>3, StayInPlace DEF EnterLoop
  <2>4. ASSUME NEW g \in Stages, NEW reply, Sleep(w, g, reply) \/ Wake(w, g)
        PROVE  PoolInv'
    BY <2>4, StayInPlace DEF Sleep, Wake, flow
  <2>5. Check(w) \/ Answer(w) => PoolInv'
    BY <2>1, <2>2, <2>3 DEF Check, Refuse, Invalid, Answer, CacheHit, CacheMiss, At, Stages
  <2>6. Succeed(w) => PoolInv'
    BY <2>2, <2>3 DEF Succeed, Retrieve, SearchRaises, NotCovered, Generate, Calling, At,
          Stages
  <2>7. Fail(w) => PoolInv'
    BY <2>2, <2>4 DEF Fail, GiveUp, SleepRaises, Retryable, Failed, Calling, At
  <2> QED
    BY <1>3, <2>4, <2>5, <2>6, <2>7 DEF Serve
<1>4. CASE Tick
  BY <1>4, StayInPlace DEF Tick, flow
<1>5. CASE UNCHANGED vars
  BY <1>5, StayInPlace DEF vars, flow
<1> QED
  BY <1>1, <1>2, <1>3, <1>4, <1>5 DEF Next

\* Whatever fails, a request that is not answered waits once or has one thread,
\* and one that is answered has none, for any number of requests and threads.
THEOREM AlwaysOnePlace == Spec => []OnePlace
<1>1. Init => PoolInv
  BY ServingAssumption DEF Init, PoolInv, Queued, Served, ServingAssumption
<1>2. TypeOK /\ PoolInv /\ [Next]_vars => PoolInv'
  BY NextPoolInv
<1>3. ASSUME TypeOK, PoolInv
      PROVE  OnePlace
  <2> SUFFICES ASSUME NEW r \in Requests
               PROVE  Cardinality(Places(r)) = IF step[r] \in {"unsent", "done"} THEN 0 ELSE 1
    BY DEF OnePlace
  <2>1. DOMAIN queue = 1..Len(queue) /\ r # None
    BY <1>3, ServingAssumption DEF TypeOK, ServingAssumption
  <2>2. CASE step[r] \in {"unsent", "done"}
    <3>1. ~Queued(r) /\ ~Served(r)
      BY <1>3, <2>2 DEF PoolInv
    <3>2. Places(r) = {}
      BY <2>1, <3>1 DEF Places, Queued, Served
    <3> QED
      BY <2>2, <3>2, FS_EmptySet
  <2>3. CASE Queued(r)
    <3>1. PICK k \in 1..Len(queue) : queue[k] = r
      BY <2>3 DEF Queued
    <3>2. ~Served(r) /\ step[r] \notin {"unsent", "done"}
      BY <1>3, <2>1, <2>3 DEF PoolInv, Served
    <3>3. {j \in DOMAIN queue : queue[j] = r} = {k} /\ {w \in Workers : worker[w] = r} = {}
      BY <1>3, <2>1, <3>1, <3>2 DEF PoolInv, Served
    <3>4. Places(r) = {<<"queue", k>>}
      BY <3>3 DEF Places
    <3> QED
      BY <3>2, <3>4, FS_Singleton
  <2>4. CASE Served(r)
    <3>1. PICK w \in Workers : worker[w] = r
      BY <2>4 DEF Served
    <3>2. ~Queued(r) /\ step[r] \notin {"unsent", "done"}
      BY <1>3, <2>1, <2>4, <3>1 DEF PoolInv
    <3>3. {j \in DOMAIN queue : queue[j] = r} = {} /\ {v \in Workers : worker[v] = r} = {w}
      BY <1>3, <2>1, <3>1, <3>2 DEF PoolInv, Queued
    <3>4. Places(r) = {<<"pool", w>>}
      BY <3>3 DEF Places
    <3> QED
      BY <3>2, <3>4, FS_Singleton
  <2> QED
    BY <1>3, <2>2, <2>3, <2>4 DEF PoolInv
<1> QED
  BY <1>1, <1>2, <1>3, TypeOKHolds, PTL DEF Spec

-----------------------------------------------------------------------------
(* What AllAnswered rests on besides fairness: the work on a request runs out. *)

\* The steps a loop has left at most: each attempt is a call and a sleep, and
\* behind the last call there is no sleep.
LoopLeft(r, g) == 2 * (Retries[g] - attempt[r]) + (IF rest[r] = Awake THEN 1 ELSE 0)

\* The whole loop of stage g, which is entered awake and at attempt 0.
LoopAhead(g) == 2 * Retries[g] + 1

\* The steps of threads that a request needs at most until it is answered.
StepsLeft(r) ==
    CASE step[r] = "done"   -> 0
      [] step[r] = "chat"   -> LoopLeft(r, "chat")
      [] step[r] = "embed"  -> LoopLeft(r, "embed") + LoopAhead("chat")
      [] step[r] = "answer" -> LoopAhead("embed") + LoopAhead("chat") + 1
      [] step[r] = "check"  -> LoopAhead("embed") + LoopAhead("chat") + 2
      [] step[r] = "unsent" -> LoopAhead("embed") + LoopAhead("chat") + 2

\* A thread brings the request it serves nearer to its answer, and no other away
\* from it; nothing that anybody else does takes a request back.
Headway ==
    /\ \A r \in Requests : StepsLeft(r)' <= StepsLeft(r)
    /\ \A w \in Workers, r \in Requests :
          Serve(w) /\ r = worker[w] => StepsLeft(r)' < StepsLeft(r)

LEMMA StepsLeftBounded ==
    ASSUME Inv, NEW r \in Requests
    PROVE  /\ StepsLeft(r) \in 0..(LoopAhead("embed") + LoopAhead("chat") + 2)
           /\ step[r] # "done" => StepsLeft(r) > 0
<1> DEFINE e == Retries["embed"]
           c == Retries["chat"]
<1>1. e \in Nat /\ c \in Nat
  BY ServingAssumption DEF ServingAssumption, Stages
<1>2. /\ step[r] \in {"done", "chat", "embed", "answer", "check", "unsent"}
      /\ attempt[r] \in Nat
      /\ step[r] = "embed" => attempt[r] <= e
      /\ step[r] = "chat" => attempt[r] <= c
      /\ step[r] = "embed" /\ rest[r] # Awake => attempt[r] < e
      /\ step[r] = "chat" /\ rest[r] # Awake => attempt[r] < c
  BY RequestTyped DEF Inv, TypeOK, Slept, Steps, Stages
<1> HIDE DEF e, c
<1> QED
  BY <1>1, <1>2 DEF StepsLeft, LoopLeft, LoopAhead, e, c

LEMMA StepsLeftAfter == Inv' => (\A r \in Requests : StepsLeft(r) \in Nat)'
<1>1. Inv => \A r \in Requests : StepsLeft(r) \in Nat
  <2> SUFFICES ASSUME Inv, NEW r \in Requests
               PROVE  StepsLeft(r) \in Nat
    OBVIOUS
  <2>1. LoopAhead("embed") \in Nat /\ LoopAhead("chat") \in Nat
    BY ServingAssumption DEF ServingAssumption, Stages, LoopAhead
  <2> QED
    BY <2>1, StepsLeftBounded
<1> QED
  BY <1>1, PTL

LEMMA SameStepsLeft ==
    ASSUME NEW q \in Requests, step'[q] = step[q], attempt'[q] = attempt[q],
           rest'[q] = Awake <=> rest[q] = Awake
    PROVE  StepsLeft(q)' = StepsLeft(q)
BY DEF StepsLeft, LoopLeft, LoopAhead

LEMMA RespondHeadway ==
    ASSUME Inv, NEW w \in Workers, NEW r \in Requests, r = worker[w], step[r] # "done",
           NEW code, Respond(w, code)
    PROVE  /\ StepsLeft(r)' < StepsLeft(r)
           /\ \A q \in Requests \ {r} : StepsLeft(q)' = StepsLeft(q)
<1>1. StepsLeft(r) \in Nat /\ StepsLeft(r) > 0
  BY StepsLeftBounded
<1>2. step'[r] = "done"
  BY DEF Respond, Inv, TypeOK
<1>3. StepsLeft(r)' = 0
  BY <1>2 DEF StepsLeft
<1>4. \A q \in Requests \ {r} : step'[q] = step[q] /\ attempt'[q] = attempt[q] /\ rest'[q] = rest[q]
  BY DEF Respond, Inv, TypeOK
<1> QED
  BY <1>1, <1>3, <1>4, SameStepsLeft

LEMMA EnterHeadway ==
    ASSUME Inv, NEW w \in Workers, NEW r \in Requests, r = worker[w],
           CacheMiss(w) \/ Retrieve(w)
    PROVE  /\ StepsLeft(r)' < StepsLeft(r)
           /\ \A q \in Requests \ {r} : StepsLeft(q)' = StepsLeft(q)
<1>1. /\ Retries["embed"] \in Nat /\ Retries["chat"] \in Nat /\ attempt[r] \in Nat
      /\ step[r] = "embed" => attempt[r] <= Retries["embed"]
  BY RequestTyped, ServingAssumption DEF Inv, ServingAssumption, Stages
<1>2. \A q \in Requests \ {r} : step'[q] = step[q] /\ attempt'[q] = attempt[q] /\ rest'[q] = rest[q]
  BY DEF CacheMiss, Retrieve, EnterLoop, Inv, TypeOK
<1>3. attempt'[r] = 0 /\ rest'[r] = rest[r]
  BY DEF CacheMiss, Retrieve, EnterLoop, Inv, TypeOK
<1>4. CASE CacheMiss(w)
  <2>1. step[r] = "answer" /\ step'[r] = "embed"
    BY <1>4 DEF CacheMiss, EnterLoop, At, Inv, TypeOK
  <2>2. rest[r] = Awake
    BY <2>1 DEF Inv, Slept, Stages
  <2>3. StepsLeft(r) = LoopAhead("embed") + LoopAhead("chat") + 1
    BY <2>1 DEF StepsLeft
  <2>4. StepsLeft(r)' = 2 * (Retries["embed"] - 0) + 1 + LoopAhead("chat")
    BY <1>3, <2>1, <2>2 DEF StepsLeft, LoopLeft, LoopAhead
  <2> QED
    BY <1>1, <1>2, <2>3, <2>4, SameStepsLeft DEF LoopAhead
<1>5. CASE Retrieve(w)
  <2>1. step[r] = "embed" /\ step'[r] = "chat" /\ rest[r] = Awake
    BY <1>5 DEF Retrieve, EnterLoop, Calling, At, Inv, TypeOK
  <2>2. StepsLeft(r) = 2 * (Retries["embed"] - attempt[r]) + 1 + LoopAhead("chat")
    BY <2>1 DEF StepsLeft, LoopLeft
  <2>3. StepsLeft(r)' = 2 * (Retries["chat"] - 0) + 1
    BY <1>3, <2>1 DEF StepsLeft, LoopLeft
  <2> QED
    BY <1>1, <1>2, <2>1, <2>2, <2>3, SameStepsLeft DEF LoopAhead
<1> QED
  BY <1>4, <1>5

LEMMA RetryHeadway ==
    ASSUME Inv, NEW w \in Workers, NEW r \in Requests, r = worker[w], NEW g \in Stages,
           (\E reply \in AnyReply : Sleep(w, g, reply)) \/ Wake(w, g)
    PROVE  /\ StepsLeft(r)' < StepsLeft(r)
           /\ \A q \in Requests \ {r} : StepsLeft(q)' = StepsLeft(q)
<1>1. Retries[g] \in Nat /\ Retries["chat"] \in Nat /\ attempt[r] \in Nat
  BY RequestTyped, ServingAssumption DEF Inv, ServingAssumption, Stages
<1>2. step[r] = g /\ step'[r] = g /\ g \in {"embed", "chat"}
  BY DEF Sleep, Wake, Retryable, Failed, Calling, At, flow, Stages
<1>3. \A q \in Requests \ {r} : step'[q] = step[q] /\ attempt'[q] = attempt[q] /\ rest'[q] = rest[q]
  BY DEF Sleep, Wake, flow, Inv, TypeOK
<1>4. LoopLeft(r, g)' < LoopLeft(r, g) /\ LoopLeft(r, g) \in Int /\ LoopLeft(r, g)' \in Int
  <2>1. ASSUME NEW reply \in AnyReply, Sleep(w, g, reply)
        PROVE  LoopLeft(r, g)' < LoopLeft(r, g) /\ LoopLeft(r, g) \in Int /\ LoopLeft(r, g)' \in Int
    <3>1. attempt[r] \in 0..Retries[g]
      BY <1>1, <1>2, RequestTyped DEF Inv
    <3>2. Delay(g, attempt[r], reply) \in Nat
      BY <2>1, <3>1, DelayProperties DEF Sleep
    <3>3. rest[r] = Awake /\ attempt'[r] = attempt[r] /\ rest'[r] = Delay(g, attempt[r], reply)
      BY <2>1 DEF Sleep, Retryable, Failed, Calling, Inv, TypeOK
    <3>4. rest'[r] # Awake
      BY <3>2, <3>3 DEF Awake
    <3> QED
      BY <1>1, <3>3, <3>4 DEF LoopLeft
  <2>2. CASE Wake(w, g)
    <3>1. rest[r] = 0 /\ rest'[r] = Awake /\ attempt'[r] = attempt[r] + 1
      BY <2>2 DEF Wake, Inv, TypeOK
    <3>2. rest[r] # Awake
      BY <3>1 DEF Awake
    <3> QED
      BY <1>1, <3>1, <3>2 DEF LoopLeft
  <2> QED
    BY <2>1, <2>2
<1>5. StepsLeft(r)' < StepsLeft(r)
  <2>1. CASE g = "chat"
    BY <1>2, <1>4, <2>1 DEF StepsLeft
  <2>2. CASE g = "embed"
    BY <1>1, <1>2, <1>4, <2>2 DEF StepsLeft, LoopAhead
  <2> QED
    BY <1>2, <2>1, <2>2
<1> QED
  BY <1>3, <1>5, SameStepsLeft

LEMMA ServeHeadway ==
    ASSUME Inv, NEW w \in Workers, NEW r \in Requests, r = worker[w], Serve(w)
    PROVE  /\ StepsLeft(r)' < StepsLeft(r)
           /\ \A q \in Requests \ {r} : StepsLeft(q)' = StepsLeft(q)
<1>1. CASE Admit(w)
  <2>1. step[r] = "check" /\ step'[r] = "answer"
    BY <1>1 DEF Admit, At, Inv, TypeOK
  <2>2. \A q \in Requests \ {r} :
           step'[q] = step[q] /\ attempt'[q] = attempt[q] /\ rest'[q] = rest[q]
    BY <1>1 DEF Admit, loop, Inv, TypeOK
  <2>3. Retries["embed"] \in Nat /\ Retries["chat"] \in Nat
    BY ServingAssumption DEF ServingAssumption, Stages
  <2>4. StepsLeft(r)' < StepsLeft(r)
    BY <2>1, <2>3 DEF StepsLeft, LoopAhead
  <2> QED
    BY <2>2, <2>4, SameStepsLeft
<1>2. CASE \/ Refuse(w) \/ Invalid(w) \/ CacheHit(w)
           \/ SearchRaises(w) \/ NotCovered(w) \/ Generate(w)
  BY <1>2, RespondHeadway DEF Refuse, Invalid, CacheHit, SearchRaises, NotCovered, Generate,
     Calling, At
<1>3. CASE CacheMiss(w) \/ Retrieve(w)
  BY <1>3, EnterHeadway
<1>4. ASSUME NEW g \in Stages, NEW kind, GiveUp(w, g, kind)
      PROVE  /\ StepsLeft(r)' < StepsLeft(r)
             /\ \A q \in Requests \ {r} : StepsLeft(q)' = StepsLeft(q)
  BY <1>4, RespondHeadway DEF GiveUp, Failed, Calling, At, Stages
<1>5. ASSUME NEW g \in Stages, NEW reply, SleepRaises(w, g, reply)
      PROVE  /\ StepsLeft(r)' < StepsLeft(r)
             /\ \A q \in Requests \ {r} : StepsLeft(q)' = StepsLeft(q)
  BY <1>5, RespondHeadway DEF SleepRaises, Retryable, Failed, Calling, At, Stages
<1>6. ASSUME NEW g \in Stages, (\E reply \in AnyReply : Sleep(w, g, reply)) \/ Wake(w, g)
      PROVE  /\ StepsLeft(r)' < StepsLeft(r)
             /\ \A q \in Requests \ {r} : StepsLeft(q)' = StepsLeft(q)
  BY <1>6, RetryHeadway
<1> QED
  BY <1>1, <1>2, <1>3, <1>4, <1>5, <1>6 DEF Serve, Check, Answer, Succeed, Fail, AnyReply

\* Whatever the providers answer and however threads and requests interleave,
\* the work on a request runs out: each step of the thread that serves it leaves
\* fewer to go, of which there are at most 2 * (both retries) + 4 to begin with.
THEOREM AlwaysHeadway == Spec => [][Headway]_vars
<1>1. ASSUME Inv, [Next]_vars, NEW r \in Requests
      PROVE  StepsLeft(r)' <= StepsLeft(r)
  <2>1. StepsLeft(r) \in Nat
    BY <1>1, StepsLeftBounded
  <2>2. ASSUME NEW q \in Requests, Unreadable(q) \/ Arrive(q)
        PROVE  StepsLeft(r)' <= StepsLeft(r)
    <3>1. CASE q = r /\ Unreadable(q)
      <4>1. step'[r] = "done"
        BY <1>1, <3>1 DEF Unreadable, Inv, TypeOK
      <4>2. StepsLeft(r)' = 0
        BY <4>1 DEF StepsLeft
      <4> QED
        BY <2>1, <4>2
    <3>2. CASE q = r /\ Arrive(q)
      <4>1. step[r] = "unsent" /\ step'[r] = "check"
        BY <1>1, <3>2 DEF Arrive, Inv, TypeOK
      <4>2. StepsLeft(r)' = StepsLeft(r)
        BY <4>1 DEF StepsLeft, LoopAhead
      <4> QED
        BY <2>1, <4>2
    <3>3. CASE q # r
      <4>1. step'[r] = step[r] /\ attempt'[r] = attempt[r] /\ rest'[r] = rest[r]
        BY <1>1, <2>2, <3>3 DEF Unreadable, Arrive, loop, Inv, TypeOK
      <4> QED
        BY <2>1, <4>1, SameStepsLeft
    <3> QED
      BY <2>2, <3>1, <3>2, <3>3
  <2>3. ASSUME NEW w \in Workers, Take(w)
        PROVE  StepsLeft(r)' = StepsLeft(r)
    BY <2>3, SameStepsLeft DEF Take, loop
  <2>4. ASSUME NEW w \in Workers, Serve(w)
        PROVE  StepsLeft(r)' <= StepsLeft(r)
    <3>1. worker[w] \in Requests
      BY <1>1, <2>4 DEF Serve, Check, Refuse, Invalid, Admit, Answer, CacheHit, CacheMiss,
            Succeed, Retrieve, SearchRaises, NotCovered, Generate, Fail, GiveUp, Sleep,
            SleepRaises, Retryable, Wake, Failed, Calling, At, Inv, TypeOK
    <3>2. StepsLeft(r)' < StepsLeft(r) \/ StepsLeft(r)' = StepsLeft(r)
      BY <1>1, <2>4, <3>1, ServeHeadway
    <3>3. StepsLeft(r)' \in Nat
      BY <1>1, NextInv, StepsLeftAfter
    <3> QED
      BY <2>1, <3>2, <3>3
  <2>5. CASE Tick
    <3>1. step' = step /\ attempt' = attempt
      BY <2>5 DEF Tick, flow
    <3>2. rest'[r] = Awake <=> rest[r] = Awake
      BY <1>1, <2>5, RequestTyped DEF Tick, Awake, Inv
    <3> QED
      BY <2>1, <3>1, <3>2, SameStepsLeft
  <2>6. CASE UNCHANGED vars
    BY <2>1, <2>6, SameStepsLeft DEF vars, flow, loop
  <2> QED
    BY <1>1, <2>1, <2>2, <2>3, <2>4, <2>5, <2>6 DEF Next
<1>2. ASSUME Inv, [Next]_vars, NEW w \in Workers, NEW r \in Requests, Serve(w), r = worker[w]
      PROVE  StepsLeft(r)' < StepsLeft(r)
  BY <1>2, ServeHeadway
<1>3. Inv /\ [Next]_vars => Headway
  BY <1>1, <1>2 DEF Headway
<1> QED
  BY <1>3, InvHolds, PTL DEF Spec

=============================================================================
