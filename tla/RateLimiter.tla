---------------------------- MODULE RateLimiter ----------------------------
(***************************************************************************)
(* The sliding-window limiter in front of POST /ask (app/ratelimit.py).    *)
(*                                                                         *)
(* `enforce_rate_limit` is a synchronous dependency, so the server runs it *)
(* in a worker thread, and several threads are inside RateLimiter.check at *)
(* once.  The method reads the clock BEFORE it takes the lock, so a call   *)
(* is two steps here: Stamp (read the clock) and Decide (everything done   *)
(* under the lock).  Other threads may stamp and decide in between.        *)
(*                                                                         *)
(* Time is counted in ticks.  The limiter is enabled (MaxRequests > 0);    *)
(* with 0 the method returns before it touches any state.                  *)
(***************************************************************************)
EXTENDS OrderedDict

CONSTANTS
    Clients,        \* the keys client_key can return
    Threads,        \* worker threads that may be inside check()
    MaxRequests,    \* max_requests: admissions per client and window
    Window,         \* window_seconds, in ticks
    MaxClients,     \* max_clients: how many clients are tracked
    MaxClock        \* bound of the model: the last tick

ASSUME RateLimiterAssumption ==
    /\ MaxRequests \in Nat \ {0}
    /\ Window \in Nat
    /\ MaxClients \in Nat \ {0}
    /\ MaxClock \in Nat

VARIABLES
    clock,      \* time.monotonic()
    seen,       \* keys of the OrderedDict _seen, least recently seen first
    hits,       \* the deque of each client, <<>> for one not in _seen
    call,       \* per thread: the check() in progress, or Idle
    returned,   \* per thread: the Decision its last check() returned
    log,        \* history: stamps admitted since the client was last forgotten
    promise,    \* history: when the last refusal told the client to come back
    others      \* history: the other clients decided since the client's last one

state == <<seen, hits>>
history == <<log, promise, others>>
vars == <<clock, seen, hits, call, returned, log, promise, others>>

Idle == [client |-> "none", now |-> -1]
NoDecision == [allowed |-> FALSE, remaining |-> -1, retryAfter |-> -1]
NoPromise == -1

Init ==
    /\ clock = 0
    /\ seen = <<>>
    /\ hits = [c \in Clients |-> <<>>]
    /\ call = [t \in Threads |-> Idle]
    /\ returned = [t \in Threads |-> NoDecision]
    /\ log = [c \in Clients |-> <<>>]
    /\ promise = [c \in Clients |-> NoPromise]
    /\ others = [c \in Clients |-> {}]

-----------------------------------------------------------------------------
(* Helpers of check(). *)

\* Mutated: a hit exactly one window old is still counted.
PruneLenStrict(q, cutoff) ==
    CHOOSE k \in 0..Len(q) :
        /\ \A i \in 1..k : q[i] < cutoff
        /\ k < Len(q) => q[k + 1] >= cutoff

\* Mutated: once the head has expired, the whole deque is cleared.
PruneLenAll(q, cutoff) ==
    IF q # <<>> /\ q[1] <= cutoff THEN Len(q) ELSE 0

\* `while hits and hits[0] <= cutoff: hits.popleft()`: stop at the first hit
\* that is still inside the window, whatever lies behind it.
PruneLen(q, cutoff) ==
    CHOOSE k \in 0..Len(q) :
        /\ \A i \in 1..k : q[i] <= cutoff
        /\ k < Len(q) => q[k + 1] > cutoff

Prune(q, cutoff) == SubSeq(q, PruneLen(q, cutoff) + 1, Len(q))

\* The stamps of c that lie in the window that ends at `now`.
LiveAt(q, now) == {i \in DOMAIN q : now - Window < q[i] /\ q[i] <= now}

-----------------------------------------------------------------------------
(* Actions. *)

Tick ==
    /\ clock < MaxClock
    /\ clock' = clock + 1
    /\ UNCHANGED <<state, call, returned, history>>

\* The clock is read, and the cutoff fixed, before the lock is taken.
Stamp(t, c) ==
    /\ call[t] = Idle
    /\ call' = [call EXCEPT ![t] = [client |-> c, now |-> clock]]
    /\ returned' = [returned EXCEPT ![t] = NoDecision]
    /\ UNCHANGED <<clock, state, history>>

\* Mutated: a refused request is recorded too.
RefuseRecording(t, c, now, live) ==
    /\ Len(live) >= MaxRequests
    /\ LET retry == live[1] + Window - now
       IN /\ returned' = [returned EXCEPT ![t] =
                 [allowed |-> FALSE, remaining |-> 0, retryAfter |-> retry]]
          /\ promise' = [promise EXCEPT ![c] = now + retry]
    /\ seen' = Touch(seen, c)
    /\ hits' = [hits EXCEPT ![c] = Append(live, now)]
    /\ UNCHANGED log

\* Under the lock: the window is full, the request is not recorded.
Refuse(t, c, now, live) ==
    /\ Len(live) >= MaxRequests
    /\ LET wait == live[1] + Window - now
           retry == IF wait > 0 THEN wait ELSE 0
       IN /\ returned' = [returned EXCEPT ![t] =
                 [allowed |-> FALSE, remaining |-> 0, retryAfter |-> retry]]
          /\ promise' = [promise EXCEPT ![c] = now + retry]
    /\ seen' = Touch(seen, c)
    /\ hits' = [hits EXCEPT ![c] = live]
    /\ UNCHANGED log

\* Mutated: one request more than the limit is let through.
AdmitOneMore(t, c, now, live) ==
    /\ Len(live) <= MaxRequests
    /\ seen' = Newest(Touch(seen, c), MaxClients)
    /\ hits' = [hits EXCEPT ![c] = Append(live, now)]
    /\ log' = [log EXCEPT ![c] = Append(log[c], now)]
    /\ promise' = [promise EXCEPT ![c] = NoPromise]
    /\ returned' = [returned EXCEPT ![t] =
           [allowed |-> TRUE, remaining |-> MaxRequests - Len(live) - 1,
            retryAfter |-> 0]]

\* Mutated: clients are never forgotten.
AdmitUnbounded(t, c, now, live) ==
    /\ Len(live) < MaxRequests
    /\ seen' = Touch(seen, c)
    /\ hits' = [hits EXCEPT ![c] = Append(live, now)]
    /\ log' = [log EXCEPT ![c] = Append(log[c], now)]
    /\ promise' = [promise EXCEPT ![c] = NoPromise]
    /\ returned' = [returned EXCEPT ![t] =
           [allowed |-> TRUE, remaining |-> MaxRequests - Len(live) - 1,
            retryAfter |-> 0]]

\* Under the lock: the request is recorded, and the least recently seen
\* clients are forgotten if too many are tracked.
Admit(t, c, now, live) ==
    /\ Len(live) < MaxRequests
    /\ LET kept == Newest(Touch(seen, c), MaxClients)
           charged == Append(live, now)
           Forgotten(d) == d \notin Keys(kept)
       IN /\ seen' = kept
          /\ hits' = [d \in Clients |->
                 IF Forgotten(d) THEN <<>>
                 ELSE IF d = c THEN charged ELSE hits[d]]
          /\ log' = [d \in Clients |->
                 IF Forgotten(d) THEN <<>>
                 ELSE IF d = c THEN Append(log[d], now) ELSE log[d]]
          /\ promise' = [d \in Clients |->
                 IF Forgotten(d) \/ d = c THEN NoPromise ELSE promise[d]]
          /\ returned' = [returned EXCEPT ![t] =
                 [allowed |-> TRUE, remaining |-> MaxRequests - Len(charged),
                  retryAfter |-> 0]]

Decide(t) ==
    /\ call[t] # Idle
    /\ LET c == call[t].client
           now == call[t].now
           live == Prune(hits[c], now - Window)
       IN /\ Refuse(t, c, now, live) \/ Admit(t, c, now, live)
          /\ others' = [d \in Clients |->
                 IF d = c THEN {} ELSE others[d] \cup {c}]
    /\ call' = [call EXCEPT ![t] = Idle]
    /\ UNCHANGED clock

\* Forget every client.
Reset ==
    /\ seen # <<>>
    /\ seen' = <<>>
    /\ hits' = [c \in Clients |-> <<>>]
    /\ log' = [c \in Clients |-> <<>>]
    /\ promise' = [c \in Clients |-> NoPromise]
    /\ others' = [c \in Clients |-> {}]
    /\ UNCHANGED <<clock, call, returned>>

Next ==
    \/ Tick
    \/ \E t \in Threads, c \in Clients : Stamp(t, c)
    \/ \E t \in Threads : Decide(t)
    \/ Reset

Spec == Init /\ [][Next]_vars

-----------------------------------------------------------------------------
(* Properties. *)

Instants == 0..MaxClock

Calls == [client : Clients, now : Instants]

Decisions ==
    [allowed : {TRUE}, remaining : 0..(MaxRequests - 1), retryAfter : {0}]
        \cup [allowed : {FALSE}, remaining : {0}, retryAfter : Nat]

\* Type invariant of the limiter and of its history variables.
TypeOK ==
    /\ clock \in Instants
    /\ seen \in Seq(Clients) /\ Distinct(seen)
    /\ hits \in [Clients -> Seq(Instants)]
    /\ call \in [Threads -> Calls \cup {Idle}]
    /\ returned \in [Threads -> Decisions \cup {NoDecision}]
    /\ log \in [Clients -> Seq(Instants)]
    /\ promise \in [Clients -> Nat \cup {NoPromise}]
    /\ others \in [Clients -> SUBSET Clients]

\* At every instant a client that was not forgotten has at most MaxRequests
\* admissions stamped inside the window that ends now, however the threads
\* that charged it overtook each other between the clock and the lock.
LiveWindowBound ==
    \A c \in Clients :
        Cardinality({i \in DOMAIN log[c] : log[c][i] > clock - Window})
            <= MaxRequests

\* Memory is bounded: at most MaxClients clients are held, each with one to
\* MaxRequests stamps; no client is held with an empty deque and none that was
\* forgotten keeps its stamps.
BoundedMemory ==
    /\ Len(seen) <= MaxClients
    /\ \A c \in Clients :
          IF c \in Keys(seen) THEN Len(hits[c]) \in 1..MaxRequests
                              ELSE hits[c] = <<>>

\* Thread t returns from check() in this step.
Returns(t) == call[t] # Idle /\ call'[t] = Idle

\* A client loses its history only when MaxClients other clients have been
\* decided since it was last seen itself: the flood forgets the least recently
\* seen, never one that is still active.  (Reset forgets everybody.)
ForgetsLeastRecent ==
    [][\A c \in Clients :
          (c \in Keys(seen) /\ c \notin Keys(seen') /\ \E t \in Threads : Returns(t))
             => Cardinality(others'[c]) >= MaxClients]_vars

\* A client that waits as long as its last refusal said is not refused again:
\* retry_after is enough, and asking meanwhile does not push it out.
RetryAfterHonoured ==
    [][\A t \in Threads :
          (Returns(t) /\ ~returned'[t].allowed)
             => LET c == call[t].client
                IN promise[c] # NoPromise => call[t].now < promise[c]]_vars

\* The stamps of q were recorded in the order they were read, and none is later
\* than `now`: nobody who was overtaken between the clock and the lock is there.
Orderly(q, now) ==
    /\ \A i \in DOMAIN q : q[i] <= now
    /\ \A i, j \in DOMAIN q : i <= j => q[i] <= q[j]

\* As long as no thread overtakes another one on the way to a client's deque, the
\* decision is the one a sliding window over the true history would take: refused
\* exactly when MaxRequests admissions lie in the window that ends at the
\* request's own stamp ("refuses correctly at the boundary").  Overtaking among
\* the threads of other clients does not matter.
ExactDecision ==
    [][\A t \in Threads :
          LET c == call[t].client
              now == call[t].now
          IN (Returns(t) /\ Orderly(log[c], now))
                => (returned'[t].allowed
                        <=> Cardinality(LiveAt(log[c], now)) < MaxRequests)]_vars

\* No window, wherever it ends, holds more than MaxRequests admissions
\* ("requests allowed per client per window").  Threads that overtake each other
\* may break this.
ExactWindow ==
    \A c \in Clients : \A i \in DOMAIN log[c] :
        Cardinality(LiveAt(log[c], log[c][i])) <= MaxRequests

=============================================================================
