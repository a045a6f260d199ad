------------------------- MODULE RateLimiter_proofs -------------------------
(***************************************************************************)
(* What RateLimiter promises for every number of clients and threads, every*)
(* limit and every window.  The inductive invariant adds to the type and   *)
(* memory bounds what the deque IS: the newest part of the true history,   *)
(* with everything before it already outside the window; and what a        *)
(* refusal promised: the moment the head of the full deque expires.        *)
(***************************************************************************)
EXTENDS RateLimiter, OrderedDict_proofs, FiniteSetTheorems

\* No stamp lies in the future.
StampsInPast ==
    /\ \A t \in Threads : call[t] # Idle => call[t].now <= clock
    /\ \A c \in Clients : \A i \in 1..Len(log[c]) : log[c][i] <= clock

\* The deque is a suffix of the history and what was dropped has expired.
IsRecentPart(q, h, cutoff) ==
    LET d == Len(h) - Len(q)
    IN /\ d >= 0
       /\ \A i \in 1..Len(q) : q[i] = h[d + i]
       /\ \A i \in 1..d : h[i] <= cutoff

HitsAreRecent ==
    \A c \in Clients : IsRecentPart(hits[c], log[c], clock - Window)

\* A standing promise is the expiry of the head of a full deque.
PromisesExpiry ==
    \A c \in Clients :
        promise[c] # NoPromise =>
            /\ Len(hits[c]) = MaxRequests
            /\ promise[c] = hits[c][1] + Window

Inv ==
    /\ TypeOK
    /\ StampsInPast
    /\ HitsAreRecent
    /\ BoundedMemory
    /\ PromisesExpiry

-----------------------------------------------------------------------------
(* Dropping expired hits. *)

\* A stamp in a log is an integer.
LEMMA StampIsInt ==
    ASSUME NEW q \in Seq(Instants), NEW i \in 1..Len(q)
    PROVE  q[i] \in Instants /\ q[i] \in Int
<1>1. q[i] \in Instants
  BY ElementOfSeq
<1> QED
  BY <1>1, RateLimiterAssumption DEF Instants

\* Prune drops a prefix that has expired and stops at a head that has not.
LEMMA PruneProperties ==
    ASSUME NEW q \in Seq(Instants), NEW cutoff \in Int
    PROVE  \E k \in 0..Len(q) :
              /\ Prune(q, cutoff) \in Seq(Instants)
              /\ Len(Prune(q, cutoff)) = Len(q) - k
              /\ \A i \in 1..(Len(q) - k) : Prune(q, cutoff)[i] = q[k + i]
              /\ \A i \in 1..k : q[i] <= cutoff
              /\ k < Len(q) => q[k + 1] > cutoff
<1>0. \A i \in 1..Len(q) : q[i] \in Instants /\ q[i] \in Int
  BY StampIsInt
<1> DEFINE T == {j \in 0..Len(q) : j < Len(q) => q[j + 1] > cutoff}
<1>1. PICK m \in T : \A j \in T : m <= j
  <2>1. T \subseteq Nat /\ Len(q) \in T
    OBVIOUS
  <2> HIDE DEF T
  <2> QED
    BY <2>1, LeastNatural
<1>2. m \in 0..Len(q) /\ (m < Len(q) => q[m + 1] > cutoff)
  OBVIOUS
<1>3. ASSUME NEW i \in 1..m
      PROVE  q[i] <= cutoff
  <2>1. i - 1 \in 0..Len(q) /\ i - 1 < m /\ i - 1 < Len(q)
    BY <1>2
  <2>2. i - 1 \notin T
    <3> HIDE DEF T
    <3> QED
      BY <1>1, <1>2, <2>1
  <2>3. q[i] \in Int /\ (i - 1) + 1 = i
    <3>1. i \in 1..Len(q)
      BY <1>2
    <3> QED
      BY <1>0, <3>1
  <2>4. ~ (q[i] > cutoff)
    BY <2>1, <2>2, <2>3
  <2> QED
    BY <2>3, <2>4
<1> HIDE DEF T
<1> DEFINE k == PruneLen(q, cutoff)
<1>4. /\ k \in 0..Len(q)
      /\ \A i \in 1..k : q[i] <= cutoff
      /\ k < Len(q) => q[k + 1] > cutoff
  BY <1>2, <1>3 DEF PruneLen
<1> HIDE DEF k
<1>5. Prune(q, cutoff) = SubSeq(q, k + 1, Len(q))
  BY DEF Prune, k
<1>6. /\ SubSeq(q, k + 1, Len(q)) \in Seq(Instants)
      /\ Len(SubSeq(q, k + 1, Len(q))) = Len(q) - k
      /\ \A i \in 1..(Len(q) - k) : SubSeq(q, k + 1, Len(q))[i] = q[k + i]
  <2>1. k \in Int /\ Len(q) \in Int /\ k + 1 \in Int
    BY <1>4
  <2>2. \A i \in (k + 1)..Len(q) : q[i] \in Instants
    BY <1>0, <1>4
  <2>3. /\ SubSeq(q, k + 1, Len(q)) \in Seq(Instants)
        /\ Len(SubSeq(q, k + 1, Len(q))) =
              IF k + 1 <= Len(q) THEN Len(q) - (k + 1) + 1 ELSE 0
        /\ \A i \in 1..(Len(q) - (k + 1) + 1) :
              SubSeq(q, k + 1, Len(q))[i] = q[(k + 1) + i - 1]
    BY <2>1, <2>2, SubSeqProperties
  <2> QED
    BY <1>4, <2>3
<1> QED
  BY <1>4, <1>5, <1>6

\* Appending the same stamp to the deque and to the history keeps the relation.
LEMMA AppendRecent ==
    ASSUME NEW q \in Seq(Instants), NEW h \in Seq(Instants), NEW cutoff \in Int,
           NEW x \in Instants, IsRecentPart(q, h, cutoff)
    PROVE  IsRecentPart(Append(q, x), Append(h, x), cutoff)
<1>1. /\ Len(Append(q, x)) = Len(q) + 1
      /\ \A i \in 1..Len(q) : Append(q, x)[i] = q[i]
      /\ Append(q, x)[Len(q) + 1] = x
  BY AppendProperties
<1>2. /\ Len(Append(h, x)) = Len(h) + 1
      /\ \A i \in 1..Len(h) : Append(h, x)[i] = h[i]
      /\ Append(h, x)[Len(h) + 1] = x
  BY AppendProperties
<1> DEFINE d == Len(h) - Len(q)
           q1 == Append(q, x)
           h1 == Append(h, x)
<1>3. Len(q) \in Nat /\ Len(h) \in Nat
  BY LenProperties
<1>4. /\ d >= 0
      /\ \A i \in 1..Len(q) : q[i] = h[d + i]
      /\ \A i \in 1..d : h[i] <= cutoff
  BY DEF IsRecentPart
<1>5. Len(h1) - Len(q1) = d
  BY <1>1, <1>2, <1>3
<1> HIDE DEF q1, h1
<1>6. \A i \in 1..Len(q1) : q1[i] = h1[d + i]
  <2> SUFFICES ASSUME NEW i \in 1..Len(q1)
               PROVE  q1[i] = h1[d + i]
    OBVIOUS
  <2>1. CASE i = Len(q) + 1
    BY <1>1, <1>2, <1>3, <2>1 DEF q1, h1
  <2>2. CASE i # Len(q) + 1
    <3>1. i \in 1..Len(q) /\ d + i \in 1..Len(h)
      BY <1>1, <1>3, <1>4, <2>2 DEF q1
    <3> QED
      BY <1>1, <1>2, <1>4, <3>1 DEF q1, h1
  <2> QED
    BY <2>1, <2>2
<1>7. \A i \in 1..d : h1[i] <= cutoff
  <2> SUFFICES ASSUME NEW i \in 1..d
               PROVE  h1[i] <= cutoff
    OBVIOUS
  <2>1. i \in 1..Len(h)
    BY <1>3
  <2> QED
    BY <1>2, <1>4, <2>1 DEF h1
<1> QED
  BY <1>4, <1>5, <1>6, <1>7 DEF IsRecentPart, q1, h1

\* Dropping a prefix that has expired keeps the relation, for a later cutoff.
LEMMA DropRecent ==
    ASSUME NEW q \in Seq(Instants), NEW h \in Seq(Instants),
           NEW p \in Seq(Instants), NEW k \in 0..Len(q),
           NEW cutoff \in Int, IsRecentPart(q, h, cutoff),
           Len(p) = Len(q) - k,
           \A i \in 1..(Len(q) - k) : p[i] = q[k + i],
           \A i \in 1..k : q[i] <= cutoff
    PROVE  IsRecentPart(p, h, cutoff)
<1> DEFINE d == Len(h) - Len(q)
<1>1. /\ d >= 0
      /\ \A i \in 1..Len(q) : q[i] = h[d + i]
      /\ \A i \in 1..d : h[i] <= cutoff
  BY DEF IsRecentPart
<1>2. Len(q) \in Nat /\ Len(h) \in Nat /\ Len(p) \in Nat
  BY LenProperties
<1>3. Len(h) - Len(p) = d + k /\ d + k >= 0
  BY <1>1, <1>2
<1>4. \A i \in 1..Len(p) : p[i] = h[(d + k) + i]
  <2> SUFFICES ASSUME NEW i \in 1..Len(p)
               PROVE  p[i] = h[(d + k) + i]
    OBVIOUS
  <2>1. k + i \in 1..Len(q) /\ d + (k + i) = (d + k) + i
    BY <1>2
  <2> QED
    BY <1>1, <1>2, <2>1
<1>5. \A i \in 1..(d + k) : h[i] <= cutoff
  <2> SUFFICES ASSUME NEW i \in 1..(d + k), i > d
               PROVE  h[i] <= cutoff
    BY <1>1, <1>2
  <2>1. i - d \in 1..k /\ i - d \in 1..Len(q) /\ d + (i - d) = i
    BY <1>1, <1>2
  <2> QED
    BY <1>1, <2>1
<1> QED
  BY <1>3, <1>4, <1>5 DEF IsRecentPart

-----------------------------------------------------------------------------
(* The invariant holds initially and every action preserves it. *)

LEMMA InitInv == Init => Inv
<1> SUFFICES ASSUME Init PROVE Inv
  OBVIOUS
<1> USE RateLimiterAssumption DEF Init
<1>1. TypeOK
  BY DEF TypeOK, Instants, Distinct, IsInjective
<1>2. StampsInPast
  BY DEF StampsInPast
<1>3. HitsAreRecent
  BY DEF HitsAreRecent, IsRecentPart
<1>4. BoundedMemory
  BY DEF BoundedMemory, Keys, ToSet
<1>5. PromisesExpiry
  BY DEF PromisesExpiry
<1> QED
  BY <1>1, <1>2, <1>3, <1>4, <1>5 DEF Inv

\* Time passing only makes more of the history expire.
LEMMA TickInv ==
    ASSUME Inv, Tick
    PROVE  Inv'
<1>1. clock \in Int /\ clock' = clock + 1 /\ clock' \in Instants
  BY RateLimiterAssumption DEF Inv, TypeOK, Tick, Instants
<1>2. UNCHANGED <<seen, hits, call, returned, log, promise, others>>
  BY DEF Tick, state, history
<1>3. TypeOK'
  BY <1>1, <1>2 DEF Inv, TypeOK
<1>4. StampsInPast'
  <2>1. \A t \in Threads : call[t] # Idle => call[t].now \in Int
    BY RateLimiterAssumption DEF Inv, TypeOK, Calls, Idle, Instants
  <2>2. \A c \in Clients : log[c] \in Seq(Instants)
    BY DEF Inv, TypeOK
  <2>3. \A c \in Clients : \A i \in 1..Len(log[c]) : log[c][i] \in Int
    BY <2>2, StampIsInt
  <2> QED
    BY <1>1, <1>2, <2>1, <2>3 DEF Inv, StampsInPast
<1>5. HitsAreRecent'
  <2> SUFFICES ASSUME NEW c \in Clients
               PROVE  IsRecentPart(hits[c], log[c], clock' - Window)
    BY <1>2 DEF HitsAreRecent
  <2>1. IsRecentPart(hits[c], log[c], clock - Window)
    BY DEF Inv, HitsAreRecent
  <2>2. /\ log[c] \in Seq(Instants)
        /\ Len(log[c]) \in Nat
        /\ Len(hits[c]) \in Nat
    BY LenProperties DEF Inv, TypeOK
  <2>3. \A i \in 1..(Len(log[c]) - Len(hits[c])) :
            log[c][i] <= clock' - Window
    <3> SUFFICES ASSUME NEW i \in 1..(Len(log[c]) - Len(hits[c]))
                 PROVE  log[c][i] <= clock' - Window
      OBVIOUS
    <3>1. log[c][i] <= clock - Window
      BY <2>1 DEF IsRecentPart
    <3>2. i \in 1..Len(log[c])
      BY <2>2
    <3>3. log[c][i] \in Int
      BY <2>2, <3>2, StampIsInt
    <3> QED
      BY <1>1, <3>1, <3>3, RateLimiterAssumption
  <2> QED
    BY <2>1, <2>3 DEF IsRecentPart
<1>6. BoundedMemory'
  BY <1>2 DEF Inv, BoundedMemory
<1>7. PromisesExpiry'
  BY <1>2 DEF Inv, PromisesExpiry
<1> QED
  BY <1>3, <1>4, <1>5, <1>6, <1>7 DEF Inv

\* Reading the clock touches nothing but the thread's own call.
LEMMA StampInv ==
    ASSUME Inv, NEW t \in Threads, NEW c \in Clients, Stamp(t, c)
    PROVE  Inv'
<1>1. UNCHANGED <<clock, seen, hits, log, promise, others>>
  BY DEF Stamp, state, history
<1>2. call' \in [Threads -> Calls \cup {Idle}]
  BY DEF Inv, TypeOK, Stamp, Calls
<1>3. returned' \in [Threads -> Decisions \cup {NoDecision}]
  BY DEF Inv, TypeOK, Stamp
<1>4. TypeOK'
  BY <1>1, <1>2, <1>3 DEF Inv, TypeOK
<1>5. StampsInPast'
  BY <1>1 DEF Inv, TypeOK, StampsInPast, Stamp, Instants
<1>6. (HitsAreRecent /\ BoundedMemory /\ PromisesExpiry)'
  BY <1>1 DEF Inv, HitsAreRecent, BoundedMemory, PromisesExpiry
<1> QED
  BY <1>4, <1>5, <1>6 DEF Inv

LEMMA ResetInv ==
    ASSUME Inv, Reset
    PROVE  Inv'
<1>1. UNCHANGED <<clock, call, returned>>
  BY DEF Reset
<1>2. TypeOK'
  BY <1>1 DEF Inv, TypeOK, Reset, Distinct, IsInjective
<1>3. StampsInPast'
  BY <1>1 DEF Inv, StampsInPast, Reset
<1>4. HitsAreRecent'
  BY DEF HitsAreRecent, IsRecentPart, Reset
<1>5. BoundedMemory'
  BY RateLimiterAssumption DEF BoundedMemory, Keys, ToSet, Reset
<1>6. PromisesExpiry'
  BY DEF PromisesExpiry, Reset
<1> QED
  BY <1>2, <1>3, <1>4, <1>5, <1>6 DEF Inv

-----------------------------------------------------------------------------
(* The step under the lock. *)

\* What both outcomes of Decide start from: the deque after the expired head
\* was dropped is still the recent part of the history, and at most as long.
LEMMA LiveProperties ==
    ASSUME Inv, NEW t \in Threads, call[t] # Idle
    PROVE  LET c == call[t].client
               now == call[t].now
               live == Prune(hits[c], now - Window)
           IN /\ c \in Clients /\ now \in Instants /\ now <= clock
              /\ live \in Seq(Instants)
              /\ Len(live) \in Nat
              /\ Len(live) <= Len(hits[c])
              /\ Len(hits[c]) <= MaxRequests
              /\ IsRecentPart(live, log[c], clock - Window)
              /\ Len(live) > 0 => live[1] > now - Window /\ live[1] \in Int
              /\ Len(live) = Len(hits[c]) => \A i \in 1..Len(live) : live[i] = hits[c][i]
<1> DEFINE c == call[t].client
           now == call[t].now
           q == hits[c]
           live == Prune(q, now - Window)
<1>1. c \in Clients /\ now \in Instants /\ now <= clock
  BY DEF Inv, TypeOK, Calls, StampsInPast
<1>2. now \in Int /\ clock \in Int /\ Window \in Int
  BY <1>1, RateLimiterAssumption DEF Inv, TypeOK, Instants
<1>3. q \in Seq(Instants) /\ log[c] \in Seq(Instants) /\ Len(q) \in Nat
  BY <1>1, LenProperties DEF Inv, TypeOK
<1>4. Len(q) <= MaxRequests
  <2>1. c \in Keys(seen) \/ q = <<>>
    BY <1>1 DEF Inv, BoundedMemory
  <2>2. CASE c \in Keys(seen)
    BY <1>1, <2>2 DEF Inv, BoundedMemory
  <2>3. CASE q = <<>>
    BY <2>3, RateLimiterAssumption
  <2> QED
    BY <2>1, <2>2, <2>3
<1>5. IsRecentPart(q, log[c], clock - Window)
  BY <1>1 DEF Inv, HitsAreRecent
<1> HIDE DEF c, now, q
<1>6. PICK k \in 0..Len(q) :
          /\ live \in Seq(Instants)
          /\ Len(live) = Len(q) - k
          /\ \A i \in 1..(Len(q) - k) : live[i] = q[k + i]
          /\ \A i \in 1..k : q[i] <= now - Window
          /\ k < Len(q) => q[k + 1] > now - Window
  <2>1. now - Window \in Int
    BY <1>2
  <2> QED
    BY <1>3, <2>1, PruneProperties
<1> HIDE DEF live
<1>7. \A i \in 1..k : q[i] <= clock - Window
  <2> SUFFICES ASSUME NEW i \in 1..k
               PROVE  q[i] <= clock - Window
    OBVIOUS
  <2>1. i \in 1..Len(q)
    BY <1>3
  <2>2. q[i] \in Int
    BY <1>3, <2>1, StampIsInt
  <2> QED
    BY <1>1, <1>2, <1>6, <2>2
<1>8. IsRecentPart(live, log[c], clock - Window)
  BY <1>2, <1>3, <1>5, <1>6, <1>7, DropRecent
<1>9. Len(live) > 0 => live[1] > now - Window /\ live[1] \in Int
  <2> SUFFICES ASSUME Len(live) > 0
               PROVE  live[1] > now - Window /\ live[1] \in Int
    OBVIOUS
  <2>1. k < Len(q) /\ live[1] = q[k + 1] /\ k + 1 \in 1..Len(q)
    BY <1>3, <1>6
  <2>2. q[k + 1] \in Int
    BY <1>3, <2>1, StampIsInt
  <2> QED
    BY <1>6, <2>1, <2>2
<1>10. Len(live) = Len(q) => \A i \in 1..Len(live) : live[i] = q[i]
  BY <1>3, <1>6
<1>11. Len(live) \in Nat /\ Len(live) <= Len(q)
  BY <1>3, <1>6
<1> QED
  BY <1>1, <1>4, <1>6, <1>8, <1>9, <1>10, <1>11 DEF c, now, q, live

\* A full window: nothing had expired, so the client was already tracked with
\* the same deque, and the promise is the expiry of its head.
LEMMA RefuseInv ==
    ASSUME Inv, NEW t \in Threads, call[t] # Idle,
           Refuse(t, call[t].client, call[t].now,
                  Prune(hits[call[t].client], call[t].now - Window)),
           call' = [call EXCEPT ![t] = Idle],
           clock' = clock,
           others' = [d \in Clients |->
               IF d = call[t].client THEN {} ELSE others[d] \cup {call[t].client}]
    PROVE  Inv'
<1> DEFINE c == call[t].client
           now == call[t].now
           live == Prune(hits[c], now - Window)
           wait == live[1] + Window - now
           retry == IF wait > 0 THEN wait ELSE 0
<1>1. /\ c \in Clients /\ now \in Instants /\ now <= clock
      /\ live \in Seq(Instants)
      /\ Len(live) \in Nat
      /\ Len(live) <= Len(hits[c])
      /\ Len(hits[c]) <= MaxRequests
      /\ IsRecentPart(live, log[c], clock - Window)
      /\ Len(live) > 0 => live[1] > now - Window /\ live[1] \in Int
  BY LiveProperties
<1>2. now \in Int /\ Window \in Int /\ MaxRequests \in Nat \ {0}
  BY <1>1, RateLimiterAssumption DEF Instants
<1>3. /\ Len(live) >= MaxRequests
      /\ returned' = [returned EXCEPT ![t] =
             [allowed |-> FALSE, remaining |-> 0, retryAfter |-> retry]]
      /\ promise' = [promise EXCEPT ![c] = now + retry]
      /\ seen' = Touch(seen, c)
      /\ hits' = [hits EXCEPT ![c] = live]
      /\ log' = log
  BY DEF Refuse
<1>4. Len(live) = MaxRequests /\ Len(hits[c]) = MaxRequests
  <2>1. Len(hits[c]) \in Nat
    BY <1>1, LenProperties DEF Inv, TypeOK
  <2> QED
    BY <1>1, <1>2, <1>3, <2>1
<1>5. retry = wait /\ retry \in Nat /\ now + retry = live[1] + Window /\ now + retry \in Nat
  BY <1>1, <1>2, <1>4, RateLimiterAssumption DEF Instants
<1> HIDE DEF live, retry, wait
<1>6. /\ hits \in [Clients -> Seq(Instants)]
      /\ log \in [Clients -> Seq(Instants)]
      /\ seen \in Seq(Clients) /\ Distinct(seen)
      /\ promise \in [Clients -> Nat \cup {NoPromise}]
  BY DEF Inv, TypeOK
<1>7. c \in Keys(seen)
  <2>1. hits[c] # <<>>
    BY <1>2, <1>4
  <2> QED
    BY <1>1, <2>1 DEF Inv, BoundedMemory
<1>8. /\ seen' \in Seq(Clients) /\ Distinct(seen')
      /\ Keys(seen') = Keys(seen)
      /\ Len(seen') = Len(seen)
  <2> HIDE DEF c
  <2>1. /\ Touch(seen, c) \in Seq(Clients) /\ Distinct(Touch(seen, c))
        /\ Keys(Touch(seen, c)) = Keys(seen) \cup {c}
        /\ Len(Touch(seen, c)) = Len(seen)
    BY <1>1, <1>6, <1>7, TouchProperties
  <2> QED
    BY <1>3, <1>7, <2>1
<1>9. TypeOK'
  <2>1. hits' \in [Clients -> Seq(Instants)]
    BY <1>1, <1>3, <1>6
  <2>2. promise' \in [Clients -> Nat \cup {NoPromise}]
    BY <1>3, <1>5, <1>6
  <2>3. returned' \in [Threads -> Decisions \cup {NoDecision}]
    BY <1>3, <1>5 DEF Inv, TypeOK, Decisions
  <2>4. others' \in [Clients -> SUBSET Clients]
    BY <1>1 DEF Inv, TypeOK
  <2> QED
    BY <1>3, <1>6, <1>8, <2>1, <2>2, <2>3, <2>4 DEF Inv, TypeOK
<1>10. StampsInPast'
  BY <1>3 DEF Inv, TypeOK, StampsInPast
<1>11. HitsAreRecent'
  <2>1. \A d \in Clients : hits'[d] = IF d = c THEN live ELSE hits[d]
    BY <1>3, <1>6
  <2> QED
    BY <1>1, <1>3, <2>1 DEF Inv, HitsAreRecent
<1>12. BoundedMemory'
  <2>1. \A d \in Clients : hits'[d] = IF d = c THEN live ELSE hits[d]
    BY <1>3, <1>6
  <2>2. Len(seen') <= MaxClients
    BY <1>8 DEF Inv, BoundedMemory
  <2>3. Len(live) \in 1..MaxRequests
    BY <1>2, <1>4
  <2> QED
    BY <1>7, <1>8, <2>1, <2>2, <2>3 DEF Inv, BoundedMemory
<1>13. PromisesExpiry'
  <2>1. \A d \in Clients : hits'[d] = IF d = c THEN live ELSE hits[d]
    BY <1>3, <1>6
  <2>2. \A d \in Clients : promise'[d] = IF d = c THEN now + retry ELSE promise[d]
    BY <1>3, <1>6
  <2> QED
    BY <1>4, <1>5, <2>1, <2>2 DEF Inv, PromisesExpiry
<1> QED
  BY <1>9, <1>10, <1>11, <1>12, <1>13 DEF Inv

\* Room in the window: the request joins the deque and the history alike, and
\* a client that is forgotten loses both.
LEMMA AdmitInv ==
    ASSUME Inv, NEW t \in Threads, call[t] # Idle,
           Admit(t, call[t].client, call[t].now,
                 Prune(hits[call[t].client], call[t].now - Window)),
           call' = [call EXCEPT ![t] = Idle],
           clock' = clock,
           others' = [d \in Clients |->
               IF d = call[t].client THEN {} ELSE others[d] \cup {call[t].client}]
    PROVE  Inv'
<1> DEFINE c == call[t].client
           now == call[t].now
           live == Prune(hits[c], now - Window)
           kept == Newest(Touch(seen, c), MaxClients)
           charged == Append(live, now)
<1>1. /\ c \in Clients /\ now \in Instants /\ now <= clock
      /\ live \in Seq(Instants)
      /\ Len(live) \in Nat
      /\ IsRecentPart(live, log[c], clock - Window)
  BY LiveProperties
<1>2. MaxRequests \in Nat \ {0} /\ MaxClients \in Nat \ {0} /\ clock - Window \in Int
  BY RateLimiterAssumption DEF Inv, TypeOK, Instants
<1>3. /\ Len(live) < MaxRequests
      /\ seen' = kept
      /\ hits' = [d \in Clients |->
             IF d \notin Keys(kept) THEN <<>> ELSE IF d = c THEN charged ELSE hits[d]]
      /\ log' = [d \in Clients |->
             IF d \notin Keys(kept) THEN <<>>
             ELSE IF d = c THEN Append(log[d], now) ELSE log[d]]
      /\ promise' = [d \in Clients |->
             IF d \notin Keys(kept) \/ d = c THEN NoPromise ELSE promise[d]]
      /\ returned' = [returned EXCEPT ![t] =
             [allowed |-> TRUE, remaining |-> MaxRequests - Len(charged),
              retryAfter |-> 0]]
  BY DEF Admit
<1> HIDE DEF live, c
<1>4. /\ hits \in [Clients -> Seq(Instants)]
      /\ log \in [Clients -> Seq(Instants)]
      /\ seen \in Seq(Clients) /\ Distinct(seen)
      /\ promise \in [Clients -> Nat \cup {NoPromise}]
  BY DEF Inv, TypeOK
<1>5. /\ charged \in Seq(Instants)
      /\ Len(charged) = Len(live) + 1
      /\ IsRecentPart(charged, Append(log[c], now), clock - Window)
      /\ Append(log[c], now) \in Seq(Instants)
      /\ Len(Append(log[c], now)) = Len(log[c]) + 1
      /\ \A i \in 1..Len(log[c]) : Append(log[c], now)[i] = log[c][i]
      /\ Append(log[c], now)[Len(log[c]) + 1] = now
  BY <1>1, <1>2, <1>4, AppendProperties, AppendRecent
<1> HIDE DEF now
<1>6. /\ kept \in Seq(Clients) /\ Distinct(kept)
      /\ Len(kept) <= MaxClients
      /\ Keys(kept) \subseteq Keys(seen) \cup {c}
      /\ c \in Keys(kept)
  <2>1. /\ Touch(seen, c) \in Seq(Clients) /\ Distinct(Touch(seen, c))
        /\ Keys(Touch(seen, c)) = Keys(seen) \cup {c}
        /\ Touch(seen, c)[Len(Touch(seen, c))] = c
    BY <1>1, <1>4, TouchProperties
  <2>2. Len(Touch(seen, c)) > 0
    <3>1. c \in Keys(Touch(seen, c))
      BY <2>1
    <3> QED
      BY <2>1, <3>1 DEF Keys, ToSet
  <2> QED
    BY <1>2, <2>1, <2>2, NewestProperties
<1> HIDE DEF kept, charged
<1>7. Len(charged) \in 1..MaxRequests
  BY <1>1, <1>2, <1>3, <1>5
<1>8. /\ \A d \in Clients : hits'[d] =
            IF d \notin Keys(kept) THEN <<>> ELSE IF d = c THEN charged ELSE hits[d]
      /\ \A d \in Clients : log'[d] =
            IF d \notin Keys(kept) THEN <<>>
            ELSE IF d = c THEN Append(log[d], now) ELSE log[d]
      /\ \A d \in Clients : promise'[d] =
            IF d \notin Keys(kept) \/ d = c THEN NoPromise ELSE promise[d]
  BY <1>3
<1>9. TypeOK'
  <2>1. hits' \in [Clients -> Seq(Instants)]
    BY <1>3, <1>4, <1>5
  <2>2. log' \in [Clients -> Seq(Instants)]
    BY <1>3, <1>4, <1>5
  <2>3. promise' \in [Clients -> Nat \cup {NoPromise}]
    BY <1>3, <1>4
  <2>4. MaxRequests - Len(charged) \in 0..(MaxRequests - 1)
    BY <1>2, <1>7
  <2>5. returned' \in [Threads -> Decisions \cup {NoDecision}]
    BY <1>3, <2>4 DEF Inv, TypeOK, Decisions
  <2>6. others' \in [Clients -> SUBSET Clients]
    BY <1>1 DEF Inv, TypeOK, c
  <2> QED
    BY <1>3, <1>6, <2>1, <2>2, <2>3, <2>5, <2>6 DEF Inv, TypeOK
<1>10. StampsInPast'
  <2>1. \A d \in Clients : \A i \in 1..Len(log'[d]) : log'[d][i] <= clock
    <3> SUFFICES ASSUME NEW d \in Clients, NEW i \in 1..Len(log'[d])
                 PROVE  log'[d][i] <= clock
      OBVIOUS
    <3>1. CASE d \notin Keys(kept)
      BY <1>8, <3>1
    <3>2. CASE d \in Keys(kept) /\ d = c
      <4>1. log'[d] = Append(log[c], now) /\ Len(log[c]) \in Nat
        BY <1>4, <1>8, <3>2, LenProperties
      <4>2. CASE i = Len(log[c]) + 1
        BY <1>1, <1>5, <4>1, <4>2
      <4>3. CASE i # Len(log[c]) + 1
        <5>1. i \in 1..Len(log[c])
          BY <1>5, <4>1, <4>3
        <5> QED
          BY <1>1, <1>5, <4>1, <5>1 DEF Inv, StampsInPast
      <4> QED
        BY <4>2, <4>3
    <3>3. CASE d \in Keys(kept) /\ d # c
      BY <1>8, <3>3 DEF Inv, StampsInPast
    <3> QED
      BY <3>1, <3>2, <3>3
  <2> QED
    BY <2>1 DEF Inv, TypeOK, StampsInPast
<1>11. HitsAreRecent'
  <2>1. IsRecentPart(<<>>, <<>>, clock - Window)
    BY DEF IsRecentPart
  <2> QED
    BY <1>5, <1>8, <2>1 DEF Inv, HitsAreRecent
<1>12. BoundedMemory'
  BY <1>3, <1>6, <1>7, <1>8 DEF Inv, BoundedMemory
<1>13. PromisesExpiry'
  BY <1>8 DEF Inv, PromisesExpiry
<1> QED
  BY <1>9, <1>10, <1>11, <1>12, <1>13 DEF Inv

LEMMA NextInv ==
    ASSUME Inv, [Next]_vars
    PROVE  Inv'
<1>1. CASE Tick
  BY <1>1, TickInv
<1>2. ASSUME NEW t \in Threads, NEW c \in Clients, Stamp(t, c)
      PROVE  Inv'
  BY <1>2, StampInv
<1>3. ASSUME NEW t \in Threads, Decide(t)
      PROVE  Inv'
  BY <1>3, RefuseInv, AdmitInv DEF Decide
<1>4. CASE Reset
  BY <1>4, ResetInv
<1>5. CASE UNCHANGED vars
  BY <1>5 DEF vars, Inv, TypeOK, StampsInPast, HitsAreRecent, BoundedMemory, PromisesExpiry
<1> QED
  BY <1>1, <1>2, <1>3, <1>4, <1>5 DEF Next

-----------------------------------------------------------------------------
(* The theorems. *)

THEOREM InvHolds == Spec => []Inv
<1> QED
  BY InitInv, NextInv, PTL DEF Spec

\* Every reachable state of the limiter is well typed.
THEOREM TypeCorrect == Spec => []TypeOK
<1>1. Inv => TypeOK
  BY DEF Inv
<1> QED
  BY <1>1, InvHolds, PTL

\* Memory stays bounded: MaxClients clients, each with 1..MaxRequests stamps.
THEOREM MemoryIsBounded == Spec => []BoundedMemory
<1>1. Inv => BoundedMemory
  BY DEF Inv
<1> QED
  BY <1>1, InvHolds, PTL

\* The limit holds in the window that ends now, for any number of threads.
THEOREM LiveWindowIsBounded == Spec => []LiveWindowBound
<1>1. ASSUME Inv
      PROVE  LiveWindowBound
  <2> SUFFICES ASSUME NEW c \in Clients
               PROVE  Cardinality({i \in DOMAIN log[c] : log[c][i] > clock - Window})
                         <= MaxRequests
    BY DEF LiveWindowBound
  <2> DEFINE n == Len(log[c])
             d == n - Len(hits[c])
             inside == {i \in DOMAIN log[c] : log[c][i] > clock - Window}
  <2>1. /\ log[c] \in Seq(Instants) /\ n \in Nat /\ DOMAIN log[c] = 1..n
        /\ Len(hits[c]) \in Nat
    BY <1>1, LenProperties DEF Inv, TypeOK
  <2>2. /\ d >= 0
        /\ \A i \in 1..d : log[c][i] <= clock - Window
    BY <1>1 DEF Inv, HitsAreRecent, IsRecentPart
  <2>3. Len(hits[c]) <= MaxRequests
    BY <1>1, <2>1, RateLimiterAssumption DEF Inv, BoundedMemory
  <2>4. d \in Int /\ d + 1 \in Int /\ d + Len(hits[c]) = n
    BY <2>1
  <2>5. ASSUME NEW i \in inside
        PROVE  i \in 1..n /\ log[c][i] > clock - Window
    BY <2>1
  <2>6. clock - Window \in Int
    BY <1>1, RateLimiterAssumption DEF Inv, TypeOK, Instants
  <2> HIDE DEF n, d, inside
  <2>7. ASSUME NEW i \in inside
        PROVE  i \in (d + 1)..n
    <3>1. i \in 1..n /\ i \in 1..Len(log[c]) /\ log[c][i] > clock - Window
      BY <2>5 DEF n
    <3>2. log[c][i] \in Int
      BY <2>1, <3>1, StampIsInt
    <3>3. ~ (i <= d)
      BY <2>2, <2>6, <3>1, <3>2
    <3> QED
      BY <2>1, <2>4, <3>1, <3>3
  <2>8. /\ IsFiniteSet((d + 1)..n)
        /\ Cardinality((d + 1)..n) = IF d + 1 > n THEN 0 ELSE n - (d + 1) + 1
    <3>1. d + 1 \in Int /\ n \in Int
      BY <2>1, <2>4
    <3> QED
      BY ONLY <3>1, FS_Interval, Zenon
  <2>9. Cardinality((d + 1)..n) <= Len(hits[c])
    BY <2>1, <2>4, <2>8
  <2>10. inside \subseteq (d + 1)..n
    BY <2>7
  <2>11. /\ Cardinality(inside) \in Nat
         /\ Cardinality((d + 1)..n) \in Nat
         /\ Cardinality(inside) <= Cardinality((d + 1)..n)
    BY <2>8, <2>10, FS_Subset, FS_CardinalityType
  <2>12. Cardinality(inside) <= MaxRequests
    BY <2>1, <2>3, <2>9, <2>11, RateLimiterAssumption
  <2> QED
    BY <2>12 DEF inside
<1> QED
  BY <1>1, InvHolds, PTL

\* Waiting as long as the last refusal said is always enough.
THEOREM RetryAfterIsHonoured == Spec => RetryAfterHonoured
<1>1. ASSUME Inv, [Next]_vars, NEW t \in Threads, Returns(t),
             ~returned'[t].allowed, promise[call[t].client] # NoPromise
      PROVE  call[t].now < promise[call[t].client]
  <2> DEFINE c == call[t].client
             now == call[t].now
             live == Prune(hits[c], now - Window)
  <2>1. Decide(t)
    <3>1. ASSUME NEW u \in Threads, u # t, Decide(u)
          PROVE  FALSE
      BY <1>1, <3>1 DEF Decide, Returns, Inv, TypeOK
    <3>2. ASSUME NEW u \in Threads, NEW e \in Clients, Stamp(u, e)
          PROVE  FALSE
      BY <1>1, <3>2 DEF Stamp, Returns, Inv, TypeOK
    <3> QED
      BY <1>1, <3>1, <3>2 DEF Next, vars, Tick, Reset, Returns
  <2>2. ~ Admit(t, c, now, live)
    BY <1>1 DEF Admit, Inv, TypeOK
  <2>3. Len(live) >= MaxRequests
    BY <2>1, <2>2 DEF Decide, Refuse
  <2>4. /\ c \in Clients /\ now \in Instants /\ Len(live) \in Nat
        /\ Len(live) <= Len(hits[c]) /\ Len(hits[c]) <= MaxRequests
        /\ Len(live) > 0 => live[1] > now - Window /\ live[1] \in Int
        /\ Len(live) = Len(hits[c]) => \A i \in 1..Len(live) : live[i] = hits[c][i]
    BY <1>1, LiveProperties DEF Returns
  <2>5. Len(hits[c]) = MaxRequests /\ promise[c] = hits[c][1] + Window
    BY <1>1, <2>4 DEF Inv, PromisesExpiry
  <2> HIDE DEF live, c, now
  <2>6. live[1] = hits[c][1] /\ live[1] > now - Window /\ live[1] \in Int
    BY <2>3, <2>4, <2>5, RateLimiterAssumption
  <2>7. now < promise[c]
    BY <2>4, <2>5, <2>6, RateLimiterAssumption DEF Instants
  <2> QED
    BY <2>7 DEF c, now
<1>2. Inv /\ [Next]_vars =>
        \A t \in Threads :
          (Returns(t) /\ ~returned'[t].allowed)
             => LET c == call[t].client
                IN promise[c] # NoPromise => call[t].now < promise[c]
  BY <1>1
<1> QED
  BY <1>2, InvHolds, PTL DEF Spec, RetryAfterHonoured

-----------------------------------------------------------------------------
(* Whom the limiter forgets.  The order of _seen is the order of the last  *)
(* decisions, so the clients dropped by the flood have MaxClients others   *)
(* behind them.                                                            *)

Recent ==
    /\ \A c \in Clients : IsFiniteSet(others[c])
    /\ Recency(seen, others)

LEMMA DecideRecent ==
    ASSUME Inv, Recent, NEW t \in Threads, Decide(t)
    PROVE  /\ Recent'
           /\ \A c \in Clients : (c \in Keys(seen) /\ c \notin Keys(seen'))
                 => Cardinality(others'[c]) >= MaxClients
<1> DEFINE me == call[t].client
           touched == Touch(seen, me)
<1>1. /\ me \in Clients
      /\ seen \in Seq(Clients) /\ Distinct(seen)
      /\ others \in [Clients -> SUBSET Clients]
      /\ MaxClients \in Nat \ {0}
  BY RateLimiterAssumption DEF Decide, Inv, TypeOK, Calls
<1>2. others' = [d \in Clients |-> IF d = me THEN {} ELSE others[d] \cup {me}]
  BY DEF Decide
<1>3. seen' = touched \/ seen' = Newest(touched, MaxClients)
  BY DEF Decide, Refuse, Admit
<1> HIDE DEF me
<1>4. /\ others' \in [Clients -> SUBSET Clients]
      /\ \A d \in Clients : d # me => others'[d] = others[d] \cup {me}
  BY <1>1, <1>2
<1>5. ASSUME NEW d \in Clients
      PROVE  IsFiniteSet(others'[d])
  <2>1. CASE d = me
    BY <1>2, <2>1, FS_EmptySet
  <2>2. CASE d # me
    <3>1. IsFiniteSet(others[d])
      BY DEF Recent
    <3> QED
      BY <1>4, <2>2, <3>1, FS_AddElement
  <2> QED
    BY <2>1, <2>2
<1>6. /\ touched \in Seq(Clients) /\ Distinct(touched)
      /\ Keys(touched) = Keys(seen) \cup {me}
      /\ Len(touched) > 0
  BY <1>1, TouchProperties
<1>7. Recency(touched, others')
  <2>1. Recency(seen, others)
    BY DEF Recent
  <2> QED
    BY <1>1, <1>4, <2>1, TouchRecency
<1> HIDE DEF touched
<1>8. /\ Recency(Newest(touched, MaxClients), others')
      /\ \A d \in Keys(touched) \ Keys(Newest(touched, MaxClients)) :
            Cardinality(others'[d]) >= MaxClients
  BY <1>1, <1>4, <1>5, <1>6, <1>7, NewestRecency
<1> QED
  BY <1>3, <1>5, <1>6, <1>7, <1>8 DEF Recent

LEMMA NextRecent ==
    ASSUME Inv, Recent, [Next]_vars
    PROVE  Recent'
<1>1. CASE UNCHANGED <<seen, others>>
  BY <1>1 DEF Recent
<1>2. ASSUME NEW t \in Threads, Decide(t)
      PROVE  Recent'
  BY <1>2, DecideRecent
<1>3. CASE Reset
  <2>1. seen' = <<>> /\ others' = [c \in Clients |-> {}]
    BY <1>3 DEF Reset
  <2> QED
    BY <2>1, FS_EmptySet DEF Recent, Recency
<1> QED
  BY <1>1, <1>2, <1>3 DEF Next, vars, Tick, Stamp, state, history

\* The flood forgets the least recently seen client, never an active one.
THEOREM LeastRecentIsForgotten == Spec => ForgetsLeastRecent
<1>1. Init => Recent
  <2> SUFFICES ASSUME Init PROVE Recent
    OBVIOUS
  <2>1. seen = <<>> /\ others = [c \in Clients |-> {}]
    BY DEF Init
  <2> QED
    BY <2>1, FS_EmptySet DEF Recent, Recency
<1>2. ASSUME Inv, Recent, [Next]_vars, NEW c \in Clients,
             c \in Keys(seen), c \notin Keys(seen'), NEW t \in Threads, Returns(t)
      PROVE  Cardinality(others'[c]) >= MaxClients
  <2>1. CASE \E u \in Threads : Decide(u)
    BY <1>2, <2>1, DecideRecent
  <2>2. CASE Reset
    BY <1>2, <2>2 DEF Reset, Returns
  <2>3. CASE UNCHANGED seen
    BY <1>2, <2>3
  <2> QED
    BY <1>2, <2>1, <2>2, <2>3 DEF Next, vars, Tick, Stamp, state
<1>3. Inv /\ Recent /\ [Next]_vars =>
        \A c \in Clients :
          (c \in Keys(seen) /\ c \notin Keys(seen') /\ \E t \in Threads : Returns(t))
             => Cardinality(others'[c]) >= MaxClients
  BY <1>2
<1>4. Inv /\ Recent /\ [Next]_vars => Recent'
  BY NextRecent
<1> QED
  BY <1>1, <1>3, <1>4, InvHolds, PTL DEF Spec, ForgetsLeastRecent

-----------------------------------------------------------------------------
(* When the limiter is exact.  In a history recorded in order, a stamp that   *)
(* was dropped is out of the window of the latest admission, unless a refusal *)
(* dropped it; but then the deque is full of stamps that are later still.     *)

Sorted(q) == \A i, j \in DOMAIN q : i <= j => q[i] <= q[j]

DroppedFor(q, h) ==
    Sorted(h) =>
        \/ Len(q) = MaxRequests
        \/ \A i \in 1..(Len(h) - Len(q)) : h[i] <= h[Len(h)] - Window

Dropped == \A c \in Clients : DroppedFor(hits[c], log[c])

\* What the deque of the caller holds once the expired head is gone, when nobody
\* overtook it: of the history exactly what is inside the window, or more than
\* enough of it.
LEMMA LiveIsExact ==
    ASSUME Inv, Dropped, NEW t \in Threads, call[t] # Idle,
           Orderly(log[call[t].client], call[t].now)
    PROVE  LET c == call[t].client
               now == call[t].now
               live == Prune(hits[c], now - Window)
               d == Len(log[c]) - Len(live)
           IN /\ d \in 0..Len(log[c])
              /\ \A i \in (d + 1)..Len(log[c]) : log[c][i] > now - Window
              /\ \/ Len(live) = MaxRequests
                 \/ \A i \in 1..d : log[c][i] <= now - Window
<1> DEFINE c == call[t].client
           now == call[t].now
           q == hits[c]
           h == log[c]
           n == Len(h)
           live == Prune(q, now - Window)
           d == n - Len(live)
           d0 == n - Len(q)
<1>1. c \in Clients /\ now \in Instants
  BY DEF Inv, TypeOK, Calls
<1>2. now \in Int /\ clock \in Int /\ Window \in Int /\ MaxRequests \in Nat
  BY <1>1, RateLimiterAssumption DEF Inv, TypeOK, Instants
<1>3. q \in Seq(Instants) /\ h \in Seq(Instants) /\ Len(q) \in Nat /\ n \in Nat
  BY <1>1, LenProperties DEF Inv, TypeOK
<1>4. Len(q) <= MaxRequests
  BY LiveProperties
<1>5. /\ d0 >= 0
      /\ \A i \in 1..Len(q) : q[i] = h[d0 + i]
  BY <1>1 DEF Inv, HitsAreRecent, IsRecentPart
<1>6. DroppedFor(q, h)
  BY <1>1 DEF Dropped
<1>7. /\ \A i \in 1..n : h[i] \in Int /\ h[i] <= now
      /\ \A i, j \in 1..n : i <= j => h[i] <= h[j]
      /\ DOMAIN h = 1..n
  BY <1>3, StampIsInt DEF Orderly
<1> HIDE DEF c, now, q, h
<1>8. PICK k \in 0..Len(q) :
          /\ live \in Seq(Instants)
          /\ Len(live) = Len(q) - k
          /\ \A i \in 1..k : q[i] <= now - Window
          /\ k < Len(q) => q[k + 1] > now - Window
  <2>1. now - Window \in Int
    BY <1>2
  <2> QED
    BY <1>3, <2>1, PruneProperties
<1> HIDE DEF live, n
<1>9. d = d0 + k /\ d \in 0..n /\ d0 \in 0..n
  BY <1>3, <1>5, <1>8
<1> HIDE DEF d, d0
<1>10. ASSUME NEW i \in (d + 1)..n
       PROVE  h[i] > now - Window
  <2>1. k < Len(q) /\ k + 1 \in 1..Len(q) /\ d + 1 \in 1..n /\ i \in 1..n /\ d + 1 <= i
    BY <1>3, <1>8, <1>9, <1>10 DEF d, d0
  <2>2. q[k + 1] = h[d + 1]
    <3>1. q[k + 1] = h[d0 + (k + 1)] /\ d0 + (k + 1) = d + 1
      BY <1>5, <1>9, <2>1
    <3> QED
      BY <3>1
  <2>3. h[d + 1] > now - Window /\ h[d + 1] <= h[i] /\ h[d + 1] \in Int /\ h[i] \in Int
    BY <1>7, <1>8, <2>1, <2>2
  <2> QED
    BY <1>2, <2>3
<1>11. Len(live) = MaxRequests \/ \A i \in 1..d : h[i] <= now - Window
  <2> SUFFICES ASSUME Len(live) # MaxRequests, NEW i \in 1..d
               PROVE  h[i] <= now - Window
    OBVIOUS
  <2>1. i \in 1..n /\ h[i] \in Int
    <3>1. i \in 1..n
      BY <1>3, <1>9
    <3> QED
      BY <1>7, <3>1
  <2>2. CASE k > 0
    <3>1. /\ q[k] <= now - Window /\ q[k] = h[d0 + k] /\ d0 + k = d
          /\ d \in 1..n /\ i <= d
      BY <1>5, <1>8, <1>9, <2>2
    <3>2. h[i] <= h[d] /\ h[d] \in Int
      BY <1>7, <2>1, <3>1
    <3> QED
      BY <1>2, <2>1, <3>1, <3>2
  <2>3. CASE k = 0
    <3>1. Len(q) # MaxRequests /\ d = d0 /\ Sorted(h) /\ n \in 1..n
      BY <1>3, <1>7, <1>8, <1>9, <2>1, <2>3 DEF Sorted
    <3>2. h[i] <= h[n] - Window
      BY <1>6, <3>1 DEF DroppedFor, d0, n
    <3>3. h[n] \in Int /\ h[n] <= now
      BY <1>7, <3>1
    <3> QED
      BY <1>2, <2>1, <3>2, <3>3
  <2> QED
    BY <1>8, <2>2, <2>3
<1> QED
  BY <1>9, <1>10, <1>11 DEF c, now, q, h, n, live, d

LEMMA DecideDropped ==
    ASSUME Inv, Dropped, NEW t \in Threads, Decide(t)
    PROVE  Dropped'
<1> DEFINE c == call[t].client
           now == call[t].now
           live == Prune(hits[c], now - Window)
           h == log[c]
           h1 == Append(h, now)
<1>1. call[t] # Idle
  BY DEF Decide
<1>2. /\ c \in Clients /\ now \in Instants /\ live \in Seq(Instants)
      /\ Len(live) \in Nat /\ Len(live) <= Len(hits[c]) /\ Len(hits[c]) <= MaxRequests
  BY <1>1, LiveProperties
<1>3. /\ now \in Int /\ Window \in Int /\ MaxRequests \in Nat \ {0}
      /\ h \in Seq(Instants) /\ Len(h) \in Nat
      /\ hits \in [Clients -> Seq(Instants)] /\ log \in [Clients -> Seq(Instants)]
  BY <1>2, RateLimiterAssumption, LenProperties DEF Inv, TypeOK, Instants
<1>4. CASE Refuse(t, c, now, live)
  <2>1. Len(live) >= MaxRequests /\ hits' = [hits EXCEPT ![c] = live] /\ log' = log
    BY <1>4 DEF Refuse
  <2> HIDE DEF c, now, live
  <2>2. Len(live) = MaxRequests
    <3>1. Len(hits[c]) \in Nat
      BY <1>2, <1>3, LenProperties
    <3> QED
      BY <1>2, <1>3, <2>1, <3>1
  <2>3. \A e \in Clients : hits'[e] = IF e = c THEN live ELSE hits[e]
    BY <1>3, <2>1
  <2> QED
    BY <2>1, <2>2, <2>3 DEF Dropped, DroppedFor
<1>5. CASE Admit(t, c, now, live)
  <2> DEFINE kept == Newest(Touch(seen, c), MaxClients)
             charged == Append(live, now)
  <2>1. /\ Len(live) < MaxRequests
        /\ \A e \in Clients : hits'[e] =
              IF e \notin Keys(kept) THEN <<>> ELSE IF e = c THEN charged ELSE hits[e]
        /\ \A e \in Clients : log'[e] =
              IF e \notin Keys(kept) THEN <<>> ELSE IF e = c THEN h1 ELSE log[e]
    BY <1>5 DEF Admit
  <2> HIDE DEF kept
  <2>2. DroppedFor(charged, h1)
    <3> SUFFICES ASSUME Sorted(h1)
                 PROVE  \A i \in 1..(Len(h1) - Len(charged)) : h1[i] <= h1[Len(h1)] - Window
      BY DEF DroppedFor
    <3>1. /\ Len(h1) = Len(h) + 1 /\ h1[Len(h) + 1] = now
          /\ \A i \in 1..Len(h) : h1[i] = h[i]
          /\ Len(charged) = Len(live) + 1
          /\ DOMAIN h1 = 1..(Len(h) + 1) /\ DOMAIN h = 1..Len(h)
      <4> HIDE DEF live, h, now
      <4>1. h1 \in Seq(Instants)
        BY <1>2, <1>3, AppendProperties
      <4> QED
        BY <1>2, <1>3, <4>1, AppendProperties, LenProperties
    <3>2. Orderly(h, now)
      <4> HIDE DEF h1, h, now
      <4>1. \A i \in 1..Len(h) : h[i] <= now
        <5> SUFFICES ASSUME NEW i \in 1..Len(h)
                     PROVE  h[i] <= now
          OBVIOUS
        <5>1. i \in 1..(Len(h) + 1) /\ Len(h) + 1 \in 1..(Len(h) + 1) /\ i <= Len(h) + 1
          BY <1>3
        <5>2. h1[i] <= h1[Len(h) + 1]
          BY <3>1, <5>1 DEF Sorted
        <5> QED
          BY <3>1, <5>2
      <4>2. \A i, j \in 1..Len(h) : i <= j => h[i] <= h[j]
        <5>1. \A i \in 1..Len(h) : i \in 1..(Len(h) + 1)
          BY <1>3
        <5> QED
          BY <3>1, <5>1 DEF Sorted
      <4> QED
        BY <3>1, <4>1, <4>2 DEF Orderly
    <3>3. LET d == Len(h) - Len(live)
          IN d \in 0..Len(h) /\ \A i \in 1..d : h[i] <= now - Window
      <4>1. LET d == Len(h) - Len(live)
            IN /\ d \in 0..Len(h)
               /\ Len(live) = MaxRequests \/ \A i \in 1..d : h[i] <= now - Window
        BY <1>1, <3>2, LiveIsExact
      <4> HIDE DEF live, h, now
      <4> QED
        BY <1>3, <2>1, <4>1
    <3> HIDE DEF h1, h, live, now, charged
    <3>4. Len(h1) - Len(charged) = Len(h) - Len(live)
      BY <1>2, <1>3, <3>1
    <3> SUFFICES ASSUME NEW i \in 1..(Len(h) - Len(live))
                 PROVE  h1[i] <= now - Window
      BY <3>1, <3>4
    <3>5. i \in 1..Len(h)
      BY <1>2, <1>3
    <3> QED
      BY <3>1, <3>3, <3>5
  <2>3. DroppedFor(<<>>, <<>>)
    BY DEF DroppedFor
  <2> HIDE DEF charged, h1, c
  <2> QED
    BY <2>1, <2>2, <2>3 DEF Dropped
<1> QED
  BY <1>4, <1>5 DEF Decide

LEMMA NextDropped ==
    ASSUME Inv, Dropped, [Next]_vars
    PROVE  Dropped'
<1>1. CASE UNCHANGED <<hits, log>>
  BY <1>1 DEF Dropped, DroppedFor
<1>2. CASE Reset
  <2>1. DroppedFor(<<>>, <<>>)
    BY DEF DroppedFor
  <2> QED
    BY <1>2, <2>1 DEF Reset, Dropped
<1> QED
  BY <1>1, <1>2, DecideDropped DEF Next, vars, Tick, Stamp, state, history

\* Without overtaking, the limiter takes exactly the decisions of a sliding window.
THEOREM DecisionIsExact == Spec => ExactDecision
<1>1. Init => Dropped
  BY DEF Init, Dropped, DroppedFor
<1>2. ASSUME Inv, Dropped, [Next]_vars, NEW t \in Threads, Returns(t),
             Orderly(log[call[t].client], call[t].now)
      PROVE  returned'[t].allowed
                <=> Cardinality(LiveAt(log[call[t].client], call[t].now)) < MaxRequests
  <2> DEFINE c == call[t].client
             now == call[t].now
             live == Prune(hits[c], now - Window)
             h == log[c]
             d == Len(h) - Len(live)
             inside == LiveAt(h, now)
             after == (d + 1)..Len(h)
  <2>1. Decide(t) /\ call[t] # Idle
    <3>1. ASSUME NEW u \in Threads, u # t, Decide(u)
          PROVE  FALSE
      BY <1>2, <3>1 DEF Decide, Returns, Inv, TypeOK
    <3>2. ASSUME NEW u \in Threads, NEW e \in Clients, Stamp(u, e)
          PROVE  FALSE
      BY <1>2, <3>2 DEF Stamp, Returns, Inv, TypeOK
    <3> QED
      BY <1>2, <3>1, <3>2 DEF Next, vars, Tick, Reset, Returns
  <2>2. returned'[t].allowed <=> Len(live) < MaxRequests
    <3>1. Refuse(t, c, now, live) \/ Admit(t, c, now, live)
      BY <2>1 DEF Decide
    <3>2. returned \in [Threads -> Decisions \cup {NoDecision}]
      BY <1>2 DEF Inv, TypeOK
    <3>3. Len(live) \in Nat /\ MaxRequests \in Nat
      BY <1>2, <2>1, LiveProperties, RateLimiterAssumption
    <3> HIDE DEF live, c, now
    <3> QED
      BY <3>1, <3>2, <3>3 DEF Refuse, Admit
  <2>3. /\ d \in 0..Len(h)
        /\ \A i \in (d + 1)..Len(h) : h[i] > now - Window
        /\ Len(live) = MaxRequests \/ \A i \in 1..d : h[i] <= now - Window
    BY <1>2, <2>1, LiveIsExact
  <2>4. /\ c \in Clients /\ h \in Seq(Instants) /\ Len(h) \in Nat
        /\ Len(live) \in Nat /\ now \in Int
    BY <1>2, <2>1, LiveProperties, LenProperties, RateLimiterAssumption
    DEF Inv, TypeOK, Instants
  <2>5. /\ DOMAIN h = 1..Len(h) /\ \A i \in 1..Len(h) : h[i] \in Int /\ h[i] <= now
    BY <1>2, <2>4, StampIsInt DEF Orderly
  <2> HIDE DEF c, now, live, h
  <2>6. IsFiniteSet(after) /\ Cardinality(after) = Len(live)
    <3>1. d + 1 \in Int /\ Len(h) \in Int
      BY <2>3, <2>4
    <3>2. /\ IsFiniteSet((d + 1)..Len(h))
          /\ Cardinality((d + 1)..Len(h)) =
                IF d + 1 > Len(h) THEN 0 ELSE Len(h) - (d + 1) + 1
      BY <3>1, FS_Interval
    <3> QED
      BY <2>3, <2>4, <3>2
  <2>7. after \subseteq inside /\ inside \subseteq 1..Len(h)
    <3>1. inside \subseteq 1..Len(h)
      BY <2>5 DEF LiveAt
    <3>2. ASSUME NEW i \in after
          PROVE  i \in inside
      <4>1. i \in 1..Len(h) /\ h[i] > now - Window
        BY <2>3, <2>4
      <4>2. h[i] <= now /\ h[i] \in Int /\ Window \in Int
        BY <2>5, <4>1, RateLimiterAssumption
      <4> QED
        BY <2>4, <2>5, <4>1, <4>2 DEF LiveAt
    <3> QED
      BY <3>1, <3>2
  <2>8. IsFiniteSet(inside) /\ Cardinality(inside) \in Nat
    <3>1. IsFiniteSet(1..Len(h))
      BY <2>4, FS_Interval
    <3> QED
      BY <2>7, <3>1, FS_Subset, FS_CardinalityType
  <2>9. CASE Len(live) = MaxRequests
    <3>1. Cardinality(after) <= Cardinality(inside)
      BY <2>7, <2>8, FS_Subset
    <3>2. MaxRequests \in Nat
      BY RateLimiterAssumption
    <3> HIDE DEF inside, after
    <3> QED
      BY <2>2, <2>6, <2>8, <2>9, <3>1, <3>2 DEF inside, h, now, c
  <2>10. CASE \A i \in 1..d : h[i] <= now - Window
    <3>1. inside \subseteq after
      <4> SUFFICES ASSUME NEW i \in inside
                   PROVE  i \in after
        OBVIOUS
      <4>1. i \in 1..Len(h) /\ h[i] > now - Window /\ h[i] \in Int /\ now - Window \in Int
        BY <2>4, <2>5, RateLimiterAssumption DEF LiveAt
      <4> QED
        BY <2>3, <2>4, <2>10, <4>1
    <3>2. inside = after
      BY <2>7, <3>1
    <3> HIDE DEF after
    <3> QED
      BY <2>2, <2>6, <3>2 DEF h, now, c
  <2> QED
    BY <2>3, <2>9, <2>10
<1>3. Inv /\ Dropped /\ [Next]_vars =>
        \A t \in Threads :
          LET c == call[t].client
              now == call[t].now
          IN (Returns(t) /\ Orderly(log[c], now))
                => (returned'[t].allowed
                        <=> Cardinality(LiveAt(log[c], now)) < MaxRequests)
  BY <1>2
<1>4. Inv /\ Dropped /\ [Next]_vars => Dropped'
  BY NextDropped
<1> QED
  BY <1>1, <1>3, <1>4, InvHolds, PTL DEF Spec, ExactDecision

=============================================================================
