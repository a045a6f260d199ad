--------------------------- MODULE AbstractCache ---------------------------
(***************************************************************************)
(* What a bounded cache promises to whoever calls it, order and counters   *)
(* aside: a key maps to what was put last, an answer is forgotten by       *)
(* itself only when it is too old, and room for a new one is made only in  *)
(* a full cache, at the cost of one other answer.                          *)
(***************************************************************************)
EXTENDS Integers, FiniteSets

CONSTANTS
    CacheKeys, Values,
    MaxEntries,     \* answers the cache has room for
    TTL,            \* how long an answer is good for, or Forever
    Forever,
    NoEntry         \* nothing is remembered under a key

VARIABLES
    now,
    memory          \* per key: [at, value], or NoEntry

memoryVars == <<now, memory>>

Held == {k \in CacheKeys : memory[k] # NoEntry}

Init ==
    /\ now = 0
    /\ memory = [k \in CacheKeys |-> NoEntry]

\* The answers in `gone` make room for the new one.
Remember(k, v, gone) ==
    /\ gone \subseteq Held \ {k}
    /\ gone # {} => Cardinality(Held \ {k}) = MaxEntries /\ Cardinality(gone) = 1
    /\ Cardinality(Held \ ({k} \cup gone)) < MaxEntries
    /\ memory' = [j \in CacheKeys |->
                     IF j = k THEN [at |-> now, value |-> v]
                     ELSE IF j \in gone THEN NoEntry ELSE memory[j]]
    /\ UNCHANGED now

Forget(k) ==
    /\ k \in Held
    /\ TTL # Forever /\ now - memory[k].at > TTL
    /\ memory' = [memory EXCEPT ![k] = NoEntry]
    /\ UNCHANGED now

Clear ==
    /\ memory' = [k \in CacheKeys |-> NoEntry]
    /\ UNCHANGED now

Pass ==
    /\ now' = now + 1
    /\ UNCHANGED memory

Next ==
    \/ \E k \in CacheKeys, v \in Values, gone \in SUBSET Held : Remember(k, v, gone)
    \/ \E k \in CacheKeys : Forget(k)
    \/ Clear
    \/ Pass

Spec == Init /\ [][Next]_memoryVars

=============================================================================
