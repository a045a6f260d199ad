---------------------------- MODULE AnswerCache ----------------------------
(***************************************************************************)
(* The bounded LRU cache of app/cache.py.  Every method does its work under*)
(* one lock, the clock included, so each call is a single step.  The cache *)
(* is enabled (MaxEntries > 0); with 0 get and put return at once.         *)
(***************************************************************************)
EXTENDS OrderedDict

CONSTANTS
    CacheKeys,      \* what normalise_question can return
    Values,         \* what is cached
    MaxEntries,     \* max_entries
    TTL,            \* ttl_seconds in ticks, or Forever
    Forever,
    NoEntry,        \* nothing is stored under a key
    MaxClock,       \* bound of the model: the last tick
    MaxLookups      \* bound of the model: calls of get()

ASSUME AnswerCacheAssumption ==
    /\ MaxEntries \in Nat \ {0}
    /\ Forever \notin Nat
    /\ NoEntry \notin [at : Nat, value : Values]
    /\ TTL \in Nat \cup {Forever}
    /\ MaxClock \in Nat /\ MaxLookups \in Nat

VARIABLES
    clock,          \* time.monotonic()
    order,          \* keys of _entries, least recently used first
    entries,        \* per key: [at, value], or NoEntry
    hits, misses,   \* the counters of CacheStats
    stored,         \* history: the last put of each key since clear()
    others          \* history: the other keys used since the key's last use

cacheVars == <<clock, order, entries, hits, misses, stored, others>>

CacheInit ==
    /\ clock = 0
    /\ order = <<>>
    /\ entries = [k \in CacheKeys |-> NoEntry]
    /\ hits = 0
    /\ misses = 0
    /\ stored = [k \in CacheKeys |-> NoEntry]
    /\ others = [k \in CacheKeys |-> {}]

\* k becomes the most recently used key.
Used(k) == [j \in CacheKeys |-> IF j = k THEN {} ELSE others[j] \cup {k}]

\* Mutated: an entry never expires.
ExpiredNever(k) == FALSE

\* `time.monotonic() - stored_at > ttl`: at exactly the TTL it is still served.
Expired(k) == TTL # Forever /\ clock - entries[k].at > TTL

-----------------------------------------------------------------------------
(* get(): three outcomes. *)

Lookup == hits + misses < MaxLookups

GetMiss(k) ==
    /\ Lookup
    /\ k \notin Keys(order)
    /\ misses' = misses + 1
    /\ UNCHANGED <<clock, order, entries, hits, stored, others>>

\* The expired entry is deleted on the way.
GetExpired(k) ==
    /\ Lookup
    /\ k \in Keys(order) /\ Expired(k)
    /\ order' = RemoveFirst(order, k)
    /\ entries' = [entries EXCEPT ![k] = NoEntry]
    /\ stored' = [stored EXCEPT ![k] = NoEntry]
    /\ misses' = misses + 1
    /\ UNCHANGED <<clock, hits, others>>

\* Mutated: a hit does not refresh the entry's place.
GetHitInPlace(k) ==
    /\ Lookup
    /\ k \in Keys(order) /\ ~Expired(k)
    /\ hits' = hits + 1
    /\ others' = Used(k)
    /\ UNCHANGED <<clock, order, entries, misses, stored>>

GetHit(k) ==
    /\ Lookup
    /\ k \in Keys(order) /\ ~Expired(k)
    /\ order' = Touch(order, k)
    /\ hits' = hits + 1
    /\ others' = Used(k)
    /\ UNCHANGED <<clock, entries, misses, stored>>

-----------------------------------------------------------------------------
(* put() and clear(). *)

\* Mutated: room is made before the key is known to be there already.
PutMakingRoom(k, v) ==
    LET kept == Touch(Newest(order, MaxEntries - 1), k)
        new == [at |-> clock, value |-> v]
    IN /\ order' = kept
       /\ entries' = [j \in CacheKeys |->
              IF j \notin Keys(kept) THEN NoEntry
              ELSE IF j = k THEN new ELSE entries[j]]
       /\ stored' = [stored EXCEPT ![k] = new]
       /\ others' = Used(k)
       /\ UNCHANGED <<clock, hits, misses>>

Put(k, v) ==
    LET kept == Newest(Touch(order, k), MaxEntries)
        new == [at |-> clock, value |-> v]
    IN /\ order' = kept
       /\ entries' = [j \in CacheKeys |->
              IF j \notin Keys(kept) THEN NoEntry
              ELSE IF j = k THEN new ELSE entries[j]]
       /\ stored' = [stored EXCEPT ![k] = new]
       /\ others' = Used(k)
       /\ UNCHANGED <<clock, hits, misses>>

\* Counters are kept.
Clear ==
    /\ order # <<>>
    /\ order' = <<>>
    /\ entries' = [k \in CacheKeys |-> NoEntry]
    /\ stored' = [k \in CacheKeys |-> NoEntry]
    /\ UNCHANGED <<clock, hits, misses, others>>

CacheTick ==
    /\ clock < MaxClock
    /\ clock' = clock + 1
    /\ UNCHANGED <<order, entries, hits, misses, stored, others>>

CacheNext ==
    \/ \E k \in CacheKeys : GetMiss(k) \/ GetExpired(k) \/ GetHit(k)
    \/ \E k \in CacheKeys, v \in Values : Put(k, v)
    \/ Clear
    \/ CacheTick

CacheSpec == CacheInit /\ [][CacheNext]_cacheVars

-----------------------------------------------------------------------------
(* Properties. *)

Entry == [at : 0..MaxClock, value : Values]

\* Type invariant of the cache: a key is in the order once at most, and exactly
\* when it has an entry.
CacheTypeOK ==
    /\ clock \in 0..MaxClock
    /\ order \in Seq(CacheKeys) /\ Distinct(order)
    /\ entries \in [CacheKeys -> Entry \cup {NoEntry}]
    /\ \A k \in CacheKeys : k \in Keys(order) <=> entries[k] # NoEntry
    /\ hits \in Nat /\ misses \in Nat
    /\ stored \in [CacheKeys -> Entry \cup {NoEntry}]
    /\ others \in [CacheKeys -> SUBSET CacheKeys]

\* The cache never holds more than max_entries answers.
CapacityBound == Len(order) <= MaxEntries

\* Eviction takes the least recently used: a key that was stored, has not been
\* dropped for its age and has seen fewer than max_entries other keys used
\* since its own last use is still in the cache.
KeepsRecent ==
    \A k \in CacheKeys :
        (stored[k] # NoEntry /\ Cardinality(others[k]) < MaxEntries)
            => k \in Keys(order)

Memory == INSTANCE AbstractCache WITH now <- clock, memory <- entries

\* The cache implements AbstractCache: however lookups, puts and expiries of
\* several threads follow each other, an answer is lost only to its age, to
\* clear(), or to a new key in a full cache, which never costs a second one.
Remembers == Memory!Spec

\* Whatever get() returns is what the last put() stored under the key, and is
\* no older than the TTL.
HitIsLatest ==
    [][\A k \in CacheKeys :
          (hits' = hits + 1 /\ others' = Used(k))
             => /\ stored[k] # NoEntry
                /\ entries[k] = stored[k]
                /\ TTL # Forever => clock - stored[k].at <= TTL]_cacheVars

=============================================================================
