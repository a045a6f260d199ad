------------------------- MODULE AnswerCache_proofs -------------------------
(***************************************************************************)
(* Capacity and eviction of the answer cache, for every capacity, TTL and  *)
(* set of keys.  KeepsRecent is not inductive: the invariant adds that the *)
(* order of the keys is the order of their last uses (Recency), and that   *)
(* the history sets are finite, so that they can be counted.               *)
(***************************************************************************)
EXTENDS AnswerCache, OrderedDict_proofs

Inv ==
    /\ CacheTypeOK
    /\ CapacityBound
    /\ \A k \in CacheKeys : IsFiniteSet(others[k])
    /\ Recency(order, others)
    /\ KeepsRecent

LEMMA InitInv == CacheInit => Inv
<1> SUFFICES ASSUME CacheInit PROVE Inv
  OBVIOUS
<1> USE AnswerCacheAssumption DEF CacheInit
<1>1. CacheTypeOK
  <2>1. <<>> \in Seq(CacheKeys) /\ Distinct(<<>>) /\ Keys(<<>>) = {}
    BY DEF Distinct, IsInjective, Keys, ToSet
  <2> QED
    BY <2>1 DEF CacheTypeOK
<1>2. CapacityBound
  BY DEF CapacityBound
<1>3. \A k \in CacheKeys : IsFiniteSet(others[k])
  BY FS_EmptySet
<1>4. Recency(order, others)
  BY DEF Recency
<1>5. KeepsRecent
  BY DEF KeepsRecent
<1> QED
  BY <1>1, <1>2, <1>3, <1>4, <1>5 DEF Inv

\* What using a key does to the history of the others.
LEMMA UsedProperties ==
    ASSUME Inv, NEW k \in CacheKeys
    PROVE  /\ Used(k) \in [CacheKeys -> SUBSET CacheKeys]
           /\ \A j \in CacheKeys : IsFiniteSet(Used(k)[j])
           /\ Used(k)[k] = {}
           /\ \A j \in CacheKeys : j # k => Used(k)[j] = others[j] \cup {k}
           /\ \A j \in CacheKeys : j # k =>
                 Cardinality(others[j]) <= Cardinality(Used(k)[j])
<1>1. others \in [CacheKeys -> SUBSET CacheKeys]
  BY DEF Inv, CacheTypeOK
<1>2. /\ Used(k) \in [CacheKeys -> SUBSET CacheKeys]
      /\ Used(k)[k] = {}
      /\ \A j \in CacheKeys : j # k => Used(k)[j] = others[j] \cup {k}
  BY <1>1 DEF Used
<1>3. ASSUME NEW j \in CacheKeys
      PROVE  IsFiniteSet(Used(k)[j])
  <2>1. CASE j = k
    BY <1>2, <2>1, FS_EmptySet
  <2>2. CASE j # k
    <3>1. IsFiniteSet(others[j])
      BY DEF Inv
    <3> QED
      BY <1>2, <2>2, <3>1, FS_AddElement
  <2> QED
    BY <2>1, <2>2
<1>4. ASSUME NEW j \in CacheKeys, j # k
      PROVE  Cardinality(others[j]) <= Cardinality(Used(k)[j])
  <2>1. others[j] \subseteq Used(k)[j]
    BY <1>2, <1>4
  <2> QED
    BY <1>3, <2>1, FS_Subset
<1> QED
  BY <1>2, <1>3, <1>4

LEMMA GetHitInv ==
    ASSUME Inv, NEW k \in CacheKeys, GetHit(k)
    PROVE  Inv'
<1>1. /\ order \in Seq(CacheKeys) /\ Distinct(order)
      /\ others \in [CacheKeys -> SUBSET CacheKeys]
      /\ hits \in Nat /\ Len(order) <= MaxEntries
  BY DEF Inv, CacheTypeOK, CapacityBound
<1>2. /\ k \in Keys(order) /\ order' = Touch(order, k) /\ others' = Used(k)
      /\ hits' = hits + 1
      /\ UNCHANGED <<clock, entries, misses, stored>>
  BY DEF GetHit
<1>3. /\ order' \in Seq(CacheKeys) /\ Distinct(order')
      /\ Keys(order') = Keys(order)
      /\ Len(order') = Len(order)
  <2>1. /\ Touch(order, k) \in Seq(CacheKeys) /\ Distinct(Touch(order, k))
        /\ Keys(Touch(order, k)) = Keys(order) \cup {k}
        /\ Len(Touch(order, k)) = Len(order)
    BY <1>1, <1>2, TouchProperties
  <2> QED
    BY <1>2, <2>1
<1>4. /\ others' \in [CacheKeys -> SUBSET CacheKeys]
      /\ \A j \in CacheKeys : IsFiniteSet(others'[j])
      /\ \A j \in CacheKeys : j # k => others'[j] = others[j] \cup {k}
      /\ \A j \in CacheKeys : j # k =>
            Cardinality(others[j]) <= Cardinality(others'[j])
  BY <1>2, UsedProperties
<1>5. CacheTypeOK'
  BY <1>1, <1>2, <1>3, <1>4 DEF Inv, CacheTypeOK
<1>6. CapacityBound'
  BY <1>1, <1>3 DEF CapacityBound
<1>7. Recency(order', others')
  <2>1. Recency(order, others)
    BY DEF Inv
  <2>2. Recency(Touch(order, k), others')
    BY <1>1, <1>4, <2>1, TouchRecency
  <2> QED
    BY <1>2, <2>2
<1>8. KeepsRecent'
  <2> SUFFICES ASSUME NEW j \in CacheKeys, stored[j] # NoEntry,
                      Cardinality(others'[j]) < MaxEntries, j # k
               PROVE  j \in Keys(order)
    BY <1>2, <1>3 DEF KeepsRecent
  <2>1. IsFiniteSet(others[j]) /\ IsFiniteSet(others'[j])
    BY <1>4 DEF Inv
  <2>2. Cardinality(others[j]) \in Nat /\ Cardinality(others'[j]) \in Nat
    BY <2>1, FS_CardinalityType
  <2>3. Cardinality(others[j]) < MaxEntries
    BY <1>4, <2>2, AnswerCacheAssumption
  <2> QED
    BY <2>3 DEF Inv, KeepsRecent
<1> QED
  BY <1>4, <1>5, <1>6, <1>7, <1>8 DEF Inv

LEMMA GetExpiredInv ==
    ASSUME Inv, NEW k \in CacheKeys, GetExpired(k)
    PROVE  Inv'
<1>1. /\ order \in Seq(CacheKeys) /\ Distinct(order)
      /\ others \in [CacheKeys -> SUBSET CacheKeys]
      /\ misses \in Nat /\ Len(order) <= MaxEntries
  BY DEF Inv, CacheTypeOK, CapacityBound
<1>2. /\ order' = RemoveFirst(order, k)
      /\ entries' = [entries EXCEPT ![k] = NoEntry]
      /\ stored' = [stored EXCEPT ![k] = NoEntry]
      /\ misses' = misses + 1
      /\ UNCHANGED <<clock, hits, others>>
  BY DEF GetExpired
<1>3. /\ RemoveFirst(order, k) \in Seq(CacheKeys)
      /\ Distinct(RemoveFirst(order, k))
      /\ Keys(RemoveFirst(order, k)) = Keys(order) \ {k}
      /\ Len(RemoveFirst(order, k)) <= Len(order)
  <2>1. Len(order) \in Nat
    BY <1>1, LenProperties
  <2> QED
    BY <1>1, <2>1, RemoveProperties
<1>4. CacheTypeOK'
  BY <1>1, <1>2, <1>3 DEF Inv, CacheTypeOK
<1>5. CapacityBound'
  <2>1. Len(order) \in Nat /\ Len(RemoveFirst(order, k)) \in Nat
    BY <1>1, <1>3, LenProperties
  <2> QED
    BY <1>1, <1>2, <1>3, <2>1, AnswerCacheAssumption DEF CapacityBound
<1>6. Recency(order', others')
  <2>1. Recency(order, others)
    BY DEF Inv
  <2>2. Recency(RemoveFirst(order, k), others)
    BY <1>1, <2>1, RemoveRecency
  <2> QED
    BY <1>2, <2>2
<1>7. KeepsRecent'
  <2> SUFFICES ASSUME NEW j \in CacheKeys, stored'[j] # NoEntry,
                      Cardinality(others[j]) < MaxEntries
               PROVE  j \in Keys(order')
    BY <1>2 DEF KeepsRecent
  <2>1. j # k /\ stored[j] # NoEntry
    BY <1>2 DEF Inv, CacheTypeOK
  <2>2. j \in Keys(order)
    BY <2>1 DEF Inv, KeepsRecent
  <2> QED
    BY <1>2, <1>3, <2>1, <2>2
<1> QED
  BY <1>2, <1>4, <1>5, <1>6, <1>7 DEF Inv

LEMMA GetMissInv ==
    ASSUME Inv, NEW k \in CacheKeys, GetMiss(k)
    PROVE  Inv'
<1>1. /\ misses' = misses + 1
      /\ UNCHANGED <<clock, order, entries, hits, stored, others>>
  BY DEF GetMiss
<1>2. CacheTypeOK'
  BY <1>1 DEF Inv, CacheTypeOK
<1> QED
  BY <1>1, <1>2 DEF Inv, CapacityBound, KeepsRecent

\* What put() writes: the key is appended, and the oldest keys are dropped.
LEMMA PutInv ==
    ASSUME Inv, NEW k \in CacheKeys, NEW v \in Values, Put(k, v)
    PROVE  Inv'
<1> DEFINE touched == Touch(order, k)
           kept == Newest(touched, MaxEntries)
           new == [at |-> clock, value |-> v]
<1>1. /\ clock \in 0..MaxClock /\ MaxClock \in Nat
      /\ order \in Seq(CacheKeys) /\ Distinct(order)
      /\ entries \in [CacheKeys -> Entry \cup {NoEntry}]
      /\ stored \in [CacheKeys -> Entry \cup {NoEntry}]
      /\ others \in [CacheKeys -> SUBSET CacheKeys]
      /\ MaxEntries \in Nat \ {0}
  BY AnswerCacheAssumption DEF Inv, CacheTypeOK
<1>2. /\ order' = kept
      /\ entries' = [j \in CacheKeys |->
             IF j \notin Keys(kept) THEN NoEntry
             ELSE IF j = k THEN new ELSE entries[j]]
      /\ stored' = [stored EXCEPT ![k] = new]
      /\ others' = Used(k)
      /\ UNCHANGED <<clock, hits, misses>>
  BY DEF Put
<1>3. /\ touched \in Seq(CacheKeys) /\ Distinct(touched)
      /\ Keys(touched) = Keys(order) \cup {k}
      /\ Len(touched) > 0 /\ touched[Len(touched)] = k
  BY <1>1, TouchProperties
<1>4. /\ others' \in [CacheKeys -> SUBSET CacheKeys]
      /\ \A j \in CacheKeys : IsFiniteSet(others'[j])
      /\ \A j \in CacheKeys : j # k => others'[j] = others[j] \cup {k}
      /\ \A j \in CacheKeys : j # k =>
            Cardinality(others[j]) <= Cardinality(others'[j])
  BY <1>2, UsedProperties
<1>5. Recency(touched, others')
  <2>1. Recency(order, others)
    BY DEF Inv
  <2> QED
    BY <1>1, <1>4, <2>1, TouchRecency
<1> HIDE DEF touched
<1>6. /\ kept \in Seq(CacheKeys) /\ Distinct(kept)
      /\ Keys(kept) \subseteq Keys(touched)
      /\ Len(kept) <= MaxEntries
      /\ k \in Keys(kept)
  BY <1>1, <1>3, NewestProperties
<1>7. /\ Recency(kept, others')
      /\ \A j \in Keys(touched) \ Keys(kept) : Cardinality(others'[j]) >= MaxEntries
  BY <1>1, <1>3, <1>4, <1>5, NewestRecency
<1> HIDE DEF kept
<1>8. new \in Entry /\ new # NoEntry
  BY <1>1, AnswerCacheAssumption DEF Entry
<1> HIDE DEF new
<1>9. CacheTypeOK'
  <2>1. entries' \in [CacheKeys -> Entry \cup {NoEntry}]
    BY <1>1, <1>2, <1>8
  <2>2. \A j \in CacheKeys : j \in Keys(order') <=> entries'[j] # NoEntry
    BY <1>2, <1>3, <1>6, <1>8 DEF Inv, CacheTypeOK
  <2>3. stored' \in [CacheKeys -> Entry \cup {NoEntry}]
    BY <1>1, <1>2, <1>8
  <2> QED
    BY <1>1, <1>2, <1>4, <1>6, <2>1, <2>2, <2>3 DEF Inv, CacheTypeOK, Entry
<1>10. CapacityBound'
  BY <1>2, <1>6 DEF CapacityBound
<1>11. KeepsRecent'
  <2> SUFFICES ASSUME NEW j \in CacheKeys, stored'[j] # NoEntry,
                      Cardinality(others'[j]) < MaxEntries, j # k
               PROVE  j \in Keys(kept)
    BY <1>2, <1>6 DEF KeepsRecent
  <2>1. Cardinality(others[j]) \in Nat /\ Cardinality(others'[j]) \in Nat
    <3>1. IsFiniteSet(others[j]) /\ IsFiniteSet(others'[j])
      BY <1>4 DEF Inv
    <3> QED
      BY <3>1, FS_CardinalityType
  <2>2. stored[j] # NoEntry
    BY <1>1, <1>2
  <2>3. Cardinality(others[j]) < MaxEntries
    BY <1>1, <1>4, <2>1
  <2>4. j \in Keys(touched)
    BY <1>3, <2>2, <2>3 DEF Inv, KeepsRecent
  <2>5. CASE j \notin Keys(kept)
    BY <1>1, <1>7, <2>1, <2>4, <2>5
  <2> QED
    BY <2>5
<1> QED
  BY <1>2, <1>4, <1>7, <1>9, <1>10, <1>11 DEF Inv

LEMMA ClearInv ==
    ASSUME Inv, Clear
    PROVE  Inv'
<1>1. /\ order' = <<>>
      /\ entries' = [k \in CacheKeys |-> NoEntry]
      /\ stored' = [k \in CacheKeys |-> NoEntry]
      /\ UNCHANGED <<clock, hits, misses, others>>
  BY DEF Clear
<1>2. <<>> \in Seq(CacheKeys) /\ Distinct(<<>>) /\ Keys(<<>>) = {} /\ Len(<<>>) = 0
  BY DEF Distinct, IsInjective, Keys, ToSet
<1>3. CacheTypeOK'
  BY <1>1, <1>2 DEF Inv, CacheTypeOK
<1>4. CapacityBound' /\ KeepsRecent' /\ Recency(order', others')
  BY <1>1, <1>2, AnswerCacheAssumption DEF CapacityBound, KeepsRecent, Recency
<1> QED
  BY <1>1, <1>3, <1>4 DEF Inv

LEMMA TickInv ==
    ASSUME Inv, CacheTick
    PROVE  Inv'
<1>1. /\ clock < MaxClock /\ clock' = clock + 1
      /\ UNCHANGED <<order, entries, hits, misses, stored, others>>
  BY DEF CacheTick
<1>2. CacheTypeOK'
  BY <1>1, AnswerCacheAssumption DEF Inv, CacheTypeOK, Entry
<1> QED
  BY <1>1, <1>2 DEF Inv, CapacityBound, KeepsRecent

LEMMA NextInv ==
    ASSUME Inv, [CacheNext]_cacheVars
    PROVE  Inv'
<1>1. CASE \E k \in CacheKeys : GetMiss(k) \/ GetExpired(k) \/ GetHit(k)
  BY <1>1, GetMissInv, GetExpiredInv, GetHitInv
<1>2. CASE \E k \in CacheKeys, v \in Values : Put(k, v)
  BY <1>2, PutInv
<1>3. CASE Clear
  BY <1>3, ClearInv
<1>4. CASE CacheTick
  BY <1>4, TickInv
<1>5. CASE UNCHANGED cacheVars
  BY <1>5 DEF Inv, CacheTypeOK, CapacityBound, KeepsRecent, Entry, cacheVars
<1> QED
  BY <1>1, <1>2, <1>3, <1>4, <1>5 DEF CacheNext

\* The strengthened invariant holds in every reachable state.
THEOREM InvHolds == CacheSpec => []Inv
<1> QED
  BY InitInv, NextInv, PTL DEF CacheSpec

\* Every reachable state of the cache is well typed.
THEOREM CacheTypeCorrect == CacheSpec => []CacheTypeOK
<1>1. Inv => CacheTypeOK
  BY DEF Inv
<1> QED
  BY <1>1, InvHolds, PTL

\* The cache never outgrows max_entries.
THEOREM CapacityIsBounded == CacheSpec => []CapacityBound
<1>1. Inv => CapacityBound
  BY DEF Inv
<1> QED
  BY <1>1, InvHolds, PTL

\* Eviction drops only keys that max_entries other keys have overtaken.
THEOREM RecentIsKept == CacheSpec => []KeepsRecent
<1>1. Inv => KeepsRecent
  BY DEF Inv
<1> QED
  BY <1>1, InvHolds, PTL

-----------------------------------------------------------------------------
(* The cache as a memory.  An entry that is in the cache is the one put last,   *)
(* and as many keys are held as the order is long.                              *)

AsStored == \A k \in Keys(order) : entries[k] = stored[k]

LEMMA AsStoredStep ==
    ASSUME Inv, AsStored, [CacheNext]_cacheVars
    PROVE  AsStored'
<1>1. /\ order \in Seq(CacheKeys) /\ Distinct(order)
      /\ entries \in [CacheKeys -> Entry \cup {NoEntry}]
      /\ stored \in [CacheKeys -> Entry \cup {NoEntry}]
      /\ Keys(order) \subseteq CacheKeys
  BY OrderFacts DEF Inv, CacheTypeOK
<1>2. ASSUME NEW k \in CacheKeys, GetMiss(k)
      PROVE  AsStored'
  BY <1>2 DEF GetMiss, AsStored
<1>3. ASSUME NEW k \in CacheKeys, GetExpired(k)
      PROVE  AsStored'
  <2>1. Keys(RemoveFirst(order, k)) = Keys(order) \ {k}
    BY <1>1, RemoveProperties
  <2> QED
    BY <1>1, <1>3, <2>1 DEF GetExpired, AsStored
<1>4. ASSUME NEW k \in CacheKeys, GetHit(k)
      PROVE  AsStored'
  <2>1. Keys(Touch(order, k)) = Keys(order) \cup {k}
    BY <1>1, TouchProperties
  <2>2. Keys(order') = Keys(order) /\ UNCHANGED <<entries, stored>>
    BY <1>4, <2>1 DEF GetHit
  <2> QED
    BY <2>2 DEF AsStored
<1>5. ASSUME NEW k \in CacheKeys, NEW v \in Values, Put(k, v)
      PROVE  AsStored'
  <2> DEFINE kept == Newest(Touch(order, k), MaxEntries)
             new == [at |-> clock, value |-> v]
  <2>1. /\ Touch(order, k) \in Seq(CacheKeys) /\ Distinct(Touch(order, k))
        /\ Len(Touch(order, k)) > 0
        /\ Keys(Touch(order, k)) = Keys(order) \cup {k}
    BY <1>1, TouchProperties
  <2>2. Keys(kept) \subseteq Keys(order) \cup {k}
    BY <2>1, NewestProperties, AnswerCacheAssumption
  <2> HIDE DEF kept
  <2>3. /\ order' = kept
        /\ entries' = [j \in CacheKeys |->
               IF j \notin Keys(kept) THEN NoEntry
               ELSE IF j = k THEN new ELSE entries[j]]
        /\ stored' = [stored EXCEPT ![k] = new]
    BY <1>5 DEF Put, kept
  <2> HIDE DEF new
  <2> QED
    BY <1>1, <2>2, <2>3 DEF AsStored
<1>6. ASSUME Clear
      PROVE  AsStored'
  <2>1. Keys(<<>>) = {}
    BY DEF Keys, ToSet
  <2> QED
    BY <1>6, <2>1 DEF Clear, AsStored
<1>7. ASSUME CacheTick \/ UNCHANGED cacheVars
      PROVE  AsStored'
  BY <1>7 DEF CacheTick, cacheVars, AsStored
<1> QED
  BY <1>2, <1>3, <1>4, <1>5, <1>6, <1>7 DEF CacheNext

LEMMA AsStoredHolds == CacheSpec => [](Inv /\ AsStored)
<1>1. CacheInit => AsStored
  BY DEF CacheInit, AsStored, Keys, ToSet
<1> QED
  BY <1>1, InvHolds, AsStoredStep, PTL DEF CacheSpec

\* What a hit returns is the last answer put under the key, and not too old.
THEOREM HitIsAlwaysLatest == CacheSpec => HitIsLatest
<1> DEFINE Hits(k) == hits' = hits + 1 /\ others' = Used(k)
           Latest(k) == /\ stored[k] # NoEntry
                        /\ entries[k] = stored[k]
                        /\ TTL # Forever => clock - stored[k].at <= TTL
<1>1. ASSUME Inv, AsStored, CacheNext, NEW k \in CacheKeys, Hits(k)
      PROVE  Latest(k)
  <2>1. hits \in Nat /\ others \in [CacheKeys -> SUBSET CacheKeys]
    BY <1>1 DEF Inv, CacheTypeOK
  <2>2. PICK j \in CacheKeys : GetHit(j)
    BY <1>1, <2>1 DEF CacheNext, GetMiss, GetExpired, Put, Clear, CacheTick
  <2>3. j = k
    BY <1>1, <2>1, <2>2 DEF GetHit, Used
  <2>4. k \in Keys(order) /\ ~Expired(k)
    BY <2>2, <2>3 DEF GetHit
  <2>5. stored[k] = entries[k] /\ entries[k] \in Entry
    BY <1>1, <2>4 DEF AsStored, Inv, CacheTypeOK
  <2>6. TTL # Forever => clock - entries[k].at <= TTL
    <3>1. clock \in Nat /\ entries[k].at \in Nat
      BY <1>1, <2>5, AnswerCacheAssumption DEF Inv, CacheTypeOK, Entry
    <3> QED
      BY <2>4, <3>1, AnswerCacheAssumption DEF Expired
  <2>7. stored[k] # NoEntry
    BY <2>5, AnswerCacheAssumption DEF Entry
  <2> QED
    BY <2>5, <2>6, <2>7
<1>2. ASSUME Inv, AsStored, [CacheNext]_cacheVars
      PROVE  [\A k \in CacheKeys : Hits(k) => Latest(k)]_cacheVars
  BY <1>1, <1>2
<1> QED
  BY <1>2, AsStoredHolds, PTL DEF HitIsLatest, CacheSpec

\* A sequence without repetition has as many members as its length.
LEMMA KeysCounted ==
    ASSUME NEW S, NEW s \in Seq(S), Distinct(s)
    PROVE  IsFiniteSet(Keys(s)) /\ Cardinality(Keys(s)) = Len(s)
<1>1. Len(s) \in Nat /\ s \in [1..Len(s) -> S]
  OBVIOUS
<1>2. s \in Bijection(1..Len(s), Keys(s))
  <2>1. s \in [1..Len(s) -> Keys(s)]
    BY <1>1, OrderFacts
  <2>2. IsInjective(s)
    BY DEF Distinct
  <2>3. \A x \in Keys(s) : \E i \in 1..Len(s) : s[i] = x
    BY OrderFacts
  <2> QED
    BY <2>1, <2>2, <2>3 DEF Bijection, Injection, Surjection
<1>3. IsFiniteSet(1..Len(s)) /\ Cardinality(1..Len(s)) = Len(s)
  BY <1>1, FS_Interval
<1> QED
  BY <1>2, <1>3, FS_Bijection DEF ExistsBijection

\* The instance counts like everybody else.
LEMMA SameCount == \A S : Memory!Cardinality(S) = Cardinality(S)
BY DEF Memory!Cardinality, Cardinality

\* Putting an answer is remembering it, at the cost of the key that is dropped.
LEMMA PutRemembers ==
    ASSUME Inv, NEW k \in CacheKeys, NEW v \in Values, Put(k, v)
    PROVE  \E gone \in SUBSET Memory!Held : Memory!Remember(k, v, gone)
<1> DEFINE rest == RemoveFirst(order, k)
           touched == Touch(order, k)
           kept == Newest(touched, MaxEntries)
           new == [at |-> clock, value |-> v]
           gone == Keys(touched) \ Keys(kept)
<1>1. /\ order \in Seq(CacheKeys) /\ Distinct(order) /\ Len(order) <= MaxEntries
      /\ Len(order) \in Nat /\ MaxEntries \in Nat \ {0}
      /\ entries \in [CacheKeys -> Entry \cup {NoEntry}]
      /\ Keys(order) \subseteq CacheKeys
      /\ Memory!Held = Keys(order)
  BY AnswerCacheAssumption, OrderFacts DEF Inv, CacheTypeOK, CapacityBound, Memory!Held
<1>2. /\ rest \in Seq(CacheKeys) /\ Distinct(rest)
      /\ Keys(rest) = Keys(order) \ {k}
      /\ Len(rest) \in Nat
      /\ Len(rest) = IF k \in Keys(order) THEN Len(order) - 1 ELSE Len(order)
  <2>1. /\ rest \in Seq(CacheKeys) /\ Distinct(rest)
        /\ Keys(rest) = Keys(order) \ {k}
        /\ Len(rest) = IF k \in Keys(order) THEN Len(order) - 1 ELSE Len(order)
    <3>1. order \in Seq(CacheKeys) /\ Distinct(order)
      BY <1>1
    <3> QED
      BY <3>1, RemoveProperties
  <2> HIDE DEF rest
  <2>2. Len(rest) \in Nat
    BY <2>1, LenProperties
  <2> QED
    BY <2>1, <2>2
<1>3. /\ touched \in Seq(CacheKeys) /\ Distinct(touched)
      /\ Keys(touched) = Keys(order) \cup {k}
      /\ Len(touched) = Len(rest) + 1 /\ touched[Len(touched)] = k
  <2>1. /\ touched \in Seq(CacheKeys) /\ Distinct(touched)
        /\ Keys(touched) = Keys(order) \cup {k}
        /\ Len(touched) = IF k \in Keys(order) THEN Len(order) ELSE Len(order) + 1
        /\ touched[Len(touched)] = k
    <3>1. order \in Seq(CacheKeys) /\ Distinct(order)
      BY <1>1
    <3> QED
      BY <3>1, TouchProperties
  <2> HIDE DEF rest, touched
  <2> QED
    BY <1>1, <1>2, <2>1
<1>4. /\ IsFiniteSet(Keys(rest)) /\ Cardinality(Keys(rest)) = Len(rest)
      /\ IsFiniteSet(Keys(touched)) /\ Cardinality(Keys(touched)) = Len(touched)
  BY <1>2, <1>3, KeysCounted
<1>5. /\ order' = kept
      /\ entries' = [j \in CacheKeys |->
             IF j \notin Keys(kept) THEN NoEntry
             ELSE IF j = k THEN new ELSE entries[j]]
      /\ UNCHANGED clock
  BY DEF Put
<1>6. Len(touched) > MaxEntries \/ kept = touched
  BY <1>1, <1>2, <1>3 DEF Newest
<1> HIDE DEF rest, touched
<1>7. /\ kept \in Seq(CacheKeys) /\ Distinct(kept)
      /\ Keys(kept) \subseteq Keys(touched) /\ k \in Keys(kept)
      /\ Len(touched) > MaxEntries => Len(kept) = MaxEntries
  BY <1>1, <1>2, <1>3, NewestProperties
<1> HIDE DEF kept, new
<1>8. /\ IsFiniteSet(Keys(kept)) /\ Cardinality(Keys(kept)) = Len(kept)
      /\ Len(kept) \in Nat
  BY <1>7, KeysCounted
<1>9. gone \subseteq Keys(order) \ {k}
  BY <1>3, <1>7
<1>10. Keys(order) \ ({k} \cup gone) = Keys(kept) \ {k}
  BY <1>3, <1>7
<1>11. gone # {} => /\ Cardinality(Keys(order) \ {k}) = MaxEntries
                   /\ Cardinality(gone) = 1
  <2> SUFFICES ASSUME gone # {}
               PROVE  /\ Cardinality(Keys(order) \ {k}) = MaxEntries
                      /\ Cardinality(gone) = 1
    OBVIOUS
  <2>1. Len(touched) > MaxEntries /\ Len(kept) = MaxEntries
    BY <1>6, <1>7
  <2>2. Len(rest) = MaxEntries /\ Len(touched) = MaxEntries + 1
    BY <1>1, <1>2, <1>3, <2>1
  <2>3. Cardinality(gone) = Cardinality(Keys(touched)) - Cardinality(Keys(kept))
    <3>1. Keys(touched) \cap Keys(kept) = Keys(kept)
      BY <1>7
    <3>2. Cardinality(Keys(touched) \ Keys(kept))
             = Cardinality(Keys(touched)) - Cardinality(Keys(touched) \cap Keys(kept))
      BY <1>4, FS_Difference
    <3> QED
      BY <3>1, <3>2
  <2> QED
    BY <1>1, <1>2, <1>4, <1>8, <2>1, <2>2, <2>3
<1>12. Cardinality(Keys(order) \ ({k} \cup gone)) < MaxEntries
  <2>1. Cardinality(Keys(kept) \ {k}) = Len(kept) - 1
    BY <1>7, <1>8, FS_RemoveElement
  <2>2. Len(kept) <= MaxEntries
    BY <1>1, <1>2, <1>3, <1>6, <1>7
  <2>3. Len(kept) - 1 < MaxEntries
    BY <1>1, <1>8, <2>2
  <2> HIDE DEF gone
  <2> QED
    BY <1>10, <2>1, <2>3
<1>13. entries' = [j \in CacheKeys |->
                     IF j = k THEN new ELSE IF j \in gone THEN NoEntry ELSE entries[j]]
  <2>1. \A j \in CacheKeys : j \notin Keys(order) => entries[j] = NoEntry
    BY DEF Inv, CacheTypeOK
  <2> SUFFICES ASSUME NEW j \in CacheKeys
               PROVE  entries'[j] = IF j = k THEN new
                                    ELSE IF j \in gone THEN NoEntry ELSE entries[j]
    BY <1>5
  <2>2. CASE j = k
    BY <1>5, <1>7, <2>2
  <2>3. CASE j # k /\ j \in Keys(kept)
    BY <1>5, <2>3
  <2>4. CASE j # k /\ j \notin Keys(kept)
    BY <1>3, <1>5, <2>1, <2>4
  <2> QED
    BY <2>2, <2>3, <2>4
<1>14. gone \in SUBSET Memory!Held
  BY <1>1, <1>9
<1> HIDE DEF gone
<1>15. Memory!Remember(k, v, gone)
  BY <1>1, <1>5, <1>9, <1>11, <1>12, <1>13, SameCount DEF Memory!Remember, new
<1> QED
  BY <1>14, <1>15

\* Every step of the cache is one of the memory, or none of its business.
LEMMA CacheStepRefines ==
    ASSUME Inv, [CacheNext]_cacheVars
    PROVE  [Memory!Next]_(Memory!memoryVars)
<1> USE DEF Memory!memoryVars
<1>1. ASSUME NEW k \in CacheKeys, GetMiss(k) \/ GetHit(k)
      PROVE  UNCHANGED <<clock, entries>>
  BY <1>1 DEF GetMiss, GetHit
<1>2. ASSUME NEW k \in CacheKeys, GetExpired(k)
      PROVE  Memory!Next
  <2>1. k \in Memory!Held
    BY <1>2 DEF GetExpired, Inv, CacheTypeOK, Memory!Held
  <2>2. Memory!Forget(k)
    BY <1>2, <2>1 DEF GetExpired, Expired, Memory!Forget
  <2> QED
    BY <2>2 DEF Memory!Next
<1>3. ASSUME NEW k \in CacheKeys, NEW v \in Values, Put(k, v)
      PROVE  Memory!Next
  BY <1>3, PutRemembers DEF Memory!Next
<1>4. ASSUME Clear
      PROVE  Memory!Next
  BY <1>4 DEF Clear, Memory!Clear, Memory!Next
<1>5. ASSUME CacheTick
      PROVE  Memory!Next
  BY <1>5 DEF CacheTick, Memory!Pass, Memory!Next
<1>6. CASE UNCHANGED cacheVars
  BY <1>6 DEF cacheVars
<1> QED
  BY <1>1, <1>2, <1>3, <1>4, <1>5, <1>6 DEF CacheNext

\* The cache implements the abstract memory.
THEOREM CacheRemembers == CacheSpec => Remembers
<1>1. CacheInit => Memory!Init
  BY DEF CacheInit, Memory!Init
<1> QED
  BY <1>1, InvHolds, CacheStepRefines, PTL DEF CacheSpec, Remembers, Memory!Spec

=============================================================================
