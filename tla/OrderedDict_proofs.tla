------------------------- MODULE OrderedDict_proofs -------------------------
(* Facts about the order of keys, and the least-number principle, that the *)
(* proofs about the limiter and the caches cite.                           *)
EXTENDS OrderedDict, SequenceTheorems, FiniteSetTheorems, WellFoundedInduction,
        TLAPS

\* A non-empty set of naturals has a least element.  It carries the arguments
\* about loops that stop at the first element they find.
THEOREM LeastNatural ==
    ASSUME NEW T, T \subseteq Nat, T # {}
    PROVE  \E x \in T : \A y \in T : x <= y
<1> DEFINE R == {ss \in Nat \X Nat : ss[1] < ss[2]}
<1>1. IsWellFoundedOn(R, Nat)
  BY NatLessThanWellFounded DEF OpToRel
<1>2. PICK x \in T : \A y \in T : ~ (<<y, x>> \in R)
  <2> HIDE DEF R
  <2> QED
    BY <1>1, WFMin
<1>3. ASSUME NEW y \in T
      PROVE  x <= y
  <2>1. x \in Nat /\ y \in Nat
    OBVIOUS
  <2>2. y < x => <<y, x>> \in R
    BY <2>1
  <2> QED
    BY <1>2, <2>1, <2>2
<1> QED
  BY <1>3

\* The two notions the order of keys is described by, over positions.
LEMMA OrderFacts ==
    ASSUME NEW S, NEW order \in Seq(S)
    PROVE  /\ \A i \in 1..Len(order) : order[i] \in Keys(order) /\ order[i] \in S
           /\ \A x \in Keys(order) : \E i \in 1..Len(order) : order[i] = x
           /\ Distinct(order) <=>
                 \A i, j \in 1..Len(order) : order[i] = order[j] => i = j
<1>1. DOMAIN order = 1..Len(order)
  OBVIOUS
<1> QED
  BY <1>1, ElementOfSeq DEF Keys, ToSet, Distinct, IsInjective

\* Deleting a key leaves the others in their order: `del od[key]`.
THEOREM RemoveProperties ==
    ASSUME NEW S, NEW order \in Seq(S), NEW key \in S, Distinct(order)
    PROVE  LET rest == RemoveFirst(order, key)
           IN /\ rest \in Seq(S)
              /\ Distinct(rest)
              /\ Keys(rest) = Keys(order) \ {key}
              /\ Len(rest) = IF key \in Keys(order) THEN Len(order) - 1 ELSE Len(order)
              /\ \A i, j \in 1..Len(rest) : i < j =>
                    \E a, b \in 1..Len(order) :
                        a < b /\ order[a] = rest[i] /\ order[b] = rest[j]
<1>1. CASE key \notin Keys(order)
  <2>1. ~ \E i \in 1..Len(order) : order[i] = key
    BY <1>1 DEF Keys, ToSet
  <2>2. RemoveFirst(order, key) = order
    BY <2>1 DEF RemoveFirst, SelectInSeq, Min
  <2> QED
    BY <1>1, <2>2
<1>2. CASE key \in Keys(order)
  <2>1. PICK k \in 1..Len(order) : order[k] = key
    BY <1>2 DEF Keys, ToSet
  <2>2. {i \in 1..Len(order) : order[i] = key} = {k}
    BY <2>1 DEF Distinct, IsInjective
  <2>3. SelectInSeq(order, LAMBDA v : v = key) = k
    BY <2>1, <2>2 DEF SelectInSeq, Min
  <2> DEFINE front == SubSeq(order, 1, k - 1)
             back == SubSeq(order, k + 1, Len(order))
             rest == front \o back
  <2>4. RemoveFirst(order, key) = rest
    BY <2>1, <2>3 DEF RemoveFirst, RemoveAt, SelectInSeq, Min
  <2>5. /\ front \in Seq(S)
        /\ Len(front) = k - 1
        /\ \A i \in 1..(k - 1) : front[i] = order[i]
    BY SubSeqProperties
  <2>6. /\ back \in Seq(S)
        /\ Len(back) = Len(order) - k
        /\ \A i \in 1..(Len(order) - k) : back[i] = order[k + i]
    BY SubSeqProperties
  <2> HIDE DEF front, back
  <2>7. /\ rest \in Seq(S)
        /\ Len(rest) = Len(order) - 1
        /\ \A i \in 1..(Len(order) - 1) :
              rest[i] = IF i < k THEN order[i] ELSE order[i + 1]
    <3>1. /\ rest \in Seq(S)
          /\ Len(rest) = Len(front) + Len(back)
          /\ \A i \in 1..(Len(front) + Len(back)) :
                rest[i] = IF i <= Len(front) THEN front[i] ELSE back[i - Len(front)]
      BY <2>5, <2>6, ConcatProperties
    <3> HIDE DEF rest
    <3> QED
      BY <2>5, <2>6, <3>1
  <2> HIDE DEF rest
  <2>8. Distinct(rest)
    <3>1. ASSUME NEW i \in 1..Len(rest), NEW j \in 1..Len(rest), rest[i] = rest[j]
          PROVE  i = j
      <4> DEFINE a == IF i < k THEN i ELSE i + 1
                 b == IF j < k THEN j ELSE j + 1
      <4>1. a \in 1..Len(order) /\ b \in 1..Len(order)
        BY <2>7
      <4>2. order[a] = order[b]
        BY <2>7, <3>1
      <4>3. a = b
        BY <4>1, <4>2, OrderFacts
      <4> QED
        BY <2>7, <4>3
    <3> QED
      BY <2>7, <3>1, OrderFacts
  <2>9. ASSUME NEW x \in Keys(order), x # key
        PROVE  x \in Keys(rest)
    <3>1. PICK i \in 1..Len(order) : order[i] = x
      BY <2>9 DEF Keys, ToSet
    <3> DEFINE j == IF i < k THEN i ELSE i - 1
    <3>2. j \in 1..Len(rest) /\ rest[j] = x
      BY <2>1, <2>7, <2>9, <3>1
    <3> QED
      BY <2>7, <3>2 DEF Keys, ToSet
  <2>10. Keys(rest) \subseteq Keys(order) \ {key}
    <3> SUFFICES ASSUME NEW i \in 1..Len(rest)
                 PROVE  rest[i] \in Keys(order) /\ rest[i] # key
      BY <2>7 DEF Keys, ToSet
    <3>1. CASE i < k
      BY <2>1, <2>7, <3>1 DEF Distinct, IsInjective, Keys, ToSet
    <3>2. CASE ~(i < k)
      BY <2>1, <2>7, <3>2 DEF Distinct, IsInjective, Keys, ToSet
    <3> QED
      BY <3>1, <3>2
  <2>11. ASSUME NEW i \in 1..Len(rest), NEW j \in 1..Len(rest), i < j
         PROVE  \E a, b \in 1..Len(order) :
                    a < b /\ order[a] = rest[i] /\ order[b] = rest[j]
    <3> DEFINE a == IF i < k THEN i ELSE i + 1
               b == IF j < k THEN j ELSE j + 1
    <3>1. a \in 1..Len(order) /\ b \in 1..Len(order) /\ a < b
      BY <2>7, <2>11
    <3>2. order[a] = rest[i] /\ order[b] = rest[j]
      BY <2>7, <2>11
    <3> QED
      BY <3>1, <3>2
  <2> QED
    BY <1>2, <2>4, <2>7, <2>8, <2>9, <2>10, <2>11
<1> QED
  BY <1>1, <1>2

\* Touch keeps the keys, adds the one touched and puts it last, without a
\* duplicate and with at most one key more, and leaves the others in their
\* order: OrderedDict.move_to_end.
THEOREM TouchProperties ==
    ASSUME NEW S, NEW order \in Seq(S), NEW key \in S, Distinct(order)
    PROVE  LET touched == Touch(order, key)
           IN /\ touched \in Seq(S)
              /\ Distinct(touched)
              /\ Keys(touched) = Keys(order) \cup {key}
              /\ Len(touched) = IF key \in Keys(order) THEN Len(order) ELSE Len(order) + 1
              /\ Len(touched) > 0 /\ touched[Len(touched)] = key
              /\ \A i, j \in 1..Len(touched) : i < j =>
                    \/ j = Len(touched)
                    \/ \E a, b \in 1..Len(order) :
                        a < b /\ order[a] = touched[i] /\ order[b] = touched[j]
<1> DEFINE rest == RemoveFirst(order, key)
           touched == Append(rest, key)
<1>1. /\ rest \in Seq(S)
      /\ Distinct(rest)
      /\ Keys(rest) = Keys(order) \ {key}
      /\ Len(rest) = IF key \in Keys(order) THEN Len(order) - 1 ELSE Len(order)
      /\ \A i, j \in 1..Len(rest) : i < j =>
            \E a, b \in 1..Len(order) :
                a < b /\ order[a] = rest[i] /\ order[b] = rest[j]
  BY RemoveProperties
<1>2. Touch(order, key) = touched
  BY DEF Touch
<1> HIDE DEF rest
<1>3. /\ touched \in Seq(S)
      /\ Len(touched) = Len(rest) + 1
      /\ \A i \in 1..Len(rest) : touched[i] = rest[i]
      /\ touched[Len(rest) + 1] = key
      /\ Len(rest) \in Nat
  BY <1>1, AppendProperties, LenProperties
<1> HIDE DEF touched
<1>4. \A i \in 1..Len(rest) : rest[i] # key
  <2>1. \A i \in 1..Len(rest) : rest[i] \in Keys(rest)
    BY <1>1, OrderFacts
  <2> QED
    BY <1>1, <2>1
<1>5. Distinct(touched)
  <2>1. ASSUME NEW i \in 1..Len(touched), NEW j \in 1..Len(touched),
               touched[i] = touched[j]
        PROVE  i = j
    <3>1. \A a, b \in 1..Len(rest) : rest[a] = rest[b] => a = b
      BY <1>1, OrderFacts
    <3> QED
      BY <1>3, <1>4, <2>1, <3>1
  <2> QED
    BY <1>3, <2>1, OrderFacts
<1>6. Keys(touched) = Keys(rest) \cup {key}
  <2>1. ASSUME NEW x \in Keys(rest) \cup {key}
        PROVE  x \in Keys(touched)
    <3>1. CASE x = key
      <4>1. Len(rest) + 1 \in 1..Len(touched)
        BY <1>3
      <4> QED
        BY <1>3, <3>1, <4>1 DEF Keys, ToSet
    <3>2. CASE x \in Keys(rest)
      <4>1. PICK i \in 1..Len(rest) : rest[i] = x
        BY <1>1, <3>2 DEF Keys, ToSet
      <4> QED
        BY <1>3, <4>1 DEF Keys, ToSet
    <3> QED
      BY <2>1, <3>1, <3>2
  <2>2. Keys(touched) \subseteq Keys(rest) \cup {key}
    <3> SUFFICES ASSUME NEW i \in 1..Len(touched)
                 PROVE  touched[i] \in Keys(rest) \cup {key}
      BY <1>3 DEF Keys, ToSet
    <3>1. CASE i = Len(rest) + 1
      BY <1>3, <3>1
    <3>2. CASE i # Len(rest) + 1
      <4>1. i \in 1..Len(rest) /\ touched[i] = rest[i]
        BY <1>3, <3>2
      <4> QED
        BY <1>1, <4>1, OrderFacts
    <3> QED
      BY <3>1, <3>2
  <2> QED
    BY <2>1, <2>2
<1>7. Len(touched) = IF key \in Keys(order) THEN Len(order) ELSE Len(order) + 1
  BY <1>1, <1>3, LenProperties
<1>8. ASSUME NEW i \in 1..Len(touched), NEW j \in 1..Len(touched), i < j,
             j # Len(touched)
      PROVE  \E a, b \in 1..Len(order) :
                 a < b /\ order[a] = touched[i] /\ order[b] = touched[j]
  <2>1. i \in 1..Len(rest) /\ j \in 1..Len(rest)
    BY <1>3, <1>8
  <2> QED
    BY <1>1, <1>3, <1>8, <2>1
<1>9. Keys(touched) = Keys(order) \cup {key}
  BY <1>1, <1>6
<1>10. Len(touched) > 0 /\ touched[Len(touched)] = key
  BY <1>3
<1> QED
  BY <1>2, <1>3, <1>5, <1>7, <1>8, <1>9, <1>10

\* Newest drops the oldest keys until `limit` are left and keeps the newest
\* one: OrderedDict.popitem(last=False) in a loop.
THEOREM NewestProperties ==
    ASSUME NEW S, NEW order \in Seq(S), NEW limit \in Nat \ {0},
           Distinct(order), Len(order) > 0
    PROVE  /\ Newest(order, limit) \in Seq(S)
           /\ Distinct(Newest(order, limit))
           /\ Keys(Newest(order, limit)) \subseteq Keys(order)
           /\ Len(Newest(order, limit)) <= limit
           /\ order[Len(order)] \in Keys(Newest(order, limit))
           /\ \A i \in 1..Len(Newest(order, limit)) :
                 Newest(order, limit)[i] =
                     order[Len(order) - Len(Newest(order, limit)) + i]
           /\ Len(order) > limit => Len(Newest(order, limit)) = limit
<1>1. CASE Len(order) <= limit
  <2>1. Newest(order, limit) = order
    BY <1>1 DEF Newest
  <2>2. Len(order) \in 1..Len(order) /\ order[Len(order)] \in Keys(order)
    BY OrderFacts
  <2>3. \A i \in 1..Len(order) : order[i] = order[Len(order) - Len(order) + i]
    OBVIOUS
  <2> QED
    BY <1>1, <2>1, <2>2, <2>3
<1>2. CASE Len(order) > limit
  <2> DEFINE d == Len(order) - limit
             kept == SubSeq(order, d + 1, Len(order))
  <2>1. Newest(order, limit) = kept
    BY <1>2 DEF Newest
  <2>2. /\ kept \in Seq(S)
        /\ Len(kept) = limit
        /\ \A i \in 1..limit : kept[i] = order[d + i]
    BY <1>2, SubSeqProperties
  <2> HIDE DEF kept
  <2>3. Distinct(kept)
    BY <1>2, <2>2 DEF Distinct, IsInjective
  <2>4. Keys(kept) \subseteq Keys(order)
    BY <1>2, <2>2 DEF Keys, ToSet
  <2>5. kept[limit] = order[Len(order)]
    BY <1>2, <2>2
  <2>6. kept[limit] \in Keys(kept)
    BY <2>2 DEF Keys, ToSet
  <2> QED
    BY <2>1, <2>2, <2>3, <2>4, <2>5, <2>6
<1> QED
  BY <1>1, <1>2

-----------------------------------------------------------------------------
(* Least recently used: the order of keys is the order of their last uses. *)

\* Using a key keeps the order of keys the order of last uses.
THEOREM TouchRecency ==
    ASSUME NEW S, NEW order \in Seq(S), NEW key \in S, Distinct(order),
           NEW later \in [S -> SUBSET S], NEW later2 \in [S -> SUBSET S],
           Recency(order, later),
           \A x \in S : x # key => later2[x] = later[x] \cup {key}
    PROVE  Recency(Touch(order, key), later2)
<1> DEFINE touched == Touch(order, key)
<1>1. /\ touched \in Seq(S)
      /\ Distinct(touched)
      /\ Len(touched) > 0 /\ touched[Len(touched)] = key
      /\ \A i, j \in 1..Len(touched) : i < j =>
            \/ j = Len(touched)
            \/ \E a, b \in 1..Len(order) :
                a < b /\ order[a] = touched[i] /\ order[b] = touched[j]
  BY TouchProperties
<1> HIDE DEF touched
<1>2. ASSUME NEW i \in 1..Len(touched), NEW j \in 1..Len(touched), i < j
      PROVE  touched[j] \in later2[touched[i]]
  <2>1. Len(touched) \in Nat /\ Len(touched) \in 1..Len(touched)
    BY <1>1, LenProperties
  <2>2. touched[i] \in S /\ touched[j] \in S /\ touched[i] # key
    BY <1>1, <1>2, <2>1, OrderFacts
  <2>3. later2[touched[i]] = later[touched[i]] \cup {key}
    BY <2>2
  <2>4. CASE j = Len(touched)
    BY <1>1, <2>3, <2>4
  <2>5. CASE j # Len(touched)
    <3>1. PICK a \in 1..Len(order), b \in 1..Len(order) :
              a < b /\ order[a] = touched[i] /\ order[b] = touched[j]
      BY <1>1, <1>2, <2>5
    <3>2. order[b] \in later[order[a]]
      BY <3>1 DEF Recency
    <3> QED
      BY <2>3, <3>1, <3>2
  <2> QED
    BY <2>4, <2>5
<1> QED
  BY <1>2 DEF Recency, touched

\* Deleting a key keeps it.
THEOREM RemoveRecency ==
    ASSUME NEW S, NEW order \in Seq(S), NEW key \in S, Distinct(order),
           NEW later \in [S -> SUBSET S], Recency(order, later)
    PROVE  Recency(RemoveFirst(order, key), later)
<1> DEFINE rest == RemoveFirst(order, key)
<1>1. \A i, j \in 1..Len(rest) : i < j =>
          \E a, b \in 1..Len(order) :
              a < b /\ order[a] = rest[i] /\ order[b] = rest[j]
  BY RemoveProperties
<1> HIDE DEF rest
<1>2. ASSUME NEW i \in 1..Len(rest), NEW j \in 1..Len(rest), i < j
      PROVE  rest[j] \in later[rest[i]]
  <2>1. PICK a \in 1..Len(order), b \in 1..Len(order) :
            a < b /\ order[a] = rest[i] /\ order[b] = rest[j]
    BY <1>1, <1>2
  <2>2. order[b] \in later[order[a]]
    BY <2>1 DEF Recency
  <2> QED
    BY <2>1, <2>2
<1>3. Recency(rest, later)
  BY <1>2 DEF Recency
<1> QED
  BY <1>3 DEF rest

\* Evicting from the front keeps it, and whatever is evicted has seen at least
\* `limit` other keys used after itself.
THEOREM NewestRecency ==
    ASSUME NEW S, NEW order \in Seq(S), NEW limit \in Nat \ {0},
           Distinct(order), Len(order) > 0,
           NEW later \in [S -> SUBSET S], Recency(order, later),
           \A x \in S : IsFiniteSet(later[x])
    PROVE  /\ Recency(Newest(order, limit), later)
           /\ \A x \in Keys(order) \ Keys(Newest(order, limit)) :
                 Cardinality(later[x]) >= limit
<1> DEFINE kept == Newest(order, limit)
           n == Len(kept)
           d == Len(order) - n
<1>1. /\ kept \in Seq(S)
      /\ Distinct(kept)
      /\ n <= limit
      /\ \A i \in 1..n : kept[i] = order[d + i]
      /\ Len(order) > limit => n = limit
  BY NewestProperties
<1>2. n \in Nat /\ Len(order) \in Nat
  BY <1>1, LenProperties
<1>3. Len(order) <= limit => kept = order
  BY <1>2 DEF Newest
<1>4. d \in Nat
  BY <1>1, <1>2, <1>3
<1> HIDE DEF kept
<1>5. ASSUME NEW i \in 1..n, NEW j \in 1..n, i < j
      PROVE  kept[j] \in later[kept[i]]
  <2>1. d + i \in 1..Len(order) /\ d + j \in 1..Len(order) /\ d + i < d + j
    BY <1>2, <1>4, <1>5
  <2>2. order[d + j] \in later[order[d + i]]
    BY <2>1 DEF Recency
  <2> QED
    BY <1>1, <2>2
<1>6. ASSUME NEW x \in Keys(order) \ Keys(kept)
      PROVE  Cardinality(later[x]) >= limit
  <2>1. PICK e \in 1..Len(order) : order[e] = x
    BY <1>6, OrderFacts
  <2>2. n = limit
    BY <1>1, <1>2, <1>3, <1>6
  <2>3. e <= d
    <3>1. ASSUME e > d PROVE FALSE
      <4>1. e - d \in 1..n /\ d + (e - d) = e
        BY <1>2, <1>4, <3>1
      <4>2. kept[e - d] = x
        BY <1>1, <2>1, <4>1
      <4> QED
        BY <1>1, <1>6, <4>1, <4>2, OrderFacts
    <3> QED
      BY <1>4, <3>1
  <2>4. \A i \in 1..n : kept[i] \in later[x]
    <3> SUFFICES ASSUME NEW i \in 1..n
                 PROVE  kept[i] \in later[x]
      OBVIOUS
    <3>1. d + i \in 1..Len(order) /\ e < d + i
      BY <1>2, <1>4, <2>3
    <3> QED
      BY <1>1, <2>1, <3>1 DEF Recency
  <2>5. x \in S
    BY <2>1, OrderFacts
  <2>6. kept \in Injection(1..n, later[x])
    <3>1. kept \in [1..n -> later[x]]
      BY <1>1, <2>4
    <3>2. \A i, j \in 1..n : kept[i] = kept[j] => i = j
      BY <1>1, OrderFacts
    <3> QED
      BY <3>1, <3>2 DEF Injection, IsInjective
  <2>7. IsFiniteSet(later[x])
    BY <2>5
  <2>8. Cardinality(1..n) <= Cardinality(later[x])
    BY <2>6, <2>7, FS_Injection
  <2>9. Cardinality(1..n) = n
    <3>1. 1 \in Int /\ n \in Int
      BY <1>2
    <3>2. Cardinality(1..n) = IF 1 > n THEN 0 ELSE n - 1 + 1
      BY ONLY <3>1, FS_Interval, Zenon
    <3> QED
      BY <1>2, <3>2
  <2>10. Cardinality(later[x]) \in Nat
    BY <2>7, FS_CardinalityType
  <2> QED
    BY <2>2, <2>8, <2>9, <2>10
<1> QED
  BY <1>5, <1>6 DEF Recency, kept

=============================================================================
