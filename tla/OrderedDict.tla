---------------------------- MODULE OrderedDict ----------------------------
(***************************************************************************)
(* The order of keys in a collections.OrderedDict, as the limiter and the  *)
(* answer cache use it: a sequence of distinct keys, least recently used   *)
(* first.  What the keys map to is kept by the module that uses this one.  *)
(***************************************************************************)
EXTENDS Integers, SequencesExt

Keys(order) == ToSet(order)

\* Mutated: a key that is present keeps its place.
TouchInPlace(order, key) ==
    IF key \in Keys(order) THEN order ELSE Append(order, key)

\* `od[key] = value` for an absent key, then `od.move_to_end(key)`.
Touch(order, key) == Append(RemoveFirst(order, key), key)

\* `while len(od) > limit: od.popitem(last=False)`.
Newest(order, limit) ==
    IF Len(order) > limit
      THEN SubSeq(order, Len(order) - limit + 1, Len(order))
      ELSE order

\* No key twice.
Distinct(order) == IsInjective(order)

\* Every key has seen the ones behind it used after itself, when later[k] is
\* the set of keys used since the last use of k.
Recency(order, later) ==
    \A i, j \in 1..Len(order) : i < j => order[j] \in later[order[i]]

=============================================================================
