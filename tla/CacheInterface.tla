--------------------------- MODULE CacheInterface ----------------------------
(***************************************************************************)
(* The interface cache.Cache as its users see it: a map from keys to       *)
(* entries with a deadline.  A backend may forget an entry at any time     *)
(* (eviction, a Redis under memory pressure), so that nil is always a      *)
(* possible answer.                                                        *)
(***************************************************************************)
EXTENDS Naturals

CONSTANTS
  Keys,     \* HashKey || SeqNum
  Values,   \* raw frames
  Nil,      \* Go's nil
  TTL,      \* cache-ttl
  MaxTime   \* bound on the clock

Entry == [value : Values, expires : Nat]

ASSUME CacheAssumption ==
  /\ Nil \notin Values
  /\ Nil \notin Entry
  /\ TTL \in Nat
  /\ MaxTime \in Nat

Put(m, k, v, now) == [m EXCEPT ![k] = [value |-> v, expires |-> now + TTL]]

Drop(m, ks) == [k \in Keys |-> IF k \in ks THEN Nil ELSE m[k]]

\* A plausible slip: the deadline is not looked at.
LiveForEver(m, k, now) == m[k] # Nil

\* time.Now().After(e.expires) is false.
Live(m, k, now) == m[k] # Nil /\ now <= m[k].expires

\* What Retrieve may answer.
Answers(m, k, now) == {Nil} \cup {v \in Values : Live(m, k, now) /\ v = m[k].value}

==============================================================================
