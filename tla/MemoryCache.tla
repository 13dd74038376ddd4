----------------------------- MODULE MemoryCache -----------------------------
(***************************************************************************)
(* The in-memory cache backend (package cache/memory): a map with a TTL    *)
(* per entry, an optional limit on the number of keys, a goroutine that    *)
(* sweeps expired entries, and the rendezvous that stops it.               *)
(*                                                                         *)
(* Every operation holds the cache's mutex from its first to its last      *)
(* statement, the reading of the clock included, and is one action.  A     *)
(* value is what the caller handed to Store: the map keeps a reference     *)
(* and not a copy (module Endpoint is about what that means when the       *)
(* caller reuses the memory).  The variable last is history: what the      *)
(* interface (module FrameCache) remembers of each key.                    *)
(***************************************************************************)
EXTENDS CacheInterface, FiniteSets

CONSTANT MaxKeys   \* cache-max-keys; 0 is no limit

ASSUME MemoryAssumption == MaxKeys \in Nat /\ IsFiniteSet(Keys)

VARIABLES
  clock,    \* time.Now()
  last,     \* history: the entry the last Store of each key made
  reply,    \* the answer of the last Retrieve
  data,     \* the map: an entry for each key, or Nil
  gc,       \* the sweeping goroutine: in its select, sweeping, or returned
  closer    \* the caller of Close: not yet, blocked on stopGC, or done

vars == <<clock, last, reply, data, gc, closer>>

Present(m) == {k \in Keys : m[k] # Nil}

Len == Cardinality(Present(data))

TypeOK ==
  /\ clock \in Nat
  /\ last \in [Keys -> Entry \cup {Nil}]
  /\ reply \in [key : Keys \cup {Nil}, value : Values \cup {Nil}]
  /\ data \in [Keys -> Entry \cup {Nil}]
  /\ gc \in {"select", "sweep", "returned"}
  /\ closer \in {"open", "closing", "closed"}

Init ==
  /\ clock = 0
  /\ last = [k \in Keys |-> Nil]
  /\ reply = [key |-> Nil, value |-> Nil]
  /\ data = [k \in Keys |-> Nil]
  /\ gc = "select"
  /\ closer = "open"

------------------------------------------------------------------------------
(* Store, Retrieve, Delete *)

\* A plausible slip: the limit is only noticed once it has been passed.
EvictedLate ==
  IF MaxKeys > 0 /\ Len > MaxKeys
  THEN {Drop(data, {k}) : k \in Present(data)}
  ELSE {data}

\* The maps Store may find itself with once it has made room.  At the limit
\* the first key of a map iteration goes, whichever that is, also when the key
\* to be stored is there already and needs no room.
Evicted ==
  IF MaxKeys > 0 /\ Len >= MaxKeys
  THEN {Drop(data, {k}) : k \in Present(data)}
  ELSE {data}

Store(k, v) ==
  /\ \E m \in Evicted : data' = Put(m, k, v, clock)
  /\ last' = Put(last, k, v, clock)
  /\ UNCHANGED <<clock, reply, gc, closer>>

\* A plausible slip: an entry is served until it is swept.
FoundUnswept(k) == IF data[k] # Nil THEN data[k].value ELSE Nil

\* A plausible slip: the entry is returned and not its value.
FoundEntry(k) == IF Live(data, k, clock) THEN data[k] ELSE Nil

Found(k) == IF Live(data, k, clock) THEN data[k].value ELSE Nil

Retrieve(k) ==
  /\ reply' = [key |-> k, value |-> Found(k)]
  /\ UNCHANGED <<clock, last, data, gc, closer>>

Delete(k) ==
  /\ data' = Drop(data, {k})
  /\ last' = Drop(last, {k})
  /\ UNCHANGED <<clock, reply, gc, closer>>

------------------------------------------------------------------------------
(* The sweeping goroutine and Close *)

\* The ticker fires.
GCTick ==
  /\ gc = "select"
  /\ gc' = "sweep"
  /\ UNCHANGED <<clock, last, reply, data, closer>>

Expired == {k \in Present(data) : clock > data[k].expires}

\* A plausible slip: everything is swept but what has expired.
SweepLive ==
  /\ gc = "sweep"
  /\ data' = Drop(data, Present(data) \ Expired)
  /\ gc' = "select"
  /\ UNCHANGED <<clock, last, reply, closer>>

\* A plausible slip: the goroutine returns from the wrong case of its select.
SweepAndReturn ==
  /\ gc = "sweep"
  /\ data' = Drop(data, Expired)
  /\ gc' = "returned"
  /\ UNCHANGED <<clock, last, reply, closer>>

sweepExpired ==
  /\ gc = "sweep"
  /\ data' = Drop(data, Expired)
  /\ gc' = "select"
  /\ UNCHANGED <<clock, last, reply, closer>>

\* Close blocks on the unbuffered channel stopGC; main calls it once.
Close ==
  /\ closer = "open"
  /\ closer' = "closing"
  /\ UNCHANGED <<clock, last, reply, data, gc>>

\* The goroutine receives from stopGC in its select and returns; Close goes on.
StopGC ==
  /\ closer = "closing" /\ gc = "select"
  /\ closer' = "closed"
  /\ gc' = "returned"
  /\ UNCHANGED <<clock, last, reply, data>>

Tick ==
  /\ clock < MaxTime
  /\ clock' = clock + 1
  /\ UNCHANGED <<last, reply, data, gc, closer>>

Next ==
  \/ \E k \in Keys, v \in Values : Store(k, v)
  \/ \E k \in Keys : Retrieve(k) \/ Delete(k)
  \/ GCTick \/ sweepExpired
  \/ Close \/ StopGC
  \/ Tick

Spec == Init /\ [][Next]_vars

\* The goroutine runs, and a select both of whose cases stay ready takes each
\* of them sooner or later (Go picks a ready case at random), hence SF.
Fairness == WF_vars(sweepExpired) /\ SF_vars(StopGC)

FairSpec == Spec /\ Fairness

------------------------------------------------------------------------------
(* Properties *)

\* memory.go:25-26: the limit on the keys is never passed, whatever mix of
\* stores, overwrites, deletes and sweeps leads there.
WithinLimit == MaxKeys > 0 => Len <= MaxKeys

\* Taken out of the map although it was not deleted by a user of the cache.
Lost(k) == data[k] # Nil /\ data'[k] = Nil /\ last'[k] # Nil

LostLive == {k \in Keys : Lost(k) /\ Live(data, k, clock)}

LossBound == LostLive # {} => Len = MaxKeys /\ Cardinality(LostLive) = 1 /\ gc' = gc

\* memory.go:38-56 and 117-127: an entry that has not expired is lost only to a
\* Store that found the map at its limit, and that Store costs no other entry;
\* the sweeper takes none.  (A Store of a key that is there already needs no room
\* and may cost another key its entry all the same.)
NoNeedlessLoss == [][LossBound]_vars

Interface == INSTANCE FrameCache WITH clock <- clock, last <- last, reply <- reply

\* cache.go:15-17: the map is a cache in the sense of module FrameCache, in
\* spite of evictions, overwrites at the limit and the sweeper.
ImplementsCache == Interface!Spec

\* memory.go:94-99: Close, once called, returns; the sweeping goroutine never
\* keeps it waiting for ever.
CloseReturns == closer = "closing" ~> closer = "closed"

==============================================================================
