--------------------------- MODULE MemoryCacheProofs ---------------------------
(***************************************************************************)
(* The in-memory cache keeps its limit and implements FrameCache, for any  *)
(* keys, values, limit and TTL.                                            *)
(***************************************************************************)
EXTENDS MemoryCache, FiniteSetTheorems, TLAPS

\* What the map holds is what was stored last.
Latest == \A k \in Keys : data[k] # Nil => data[k] = last[k]

IInv == TypeOK /\ Latest /\ WithinLimit

\* What delete on the map (memory.go) leaves: the other entries, untouched.
LEMMA DropType ==
  ASSUME NEW m \in [Keys -> Entry \cup {Nil}], NEW ks
  PROVE  /\ Drop(m, ks) \in [Keys -> Entry \cup {Nil}]
         /\ \A j \in Keys : Drop(m, ks)[j] = IF j \in ks THEN Nil ELSE m[j]
  BY DEF Drop

\* The map has finitely many keys, and len(c.data) is a number.
LEMMA PresentFinite ==
  ASSUME NEW m
  PROVE  IsFiniteSet(Present(m)) /\ Cardinality(Present(m)) \in Nat
<1>1. IsFiniteSet(Keys) /\ Present(m) \subseteq Keys
  BY MemoryAssumption DEF Present
<1> QED
  BY <1>1, FS_Subset, FS_CardinalityType

\* The maps Store goes on with hold nothing new, and leave room for one entry.
LEMMA EvictedMakesRoom ==
  ASSUME TypeOK, WithinLimit, NEW m \in Evicted
  PROVE  /\ m \in [Keys -> Entry \cup {Nil}]
         /\ \A k \in Keys : m[k] # Nil => m[k] = data[k]
         /\ MaxKeys > 0 => Cardinality(Present(m)) < MaxKeys
<1>0. Len \in Nat /\ MaxKeys \in Nat /\ data \in [Keys -> Entry \cup {Nil}]
  BY PresentFinite, MemoryAssumption DEF Len, TypeOK
<1>1. CASE ~(MaxKeys > 0 /\ Len >= MaxKeys)
  BY <1>0, <1>1 DEF Evicted, Len
<1>2. CASE MaxKeys > 0 /\ Len >= MaxKeys
  <2>1. PICK k \in Present(data) : m = Drop(data, {k})
    BY <1>2 DEF Evicted
  <2>2. /\ m \in [Keys -> Entry \cup {Nil}]
        /\ \A j \in Keys : m[j] = IF j \in {k} THEN Nil ELSE data[j]
    BY <1>0, <2>1, DropType
  <2>3. Present(m) = Present(data) \ {k}
    BY <2>2 DEF Present
  <2>4. Cardinality(Present(m)) = Len - 1
    BY <2>3, PresentFinite, FS_RemoveElement, Zenon DEF Len
  <2>5. Len <= MaxKeys
    BY <1>2 DEF WithinLimit
  <2> QED
    BY <1>0, <2>2, <2>4, <2>5
<1> QED
  BY <1>1, <1>2

\* Store keeps the invariant: it makes room before it inserts.
LEMMA StoreIInv ==
  ASSUME IInv, NEW k \in Keys, NEW v \in Values, Store(k, v)
  PROVE  IInv'
<1>1. PICK m \in Evicted : data' = Put(m, k, v, clock)
  BY DEF Store
<1>2. /\ m \in [Keys -> Entry \cup {Nil}]
      /\ \A j \in Keys : m[j] # Nil => m[j] = data[j]
      /\ MaxKeys > 0 => Cardinality(Present(m)) < MaxKeys
  BY EvictedMakesRoom DEF IInv
<1>3. clock \in Nat /\ last \in [Keys -> Entry \cup {Nil}]
  BY DEF IInv, TypeOK
<1>4. /\ data' \in [Keys -> Entry \cup {Nil}] /\ last' \in [Keys -> Entry \cup {Nil}]
      /\ data'[k] = last'[k]
      /\ \A j \in Keys \ {k} : data'[j] = m[j] /\ last'[j] = last[j]
  <2>0. [value |-> v, expires |-> clock + TTL] \in Entry
    BY <1>3, CacheAssumption DEF Entry
  <2>1. last' = Put(last, k, v, clock)
    BY DEF Store
  <2>2. /\ data' \in [Keys -> Entry \cup {Nil}]
        /\ data'[k] = [value |-> v, expires |-> clock + TTL]
        /\ \A j \in Keys \ {k} : data'[j] = m[j]
    BY <1>1, <1>2, <2>0 DEF Put
  <2>3. /\ last' \in [Keys -> Entry \cup {Nil}]
        /\ last'[k] = [value |-> v, expires |-> clock + TTL]
        /\ \A j \in Keys \ {k} : last'[j] = last[j]
    BY <2>1, <1>3, <2>0 DEF Put
  <2> QED
    BY <2>2, <2>3, Zenon
<1>5. TypeOK'
  BY <1>4 DEF IInv, TypeOK, Store
<1>6. Latest'
  BY <1>2, <1>4 DEF IInv, Latest
<1>7. WithinLimit'
  <2>1. Present(data') \subseteq Present(m) \cup {k}
    BY <1>4 DEF Present
  <2>2. /\ IsFiniteSet(Present(m) \cup {k})
        /\ \/ Cardinality(Present(m) \cup {k}) = Cardinality(Present(m))
           \/ Cardinality(Present(m) \cup {k}) = Cardinality(Present(m)) + 1
    BY PresentFinite, FS_AddElement
  <2>3. Cardinality(Present(data')) <= Cardinality(Present(m) \cup {k})
    BY <2>1, <2>2, FS_Subset
  <2>4. Cardinality(Present(m)) \in Nat /\ Cardinality(Present(data')) \in Nat /\ MaxKeys \in Nat
    BY PresentFinite, MemoryAssumption
  <2>5. MaxKeys > 0 => Cardinality(Present(data')) <= MaxKeys
    BY <1>2, <2>2, <2>3, <2>4
  <2> QED
    BY <2>5 DEF WithinLimit, Len
<1> QED
  BY <1>5, <1>6, <1>7 DEF IInv

\* Delete and the sweeper only take entries out.
LEMMA DropIInv ==
  ASSUME IInv, NEW ks, data' = Drop(data, ks), TypeOK',
         \A k \in Keys : k \in ks \/ last'[k] = last[k]
  PROVE  IInv'
<1>1. \A j \in Keys : data'[j] = IF j \in ks THEN Nil ELSE data[j]
  BY DropType DEF IInv, TypeOK
<1>2. Latest'
  BY <1>1 DEF IInv, Latest
<1>3. WithinLimit'
  <2>1. Present(data') \subseteq Present(data)
    BY <1>1 DEF Present
  <2>2. Cardinality(Present(data')) <= Cardinality(Present(data))
    BY <2>1, PresentFinite, FS_Subset
  <2>3. /\ Cardinality(Present(data)) \in Nat /\ Cardinality(Present(data')) \in Nat
        /\ MaxKeys \in Nat
    BY PresentFinite, MemoryAssumption
  <2> QED
    BY <2>2, <2>3 DEF IInv, WithinLimit, Len
<1> QED
  BY <1>2, <1>3 DEF IInv

\* What Retrieve finds is an answer the interface cache.Cache allows.
LEMMA FoundType ==
  ASSUME IInv, NEW k \in Keys
  PROVE  Found(k) \in Answers(last, k, clock) /\ Found(k) \in Values \cup {Nil}
<1>1. CASE Live(data, k, clock)
  <2>1. data[k] \in Entry /\ data[k] = last[k]
    BY <1>1 DEF IInv, TypeOK, Latest, Live
  <2>2. data[k].value \in Values
    BY <2>1 DEF Entry
  <2> QED
    BY <1>1, <2>1, <2>2 DEF Found, Answers, Live
<1>2. CASE ~Live(data, k, clock)
  BY <1>2 DEF Found, Answers
<1> QED
  BY <1>1, <1>2

\* Every operation of the cache, the sweeper and Close keep the invariant.
LEMMA NextIInv == IInv /\ [Next]_vars => IInv'
<1> SUFFICES ASSUME IInv, [Next]_vars PROVE IInv'
  OBVIOUS
<1>1. ASSUME NEW k \in Keys, Retrieve(k) PROVE IInv'
  <2>1. UNCHANGED <<clock, last, data, gc, closer>> /\ Found(k) \in Values \cup {Nil}
    BY <1>1, FoundType DEF Retrieve
  <2> QED
    BY <1>1, <2>1 DEF IInv, TypeOK, Latest, WithinLimit, Len, Retrieve
<1>2. ASSUME NEW k \in Keys, Delete(k) PROVE IInv'
  <2>1. data \in [Keys -> Entry \cup {Nil}] /\ last \in [Keys -> Entry \cup {Nil}]
    BY DEF IInv, TypeOK
  <2>2. /\ last' \in [Keys -> Entry \cup {Nil}] /\ data' \in [Keys -> Entry \cup {Nil}]
        /\ \A j \in Keys : j \in {k} \/ last'[j] = last[j]
    BY <1>2, <2>1, DropType DEF Delete
  <2>3. TypeOK' /\ data' = Drop(data, {k})
    BY <1>2, <2>2 DEF IInv, TypeOK, Delete
  <2> QED
    BY <2>2, <2>3, DropIInv
<1>3. CASE sweepExpired
  <2>1. data' \in [Keys -> Entry \cup {Nil}]
    BY <1>3, DropType DEF sweepExpired, IInv, TypeOK
  <2>2. TypeOK' /\ data' = Drop(data, Expired) /\ last' = last
    BY <1>3, <2>1 DEF IInv, TypeOK, sweepExpired
  <2> QED
    BY <2>2, DropIInv
<1>4. CASE GCTick \/ Close \/ StopGC \/ Tick \/ UNCHANGED vars
  <2>1. UNCHANGED <<data, last>> /\ TypeOK'
    BY <1>4 DEF IInv, TypeOK, GCTick, Close, StopGC, Tick, vars
  <2> QED
    BY <2>1 DEF IInv, Latest, WithinLimit, Len
<1> QED
  BY <1>1, <1>2, <1>3, <1>4, StoreIInv DEF Next

\* The invariant holds of the empty map that New makes.
LEMMA InitIInv == Init => IInv
<1> SUFFICES ASSUME Init PROVE IInv
  OBVIOUS
<1>1. TypeOK /\ Latest
  BY DEF Init, TypeOK, Latest
<1>2. Len = 0
  <2>1. Present(data) = {}
    BY DEF Init, Present
  <2> QED
    BY <2>1, FS_EmptySet DEF Len
<1> QED
  BY <1>1, <1>2, MemoryAssumption DEF IInv, WithinLimit

\* The in-memory cache (memory.go) keeps its invariant: types, the limit, and
\* that an entry in the map is the last one stored under its key.
THEOREM Invariance == Spec => []IInv
  BY InitIInv, NextIInv, PTL DEF Spec

\* The cache's variables keep their types.
THEOREM TypeCorrect == Spec => []TypeOK
<1>1. IInv => TypeOK
  BY DEF IInv
<1> QED
  BY <1>1, Invariance, PTL

\* memory.go:43-49: for every limit, the map never holds more keys than it.
THEOREM WithinLimitHolds == Spec => []WithinLimit
<1>1. IInv => WithinLimit
  BY DEF IInv
<1> QED
  BY <1>1, Invariance, PTL

------------------------------------------------------------------------------
(* The map implements the interface *)

\* Every step of the map is a step of the interface, or none.
LEMMA StepImplements == IInv /\ [Next]_vars => [Interface!Next]_(Interface!vars)
<1> SUFFICES ASSUME IInv, [Next]_vars
             PROVE  Interface!Next \/ UNCHANGED <<clock, last, reply>>
  BY DEF Interface!vars
<1>1. ASSUME NEW k \in Keys, NEW v \in Values, Store(k, v) PROVE Interface!Next
  BY <1>1, Zenon DEF Store, Put, Interface!Next, Interface!Store, Interface!Put
<1>2. ASSUME NEW k \in Keys, Retrieve(k) PROVE Interface!Next
  <2>1. Interface!Retrieve(k)
    <3>1. Answers(last, k, clock) = Interface!Answers(last, k, clock)
      BY DEF Answers, Live, Interface!Answers, Interface!Live
    <3>2. Found(k) \in Interface!Answers(last, k, clock)
      BY <3>1, FoundType
    <3> QED
      BY <1>2, <3>2 DEF Retrieve, Interface!Retrieve
  <2> QED
    BY <2>1 DEF Interface!Next
<1>3. ASSUME NEW k \in Keys, Delete(k) PROVE Interface!Next
  BY <1>3 DEF Delete, Drop, Interface!Next, Interface!Delete, Interface!Drop
<1>4. CASE Tick
  BY <1>4 DEF Tick, Interface!Next, Interface!Tick
<1>5. CASE GCTick \/ sweepExpired \/ Close \/ StopGC \/ UNCHANGED vars
  BY <1>5 DEF GCTick, sweepExpired, Close, StopGC, vars
<1> QED
  BY <1>1, <1>2, <1>3, <1>4, <1>5 DEF Next

\* memory.go:38-127: whatever the limit, the TTL and the order of stores,
\* deletes, evictions and sweeps, Retrieve answers what cache.Cache promises.
THEOREM ImplementsCacheHolds == Spec => ImplementsCache
<1>1. Init => Interface!Init
  BY DEF Init, Interface!Init, Interface!NoReply
<1> QED
  BY <1>1, StepImplements, Invariance, PTL DEF Spec, ImplementsCache, Interface!Spec

------------------------------------------------------------------------------
(* What an eviction and a sweep may cost *)

\* A Store that evicts loses the one key it picked, and only at the limit.
LEMMA StoreLoss ==
  ASSUME IInv, NEW k \in Keys, NEW v \in Values, Store(k, v)
  PROVE  LossBound
<1> SUFFICES ASSUME LostLive # {} PROVE Len = MaxKeys /\ Cardinality(LostLive) = 1 /\ gc' = gc
  BY DEF LossBound
<1>1. PICK m \in Evicted : data' = Put(m, k, v, clock)
  BY DEF Store
<1>2. data \in [Keys -> Entry \cup {Nil}] /\ clock \in Nat
  BY DEF IInv, TypeOK
<1>3. m \in [Keys -> Entry \cup {Nil}]
  BY <1>1, EvictedMakesRoom DEF IInv
<1>4. \A j \in Keys : data'[j] = Nil => m[j] = Nil
  <2>1. [value |-> v, expires |-> clock + TTL] # Nil
    BY <1>2, CacheAssumption DEF Entry
  <2> QED
    BY <1>1, <1>3, <2>1 DEF Put
<1>5. PICK j \in LostLive : TRUE
  OBVIOUS
<1>6. m # data
  BY <1>4, <1>5 DEF LostLive, Lost
<1>7. MaxKeys > 0 /\ Len >= MaxKeys
  BY <1>6 DEF Evicted
<1>8. PICK e \in Present(data) : m = Drop(data, {e})
  BY <1>7, Zenon DEF Evicted
<1>9. LostLive \subseteq {e}
  BY <1>4, <1>8 DEF LostLive, Lost, Drop
<1>10. LostLive = {j}
  BY <1>5, <1>9
<1>11. Len = MaxKeys
  BY <1>7, PresentFinite, MemoryAssumption DEF IInv, WithinLimit, Len
<1>12. Cardinality({j}) = 1
  BY FS_Singleton, Zenon
<1> QED
  BY <1>10, <1>11, <1>12 DEF Store

\* No step of the cache loses more than LossBound allows.
LEMMA StepLoss == IInv /\ [Next]_vars => (LossBound \/ UNCHANGED vars)
<1> SUFFICES ASSUME IInv, [Next]_vars PROVE LossBound \/ UNCHANGED vars
  OBVIOUS
<1>1. ASSUME NEW k \in Keys, Delete(k) PROVE LostLive = {}
  BY <1>1, DropType DEF Delete, LostLive, Lost, Drop, IInv, TypeOK
<1>2. CASE sweepExpired
  <2>1. \A k \in Keys : data'[k] = IF k \in Expired THEN Nil ELSE data[k]
    BY <1>2, DropType DEF sweepExpired, IInv, TypeOK
  <2>2. \A k \in Expired : ~Live(data, k, clock)
    <3> TAKE k \in Expired
    <3>1. k \in Keys /\ data[k] # Nil /\ clock > data[k].expires
      BY DEF Expired, Present
    <3>2. data[k].expires \in Nat /\ clock \in Nat
      BY <3>1 DEF IInv, TypeOK, Entry
    <3> QED
      BY <3>1, <3>2 DEF Live
  <2> QED
    BY <2>1, <2>2 DEF LossBound, LostLive, Lost
<1>3. ASSUME UNCHANGED data PROVE LostLive = {}
  BY <1>3 DEF LostLive, Lost
<1>4. ASSUME NEW k \in Keys, Retrieve(k) PROVE UNCHANGED data
  BY <1>4 DEF Retrieve
<1>5. CASE GCTick \/ Close \/ StopGC \/ Tick \/ UNCHANGED vars
  BY <1>3, <1>5 DEF GCTick, Close, StopGC, Tick, vars, LossBound
<1> QED
  BY <1>1, <1>2, <1>3, <1>4, <1>5, StoreLoss DEF Next, LossBound

\* memory.go:38-56 and 117-127: for every limit, a Store costs at most one
\* entry that has not expired, only at the limit, and a sweep costs none.
THEOREM NoNeedlessLossHolds == Spec => NoNeedlessLoss
<1>1. IInv /\ [Next]_vars => [LossBound]_vars
  BY StepLoss
<1> QED
  BY <1>1, Invariance, PTL DEF Spec, NoNeedlessLoss

==============================================================================
