-------------------------- MODULE EndpointRedisProofs --------------------------
(***************************************************************************)
(* What holds of module Endpoint under the Redis backend, where a worker   *)
(* has a copy of its frame and the instances share cache and dedup gate.   *)
(* Each invariant is inductive relative to Typed of EndpointProofs; the    *)
(* last one, Covered, relative to Requested as well.                       *)
(***************************************************************************)
EXTENDS EndpointProofs

------------------------------------------------------------------------------
(* The frame that is sent, under Redis *)

\* A worker works on the frame it was asked for.
OnRequest(w) ==
  /\ w.pc \in Past => CacheKey(w.raw) = w.key
  /\ w.pc \in {"dedup", "lock", "send"} => w.tx = w.raw.tx
  /\ w.pc = "send" => w.group = GroupAddr(w.raw.ver, w.raw.tx)

Requested ==
  /\ SentIsRequested
  /\ \A i \in Instances, k \in Keys : cache[i][k] # Nil => CacheKey(cache[i][k].value) = k
  /\ \A t \in Threads : OnRequest(worker[t])

\* A worker moves, and nothing is stored or sent.
LEMMA RequestedKept ==
  ASSUME Requested, NEW t \in Threads, Others(t), OnRequest(worker'[t]),
         UNCHANGED <<cache, sent>>
  PROVE  Requested'
  BY DEF Requested, SentIsRequested, Others, OnRequest

\* An idle worker holds no frame, and so none that was not asked for.
LEMMA OnRequestIdle == OnRequest(Idle)
  BY DEF OnRequest, Idle, Past

\* Ingress stores a frame under the key made of its own fields.
LEMMA RequestedStore ==
  ASSUME Typed, Requested, NEW i \in Instances, processFrame(i)
  PROVE  Requested'
<1> DEFINE f == buf[i].new
<1>1. f \in Values
  BY DEF Typed, TypeOK, BufferOK, processFrame
<1>2. ASSUME NEW j \in Instances, NEW k \in Keys, cache'[j][k] # Nil
      PROVE  CacheKey(cache'[j][k].value) = k
  <2>1. CASE cache'[j][k] = cache[j][k]
    BY <1>2, <2>1 DEF Requested
  <2>2. CASE cache'[j][k] = [value |-> f, expires |-> clock + TTL] /\ k = CacheKey(f)
    BY <2>2
  <2>3. CASE cache' = StoreFrame(i, f)
    <3> HIDE DEF f
    <3> QED
      BY <1>1, <2>1, <2>2, <2>3, StoreType DEF Typed
  <2> QED
    BY <2>1, <2>3 DEF processFrame
<1> QED
  BY <1>2 DEF Requested, SentIsRequested, OnRequest, processFrame

\* Every step keeps Requested, given copies in the cache (Redis).
LEMMA RequestedNext ==
  ASSUME Backend = "redis"
  PROVE  Typed /\ Requested /\ [Next]_vars => Requested'
<1> SUFFICES ASSUME Typed, Requested, [Next]_vars PROVE Requested'
  BY SMTT(30)
<1>1. \A t \in Threads : Bytes(t) = {worker[t].raw} /\ OnRequest(worker[t])
  BY SMTT(30) DEF Bytes, Requested
<1>2. ASSUME NEW t \in Threads, NEW type, NEW why, Respond(t, type, why) \/ Return(t),
             UNCHANGED <<cache, sent>>
      PROVE  Requested'
  BY <1>2, RespondEffect, OnRequestIdle, RequestedKept
<1>3. ASSUME NEW t \in Threads, NEW n \in Nacks, Accept(t, n) PROVE Requested'
  BY <1>3, AcceptEffect, RequestedKept, ZenonT(30) DEF Accept, OnRequest, Past
<1>4. ASSUME NEW t \in Threads, Lookup(t) PROVE Requested'
  <2>1. UNCHANGED <<cache, sent>> /\ worker[t].key \in Keys /\ t[1] \in Instances
    BY <1>4, ZenonT(30) DEF Lookup, Typed, WorkerOK, Fits, Threads
  <2>2. CASE /\ worker'[t].pc = "group" /\ worker'[t].key = worker[t].key
             /\ worker'[t].raw \in Answers(cache[t[1]], worker[t].key, clock) \ {Nil}
             /\ Others(t)
    <3>1. CacheKey(worker'[t].raw) = worker'[t].key
      BY <2>1, <2>2, SMTT(30) DEF Answers, Live, Requested
    <3> QED
      BY <2>1, <2>2, <3>1, RequestedKept, SMTT(30) DEF OnRequest
  <2> QED
    BY <1>2, <1>4, <2>1, <2>2, LookupEffect
<1>5. ASSUME NEW t \in Threads, AllowGroup(t) PROVE Requested'
  <2>1. UNCHANGED <<cache, sent>> /\ worker[t].pc = "group"
    BY <1>5, ZenonT(30) DEF AllowGroup
  <2>2. CASE /\ worker'[t].pc = "dedup" /\ \E b \in Bytes(t) : worker'[t].tx = b.tx
             /\ worker'[t].key = worker[t].key /\ worker'[t].raw = worker[t].raw
             /\ Others(t)
    <3>1. OnRequest(worker'[t])
      BY <1>1, <2>1, <2>2 DEF OnRequest, Past
    <3> QED
      BY <2>1, <2>2, <3>1, RequestedKept, SMTT(30)
  <2> QED
    BY <1>2, <1>5, <2>1, <2>2, AllowGroupEffect
<1>6. ASSUME NEW t \in Threads, EnterGate(t) PROVE Requested'
  <2>1. UNCHANGED <<cache, sent>> /\ worker[t].pc = "dedup"
    BY <1>6, SMTT(30) DEF EnterGate
  <2>2. OnRequest(worker'[t]) /\ Others(t)
    BY <1>1, <1>6, <2>1, EnterGateEffect, SMTT(30) DEF OnRequest, Past
  <2> QED
    BY <2>1, <2>2, RequestedKept
<1>7. ASSUME NEW t \in Threads, Suppressed(t) \/ EgressError(t) PROVE Requested'
  <2>1. UNCHANGED <<cache, sent>>
    <3>1. CASE Suppressed(t)
      BY <3>1, SMTT(30) DEF Suppressed
    <3>2. CASE EgressError(t)
      BY <3>2, SMTT(30) DEF EgressError
    <3> QED
      BY <1>7, <3>1, <3>2, SMTT(30)
  <2>2. Respond(t, "ACK", "dedup") \/ Return(t)
    BY <1>7, OtherEffects, SMTT(30)
  <2> QED
    BY <1>2, <2>1, <2>2, SMTT(30)
<1>8. ASSUME NEW t \in Threads, Lock(t) PROVE Requested'
  <2>1. UNCHANGED <<cache, sent>> /\ worker[t].pc = "lock"
    BY <1>8, SMTT(30) DEF Lock
  <2>2. OnRequest(worker'[t]) /\ Others(t)
    BY <1>1, <1>8, <2>1, LockEffect, SMTT(30) DEF OnRequest, Past
  <2> QED
    BY <2>1, <2>2, RequestedKept
<1>9. ASSUME NEW t \in Threads, NEW e \in Ifaces, WriteTo(t, e) PROVE Requested'
  <2>1. worker[t].pc = "send" /\ UNCHANGED cache
    BY <1>9 DEF WriteTo
  <2>2. \A m \in sent' \ sent :
          /\ m.frame = worker[t].raw /\ m.key = worker[t].key /\ m.group = worker[t].group
    BY <1>1, <1>9, SMTT(30) DEF WriteTo
  <2>3. SentIsRequested'
    BY <1>1, <2>1, <2>2 DEF Requested, SentIsRequested, OnRequest, Past
  <2>4. OnRequest(worker'[t]) /\ Others(t)
    <3>1. CASE Respond(t, "ACK", "sent")
      BY <3>1, RespondEffect, OnRequestIdle, SMTT(30)
    <3>2. CASE ~Respond(t, "ACK", "sent")
      BY <1>1, <1>9, <2>1, <3>2, WriteToEffect, SMTT(30) DEF OnRequest
    <3> QED
      BY <3>1, <3>2
  <2> QED
    BY <2>1, <2>3, <2>4 DEF Requested, Others, OnRequest
<1>10. ASSUME NEW i \in Instances, Crash(i) PROVE Requested'
  <2>1. \A t \in Threads : OnRequest(worker'[t])
    BY <1>1, <1>10, OtherEffects, OnRequestIdle, SMTT(30)
  <2>2. UNCHANGED <<cache, sent>>
    BY <1>10, SMTT(30) DEF Crash
  <2> QED
    BY <2>1, <2>2, SMTT(30) DEF Requested, SentIsRequested, OnRequest
<1>11. CASE UNCHANGED <<cache, worker, sent>>
  BY <1>11 DEF Requested, SentIsRequested, OnRequest
<1> QED
  BY <1>3, <1>4, <1>5, <1>6, <1>7, <1>8, <1>9, <1>10, <1>11, RequestedStore, Zenon
  DEF Next, Step, Recvfrom, Discard, Tick, vars

\* architecture.md:139: with the Redis cache, what is multicast in answer to a
\* NACK is the frame it asked for, on the group of that frame.  (The in-memory
\* cache hands out slices of a buffer that is written to, and there this fails.)
THEOREM SentIsRequestedHolds ==
  ASSUME Backend = "redis"
  PROVE  Spec => []SentIsRequested
<1>1. Init => Requested
  BY OnRequestIdle DEF Init, Requested, SentIsRequested, Empty
<1>2. Spec => [](Typed /\ Requested)
  BY <1>1, TypedInit, TypedNext, RequestedNext, PTL DEF Spec
<1>3. Requested => SentIsRequested
  BY DEF Requested
<1> QED
  BY <1>2, <1>3, PTL

------------------------------------------------------------------------------
(* The dedup gate, under Redis *)

\* The passages through the gate there have been: those of the workers on their
\* way to send, and those that got a datagram out.
Passage(id, seq, claim) == [id |-> id, seq |-> seq, claim |-> claim]

Passages(ms, ws) ==
  {Passage(m.id, m.frame.seq, m.claim) : m \in ms} \cup
  {Passage(ws[t].id, ws[t].raw.seq, ws[t].claim) :
     t \in {u \in Threads : ws[u].pc \in {"lock", "send"}}}

\* Redis holds every frame's claim to the end of the window of whoever passed
\* the gate last, and two NACKs passed a window apart.
Gate(ps, cs) ==
  /\ \A p \in ps : p.seq \in SeqNums /\ p.claim \in Nat /\ p.claim + DedupWindow <= cs[p.seq]
  /\ \A p, q \in ps : p.seq = q.seq /\ p.id # q.id => Apart(p.claim, q.claim)

Gated == Gate(Passages(sent, worker), claims)

\* Nobody passes, and no claim is shortened.
LEMMA GatedKept ==
  ASSUME Typed, Typed', Gated, Passages(sent', worker') \subseteq Passages(sent, worker),
         \A s \in SeqNums : claims[s] <= claims'[s]
  PROVE  Gated'
<1>1. \A s \in SeqNums : claims[s] \in Nat /\ claims'[s] \in Nat
  BY SMTT(30) DEF Typed, TypeOK
<1>2. DedupWindow \in Nat
  BY EndpointAssumption
<1> DEFINE ps == Passages(sent, worker)
           qs == Passages(sent', worker')
<1>3. Gate(ps, claims) /\ qs \subseteq ps
  BY DEF Gated
<1>4. Gate(qs, claims')
  <2> HIDE DEF ps, qs
  <2> QED
    BY <1>1, <1>2, <1>3 DEF Gate
<1> QED
  BY <1>4 DEF Gated

\* A worker moves without passing the gate.
LEMMA PassagesKept ==
  ASSUME NEW t \in Threads, Others(t), UNCHANGED sent,
         worker'[t].pc \in {"lock", "send"} =>
           /\ worker[t].pc \in {"lock", "send"}
           /\ worker'[t].id = worker[t].id /\ worker'[t].raw = worker[t].raw
           /\ worker'[t].claim = worker[t].claim
  PROVE  Passages(sent', worker') \subseteq Passages(sent, worker)
<1>1. ASSUME NEW u \in Threads, worker'[u].pc \in {"lock", "send"}
      PROVE  /\ worker[u].pc \in {"lock", "send"}
             /\ worker'[u].id = worker[u].id /\ worker'[u].raw = worker[u].raw
             /\ worker'[u].claim = worker[u].claim
  BY <1>1 DEF Others
<1> QED
  BY <1>1, Zenon DEF Passages

\* Whoever claims the key does so after the last claim has run out.
LEMMA GatedEnter ==
  ASSUME Backend = "redis", Typed, Gated, NEW t \in Threads, EnterGate(t)
  PROVE  Gated'
<1> DEFINE s == worker[t].raw.seq
           new == Passage(worker[t].id, s, clock)
           ps == Passages(sent, worker)
           qs == Passages(sent', worker')
<1>1. worker[t].pc \in Past /\ Bytes(t) = {worker[t].raw} /\ clock \in Nat /\ Dedup
  BY EndpointAssumption DEF EnterGate, Past, Bytes, Typed, TypeOK
<1>2. s \in SeqNums
  BY <1>1, BytesType
<1>3. Claim(s)
  BY <1>1, SMTT(30) DEF EnterGate, buildDedupKey
<1>4. /\ claims[s] \in Nat /\ clock >= claims[s] /\ claims'[s] = clock + DedupWindow
      /\ \A r \in SeqNums \ {s} : claims'[r] = claims[r]
      /\ \A r \in SeqNums : claims[r] \in Nat
      /\ DedupWindow \in Nat
  BY <1>2, <1>3, ClaimType, EndpointAssumption DEF Typed, TypeOK
<1>5. new.id = worker[t].id /\ new.seq = s /\ new.claim = clock
  BY DEF Passage
<1>6. qs \subseteq ps \cup {new}
  <2>1. /\ UNCHANGED sent /\ Others(t)
        /\ Passage(worker'[t].id, worker'[t].raw.seq, worker'[t].claim) = new
    BY EnterGateEffect, Zenon DEF EnterGate
  <2>2. ASSUME NEW u \in Threads, worker'[u].pc \in {"lock", "send"}
        PROVE  Passage(worker'[u].id, worker'[u].raw.seq, worker'[u].claim) \in ps \cup {new}
    <3> HIDE DEF new
    <3>1. CASE u = t
      BY <2>1, <3>1
    <3>2. CASE u # t
      <4>1. worker'[u] = worker[u]
        BY <2>1, <3>2 DEF Others
      <4> QED
        BY <2>2, <4>1, SMTT(30) DEF Passages
    <3> QED
      BY <3>1, <3>2
  <2> HIDE DEF new
  <2> QED
    BY <2>1, <2>2 DEF Passages
<1>7. Gate(ps, claims)
  BY DEF Gated
<1>8. Gate(qs, claims')
  <2> HIDE DEF ps, qs, new, s
  <2>1. \A p \in ps : p.seq = s => p.claim + DedupWindow <= clock
    BY <1>4, <1>7, <1>1, SMTT(30) DEF Gate
  <2>2. \A p \in qs : /\ p.seq \in SeqNums /\ p.claim \in Nat
                      /\ p.claim + DedupWindow <= claims'[p.seq]
    BY <1>1, <1>2, <1>4, <1>5, <1>6, <1>7, <2>1, SMTT(30) DEF Gate
  <2>3. \A p, q \in qs : p.seq = q.seq /\ p.id # q.id => Apart(p.claim, q.claim)
    BY <1>5, <1>6, <1>7, <2>1 DEF Gate, Apart
  <2> QED
    BY <2>2, <2>3, SMTT(30) DEF Gate
<1> QED
  BY <1>8 DEF Gated

\* Every step keeps Gated, given copies in the cache (Redis).
LEMMA GatedNext ==
  ASSUME Backend = "redis"
  PROVE  Typed /\ Gated /\ [Next]_vars => Gated'
<1> SUFFICES ASSUME Typed, Gated, [Next]_vars PROVE Gated'
  OBVIOUS
<1>1. Typed'
  BY TypedNext
<1>2. \A s \in SeqNums : claims[s] \in Nat /\ claims'[s] \in Nat
  BY <1>1, SMTT(30) DEF Typed, TypeOK
<1>3. ASSUME NEW t \in Threads, NEW type, NEW why, Respond(t, type, why) \/ Return(t),
             UNCHANGED <<sent, claims>>
      PROVE  Gated'
  BY <1>1, <1>2, <1>3, RespondEffect, PassagesKept, GatedKept, SMTT(30)
<1>4. ASSUME NEW t \in Threads, NEW n \in Nacks, Accept(t, n) PROVE Gated'
  <2>1. UNCHANGED <<sent, claims>>
    BY <1>4, SMTT(30) DEF Accept
  <2> QED
    BY <1>1, <1>2, <1>4, <2>1, AcceptEffect, PassagesKept, GatedKept, SMTT(30)
<1>5. ASSUME NEW t \in Threads, Lookup(t) PROVE Gated'
  <2>1. UNCHANGED <<sent, claims>>
    BY <1>5, ZenonT(30) DEF Lookup
  <2> QED
    BY <1>1, <1>2, <1>3, <1>5, <2>1, LookupEffect, PassagesKept, GatedKept, SMTT(30)
<1>6. ASSUME NEW t \in Threads, AllowGroup(t) PROVE Gated'
  <2>1. UNCHANGED <<sent, claims>>
    BY <1>6, ZenonT(30) DEF AllowGroup
  <2> QED
    BY <1>1, <1>2, <1>3, <1>6, <2>1, AllowGroupEffect, PassagesKept, GatedKept, SMTT(30)
<1>7. ASSUME NEW t \in Threads, Suppressed(t) PROVE Gated'
  <2>1. \A s \in SeqNums : claims[s] <= claims'[s]
    <3>1. CASE UNCHANGED claims
      BY <1>2, <3>1
    <3>2. ASSUME NEW b \in Bytes(t), Claim(buildDedupKey(b))
          PROVE  \A s \in SeqNums : claims[s] <= claims'[s]
      <4>1. buildDedupKey(b) \in SeqNums
        BY <1>7, BytesType, SMTT(30) DEF Suppressed, Past, buildDedupKey
      <4>2. TypeOK /\ clock \in Nat /\ DedupWindow \in Nat
        BY EndpointAssumption, SMTT(30) DEF Typed, TypeOK
      <4> QED
        BY <1>2, <3>2, <4>1, <4>2, ClaimType, SMTT(30)
    <3> QED
      BY <1>7, <3>1, <3>2, Zenon DEF Suppressed
  <2>2. UNCHANGED sent /\ Respond(t, "ACK", "dedup")
    BY <1>7, SMTT(30) DEF Suppressed
  <2> QED
    BY <1>1, <2>1, <2>2, RespondEffect, PassagesKept, GatedKept
<1>8. ASSUME NEW t \in Threads, EgressError(t) PROVE Gated'
  BY <1>3, <1>8, SMTT(30) DEF EgressError
<1>9. ASSUME NEW t \in Threads, Lock(t) PROVE Gated'
  <2>1. UNCHANGED <<sent, claims>> /\ worker[t].pc = "lock"
    BY <1>9, SMTT(30) DEF Lock
  <2> QED
    BY <1>1, <1>2, <1>9, <2>1, LockEffect, PassagesKept, GatedKept, SMTT(30)
<1>10. ASSUME NEW t \in Threads, NEW e \in Ifaces, WriteTo(t, e) PROVE Gated'
  <2> DEFINE p == Passage(worker[t].id, worker[t].raw.seq, worker[t].claim)
  <2>1. worker[t].pc = "send" /\ UNCHANGED claims
    BY <1>10 DEF WriteTo
  <2>2. p \in Passages(sent, worker)
    BY <2>1 DEF Passages
  <2>3. sent \subseteq sent' /\ \A m \in sent' \ sent : Passage(m.id, m.frame.seq, m.claim) = p
    BY <1>10, SMTT(30) DEF WriteTo, Bytes
  <2>4. /\ worker'[t].pc \in {"lock", "send"} =>
             Passage(worker'[t].id, worker'[t].raw.seq, worker'[t].claim) = p
        /\ Others(t)
    BY <1>10, WriteToEffect, RespondEffect, SMTT(30)
  <2>5. Passages(sent', worker') \subseteq Passages(sent, worker)
    <3> HIDE DEF p
    <3>1. \A m \in sent' : Passage(m.id, m.frame.seq, m.claim) \in Passages(sent, worker)
      BY <2>2, <2>3 DEF Passages
    <3>2. \A u \in Threads : worker'[u].pc \in {"lock", "send"} =>
            Passage(worker'[u].id, worker'[u].raw.seq, worker'[u].claim)
              \in Passages(sent, worker)
      BY <2>2, <2>4 DEF Passages, Others
    <3> QED
      BY <3>1, <3>2 DEF Passages
  <2> QED
    BY <1>1, <1>2, <2>1, <2>5, GatedKept, SMTT(30)
<1>11. ASSUME NEW i \in Instances, Crash(i) PROVE Gated'
  <2>1. UNCHANGED <<sent, claims>>
    BY <1>11, SMTT(30) DEF Crash
  <2>2. \A t \in Threads : worker'[t].pc \in {"lock", "send"} => worker'[t] = worker[t]
    <3>1. \A t \in Threads : worker'[t] = IF t[1] = i THEN Idle ELSE worker[t]
      BY <1>11, OtherEffects, Zenon
    <3>2. Idle.pc \notin {"lock", "send"}
      BY DEF Idle
    <3> QED
      BY <3>1, <3>2, Zenon
  <2>3. Passages(sent', worker') \subseteq Passages(sent, worker)
    BY <2>1, <2>2 DEF Passages
  <2> QED
    BY <1>1, <1>2, <2>1, <2>3, GatedKept, SMTT(30)
<1>12. CASE UNCHANGED <<worker, sent, claims>>
  BY <1>12 DEF Gated
<1> QED
  BY <1>4, <1>5, <1>6, <1>7, <1>8, <1>9, <1>10, <1>11, <1>12, GatedEnter, Zenon
  DEF Next, Step, Recvfrom, processFrame, Discard, Tick, vars

\* architecture.md:158-160, retransmit.go:91-110: with the Redis cache, however
\* many instances and workers there are, whatever calls fail and whoever
\* crashes, multicasts of a frame for different NACKs passed the gate at least
\* a dedup window apart.
THEOREM OncePerWindowHolds ==
  ASSUME Backend = "redis"
  PROVE  Spec => []OncePerWindow
<1>1. Init => Gated
  <2>1. Init => Passages(sent, worker) = {}
    BY SMTT(30) DEF Init, Passages, Idle
  <2> QED
    BY <2>1, SMTT(30) DEF Gated, Gate
<1>2. Gated => OncePerWindow
  <2> SUFFICES ASSUME Gated, NEW a \in sent, NEW b \in sent,
                      a.frame.seq = b.frame.seq, a.id # b.id
               PROVE  Apart(a.claim, b.claim)
    BY DEF OncePerWindow
  <2> DEFINE p == Passage(a.id, a.frame.seq, a.claim)
             q == Passage(b.id, b.frame.seq, b.claim)
  <2>1. p \in Passages(sent, worker) /\ q \in Passages(sent, worker)
    BY DEF Passages
  <2>2. /\ p.id = a.id /\ p.seq = a.frame.seq /\ p.claim = a.claim
        /\ q.id = b.id /\ q.seq = b.frame.seq /\ q.claim = b.claim
    BY SMTT(30) DEF Passage
  <2> HIDE DEF p, q
  <2> QED
    BY <2>1, <2>2 DEF Gated, Gate
<1>3. Spec => [](Typed /\ Gated)
  BY <1>1, TypedInit, TypedNext, GatedNext, PTL DEF Spec
<1> QED
  BY <1>2, <1>3, PTL

------------------------------------------------------------------------------
(* What becomes of a claim, under Redis *)

\* A claim of s came to nothing, got a datagram out, or is being acted upon.
Accounted(s, ms, ws, ls) ==
  \/ s \in ls
  \/ \E m \in ms : m.key[2] = s
  \/ \E t \in Threads : ws[t].pc \in {"lock", "send"} /\ ws[t].key[2] = s

Covered ==
  /\ \A s \in SeqNums : claims[s] # 0 => Accounted(s, sent, worker, lost)
  /\ \A r \in answered : r.why = "dedup" => Accounted(r.key[2], sent, worker, lost)

\* No worker past the gate vanishes without a trace.
Traced(t) ==
  worker[t].pc \in {"lock", "send"} => Accounted(worker[t].key[2], sent', worker', lost')

\* What is accounted for stays so when every worker leaves a trace.
LEMMA CoveredKept ==
  ASSUME Covered, lost \subseteq lost', sent \subseteq sent',
         \A t \in Threads : Traced(t),
         \A s \in SeqNums : claims'[s] # claims[s] => Accounted(s, sent', worker', lost'),
         \A r \in answered' \ answered :
           r.why = "dedup" => Accounted(r.key[2], sent', worker', lost')
  PROVE  Covered'
<1>1. \A s : Accounted(s, sent, worker, lost) => Accounted(s, sent', worker', lost')
  <2> SUFFICES ASSUME NEW s, Accounted(s, sent, worker, lost)
               PROVE  Accounted(s, sent', worker', lost')
    OBVIOUS
  <2>1. CASE s \in lost \/ \E m \in sent : m.key[2] = s
    BY <2>1 DEF Accounted
  <2>2. CASE \E t \in Threads : worker[t].pc \in {"lock", "send"} /\ worker[t].key[2] = s
    BY <2>2, Zenon DEF Traced
  <2> QED
    BY <2>1, <2>2 DEF Accounted
<1>2. \A s \in SeqNums : claims'[s] # 0 => Accounted(s, sent', worker', lost')
  BY <1>1, Zenon DEF Covered
<1>3. \A r \in answered' : r.why = "dedup" => Accounted(r.key[2], sent', worker', lost')
  BY <1>1, Zenon DEF Covered
<1>4. (\A s \in SeqNums : claims[s] # 0 => Accounted(s, sent, worker, lost))'
  BY <1>2, Zenon DEF Accounted
<1>5. (\A r \in answered : r.why = "dedup" => Accounted(r.key[2], sent, worker, lost))'
  BY <1>3, Zenon DEF Accounted
<1> QED
  BY <1>4, <1>5, Zenon DEF Covered

\* A worker moves, and keeps the key it claimed.
LEMMA TracedMoves ==
  ASSUME NEW t \in Threads, Others(t),
         worker[t].pc \in {"lock", "send"} =>
           worker'[t].pc \in {"lock", "send"} /\ worker'[t].key = worker[t].key
  PROVE  \A u \in Threads : Traced(u)
<1>1. \A u \in Threads : worker[u].pc \in {"lock", "send"} =>
        worker'[u].pc \in {"lock", "send"} /\ worker'[u].key = worker[u].key
  BY Zenon DEF Others
<1> QED
  BY <1>1, Zenon DEF Traced, Accounted

\* Passing the gate, and being turned away at it.
LEMMA CoveredGate ==
  ASSUME Backend = "redis", Typed, Requested, Covered, NEW t \in Threads,
         EnterGate(t) \/ Suppressed(t)
  PROVE  Covered'
<1> DEFINE s == worker[t].key[2]
<1>1. /\ worker[t].pc = "dedup" /\ worker[t].pc \in Past
      /\ worker[t].pc \notin {"lock", "send"} /\ UNCHANGED sent
  BY Zenon DEF EnterGate, Suppressed, Past
<1>2. \A b \in Bytes(t) : buildDedupKey(b) = s /\ buildDedupKey(b) \in SeqNums
  <2>1. CacheKey(worker[t].raw) = worker[t].key
    BY <1>1 DEF Requested, OnRequest
  <2>2. CacheKey(worker[t].raw)[2] = worker[t].raw.seq
    BY DEF CacheKey
  <2>3. \A b \in Bytes(t) : b = worker[t].raw
    BY SMTT(30) DEF Bytes
  <2> QED
    BY <1>1, <2>1, <2>2, <2>3, BytesType DEF buildDedupKey
<1>3. /\ s \in SeqNums /\ claims \in [SeqNums -> Nat]
      /\ Claim(s) => \A r \in SeqNums \ {s} : claims'[r] = claims[r]
  BY <1>1, ClaimType, Zenon DEF Typed, TypeOK, WorkerOK, Fits, SeqNums
<1>4. CASE EnterGate(t)
  <2>1. /\ worker'[t].pc \in {"lock", "send"} /\ worker'[t].key = worker[t].key
        /\ Others(t) /\ UNCHANGED <<lost, answered>>
    BY <1>4, EnterGateEffect, Zenon DEF EnterGate
  <2>2. Accounted(s, sent', worker', lost')
    BY <2>1, Zenon DEF Accounted
  <2>3. \A r \in SeqNums : claims'[r] # claims[r] => r = s
    <3>1. Claim(s) \/ UNCHANGED claims
      BY <1>2, <1>4, Zenon DEF EnterGate
    <3> QED
      BY <1>3, <3>1
  <2>4. \A u \in Threads : Traced(u)
    BY <1>1, <2>1, TracedMoves, Zenon
  <2> HIDE DEF s
  <2> QED
    BY <1>1, <2>1, <2>2, <2>3, <2>4, CoveredKept, Zenon
<1>5. CASE Suppressed(t)
  <2>1. /\ \A r \in answered' \ answered : r.key = worker[t].key
        /\ Others(t)
    <3>1. Respond(t, "ACK", "dedup")
      BY <1>5, Zenon DEF Suppressed
    <3> QED
      BY <3>1, RespondEffect, SMTT(30)
  <2>2. \A u \in Threads : Traced(u)
    BY <1>1, <2>1, TracedMoves, Zenon
  <2>3. \A r \in answered' \ answered : r.key[2] = s
    BY <2>1, Zenon
  <2>4. CASE clock < claims[s] /\ UNCHANGED <<claims, lost>>
    <3>1. claims[s] # 0
      BY <1>3, <2>4, SMTT(30) DEF Typed, TypeOK
    <3>2. Accounted(s, sent, worker, lost)
      BY <1>3, <3>1 DEF Covered
    <3>3. Accounted(s, sent', worker', lost')
      BY <1>1, <2>2, <2>4, <3>2, Zenon DEF Accounted, Traced
    <3> HIDE DEF s
    <3> QED
      BY <1>1, <2>2, <2>3, <2>4, <3>3, CoveredKept, Zenon
  <2>5. CASE (Claim(s) \/ UNCHANGED claims) /\ lost' = lost \cup {s}
    <3>1. Accounted(s, sent', worker', lost') /\ lost \subseteq lost'
      BY <2>5, Zenon DEF Accounted
    <3>2. \A r \in SeqNums : claims'[r] # claims[r] => r = s
      BY <1>3, <2>5
    <3> HIDE DEF s
    <3> QED
      BY <1>1, <2>2, <2>3, <3>1, <3>2, CoveredKept, Zenon
  <2> QED
    BY <1>2, <1>5, <2>4, <2>5, Zenon DEF Suppressed
<1> QED
  BY <1>4, <1>5

\* Every step keeps Covered, given copies in the cache (Redis).
LEMMA CoveredNext ==
  ASSUME Backend = "redis"
  PROVE  Typed /\ Requested /\ Covered /\ [Next]_vars => Covered'
<1> SUFFICES ASSUME Typed, Requested, Covered, [Next]_vars PROVE Covered'
  BY SMTT(30)
<1>1. ASSUME NEW t \in Threads, Others(t), UNCHANGED <<claims, lost, sent>>,
             worker[t].pc \in {"lock", "send"} =>
               worker'[t].pc \in {"lock", "send"} /\ worker'[t].key = worker[t].key,
             \A r \in answered' \ answered : r.why # "dedup"
      PROVE  Covered'
  <2>1. \A u \in Threads : Traced(u)
    BY <1>1, TracedMoves, Zenon
  <2> QED
    BY <1>1, <2>1, CoveredKept, Zenon
<1>2. ASSUME NEW t \in Threads, NEW n \in Nacks, Accept(t, n) PROVE Covered'
  <2>1. Idle.pc = "idle"
    BY DEF Idle
  <2>2. worker[t].pc = "idle" /\ UNCHANGED <<claims, lost, sent, answered>>
    BY <1>2, <2>1, Zenon DEF Accept
  <2> QED
    BY <1>1, <1>2, <2>2, AcceptEffect
<1>3. ASSUME NEW t \in Threads, Lookup(t) PROVE Covered'
  <2>1. worker[t].pc = "lookup" /\ UNCHANGED <<claims, lost, sent>>
    BY <1>3, Zenon DEF Lookup
  <2>2. CASE Respond(t, "MISS", "miss") \/ Return(t)
    <3>1. Others(t) /\ \A r \in answered' \ answered : r.why # "dedup"
      BY <2>2, RespondEffect, SMTT(30)
    <3> QED
      BY <1>1, <2>1, <3>1
  <2>3. CASE Others(t) /\ UNCHANGED answered
    BY <1>1, <2>1, <2>3
  <2> QED
    BY <1>3, <2>2, <2>3, LookupEffect, Zenon
<1>4. ASSUME NEW t \in Threads, AllowGroup(t) PROVE Covered'
  <2>1. worker[t].pc = "group" /\ UNCHANGED <<claims, lost, sent>>
    BY <1>4, Zenon DEF AllowGroup
  <2>2. CASE Respond(t, "ACK", "throttled")
    <3>1. Others(t) /\ \A r \in answered' \ answered : r.why # "dedup"
      BY <2>2, RespondEffect, SMTT(30)
    <3> QED
      BY <1>1, <2>1, <3>1
  <2>3. CASE Others(t) /\ UNCHANGED answered
    BY <1>1, <2>1, <2>3
  <2> QED
    BY <1>4, <2>2, <2>3, AllowGroupEffect, Zenon
<1>5. ASSUME NEW t \in Threads, Lock(t) PROVE Covered'
  <2>1. UNCHANGED <<claims, lost, sent, answered>>
    BY <1>5, Zenon DEF Lock
  <2>2. worker'[t].pc \in {"lock", "send"} /\ worker'[t].key = worker[t].key /\ Others(t)
    BY <1>5, LockEffect, Zenon
  <2> QED
    BY <1>1, <2>1, <2>2
<1>6. ASSUME NEW t \in Threads, NEW e \in Ifaces, WriteTo(t, e) PROVE Covered'
  <2>1. PICK b : sent' = sent \cup
          {[id |-> worker[t].id, key |-> worker[t].key, frame |-> b,
            group |-> worker[t].group, iface |-> e, claim |-> worker[t].claim]}
    BY <1>6, Zenon DEF WriteTo
  <2>2. sent \subseteq sent' /\ \E m \in sent' : m.key = worker[t].key
    <3> DEFINE m == [id |-> worker[t].id, key |-> worker[t].key, frame |-> b,
                     group |-> worker[t].group, iface |-> e, claim |-> worker[t].claim]
    <3>1. m.key = worker[t].key
      OBVIOUS
    <3>2. sent' = sent \cup {m}
      BY <2>1
    <3> HIDE DEF m
    <3> QED
      BY <3>1, <3>2
  <2>3. UNCHANGED <<claims, lost>>
    BY <1>6, Zenon DEF WriteTo
  <2>4. Others(t) /\ \A r \in answered' \ answered : r.why # "dedup"
    <3>1. CASE Respond(t, "ACK", "sent")
      BY <3>1, RespondEffect, SMTT(30)
    <3>2. CASE Others(t) /\ UNCHANGED answered
      BY <3>2
    <3> QED
      BY <1>6, <3>1, <3>2, WriteToEffect, Zenon
  <2>5. Traced(t)
    BY <2>2, Zenon DEF Traced, Accounted
  <2>6. \A u \in Threads \ {t} : Traced(u)
    BY <2>4, Zenon DEF Traced, Accounted, Others
  <2> QED
    BY <2>2, <2>3, <2>4, <2>5, <2>6, CoveredKept
<1>7. ASSUME NEW t \in Threads, EgressError(t) PROVE Covered'
  <2>1. /\ UNCHANGED <<claims, sent>> /\ lost' = lost \cup {worker[t].key[2]}
        /\ Return(t)
    BY <1>7, Zenon DEF EgressError
  <2>2. Others(t) /\ UNCHANGED answered
    <3>1. worker' = [worker EXCEPT ![t] = Idle] /\ UNCHANGED answered
      BY <2>1, Zenon DEF Return
    <3> QED
      BY <3>1 DEF Others, Typed, TypeOK
  <2>3. Traced(t)
    BY <2>1, Zenon DEF Traced, Accounted
  <2>4. \A u \in Threads \ {t} : Traced(u)
    BY <2>2, Zenon DEF Traced, Accounted, Others
  <2> QED
    BY <2>1, <2>2, <2>3, <2>4, CoveredKept
<1>8. ASSUME NEW i \in Instances, Crash(i) PROVE Covered'
  <2>1. /\ UNCHANGED <<claims, sent, answered>> /\ lost \subseteq lost'
        /\ \A t \in Threads : worker'[t] = IF t[1] = i THEN Idle ELSE worker[t]
    BY <1>8, OtherEffects, Zenon DEF Crash
  <2>2. ASSUME NEW t \in Threads PROVE Traced(t)
    <3>1. CASE t[1] = i
      <4>1. worker[t].pc \in {"lock", "send"} => worker[t].key[2] \in lost'
        <5>1. t \in {u \in Threads : u[1] = i /\ Sending(u)}
                => worker[t].key[2] \in lost'
          BY <1>8 DEF Crash
        <5> QED
          BY <3>1, <5>1, Zenon DEF Sending
      <4> QED
        BY <4>1, Zenon DEF Traced, Accounted
    <3>2. CASE t[1] # i
      <4>1. worker'[t] = worker[t]
        BY <2>1, <3>2
      <4> QED
        BY <4>1, Zenon DEF Traced, Accounted
    <3> QED
      BY <3>1, <3>2
  <2> QED
    BY <2>1, <2>2, CoveredKept, SMTT(30)
<1>9. CASE UNCHANGED <<claims, worker, sent, answered, lost>>
  BY <1>9 DEF Covered, Accounted
<1> QED
  BY <1>2, <1>3, <1>4, <1>5, <1>6, <1>7, <1>8, <1>9, CoveredGate, Zenon
  DEF Next, Step, Recvfrom, processFrame, Discard, Tick, vars

\* retransmit.go:95-104: with the Redis cache, and sequence numbers that no two
\* flows share, a NACK that was suppressed is one whose frame was multicast,
\* unless a claim of it came to nothing: for any number of instances and
\* workers, in every order of their steps.
THEOREM SuppressedUnlessLostHolds ==
  ASSUME Backend = "redis", \A j, k \in Keys : j[2] = k[2] => j = k
  PROVE  Spec => []SuppressedUnlessLost
<1>1. Init => Requested /\ Covered
  BY OnRequestIdle, SMTT(30) DEF Init, Requested, SentIsRequested, Empty, Covered
<1>2. Spec => [](Typed /\ Requested /\ Covered)
  BY <1>1, TypedInit, TypedNext, RequestedNext, CoveredNext, PTL DEF Spec
<1>3. Typed /\ Covered => SuppressedUnlessLost
  <2> SUFFICES ASSUME Typed, Covered, \A t \in Threads : worker[t] = Idle,
                      NEW r \in answered, r.why = "dedup", r.key[2] \notin lost
               PROVE  \E m \in sent : m.key = r.key
    BY Zenon DEF SuppressedUnlessLost
  <2>1. \A t \in Threads : worker[t].pc \notin {"lock", "send"}
    BY DEF Idle
  <2>2. PICK m \in sent : m.key[2] = r.key[2]
    BY <2>1, Zenon DEF Covered, Accounted
  <2>3. m.key \in Keys /\ r.key \in Keys
    BY SMTT(30) DEF Typed, TypeOK
  <2> QED
    BY <2>2, <2>3
<1> QED
  BY <1>2, <1>3, PTL

==============================================================================
