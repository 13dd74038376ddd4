---------------------------- MODULE EndpointProofs ----------------------------
(***************************************************************************)
(* What holds of module Endpoint for every number of instances, workers,   *)
(* interfaces, frames and NACKs, and every combination of faults, under    *)
(* either backend.                                                         *)
(*                                                                         *)
(* The proofs are in layers.  Typed is inductive by itself.  Each of the   *)
(* other invariants is inductive relative to Typed, and gives one of the   *)
(* properties.                                                             *)
(***************************************************************************)
EXTENDS Endpoint, TLAPS

------------------------------------------------------------------------------
(* Types *)

Past == {"group", "dedup", "lock", "send"}

Filled(i) == buf[i].old # Nil /\ buf[i].new # Nil

\* An in-memory cache that holds anything, and a worker that got anything from
\* it, have a buffer behind them that has been filled.
BufferOK ==
  /\ \A i \in Instances : buf[i].busy => buf[i].new # Nil
  /\ Backend = "memory" =>
       /\ \A i \in Instances : \A k \in Keys : cache[i][k] # Nil => Filled(i)
       /\ \A t \in Threads : worker[t].raw # Nil => Filled(t[1])

\* What a worker knows by the time it gets somewhere.
Fits(w) ==
  /\ w.pc # "idle" => w.key \in Keys
  /\ w.pc \in Past => w.raw \in Values
  /\ w.pc = "send" => w.group \in Groups

WorkerOK == \A t \in Threads : Fits(worker[t])

Typed == TypeOK /\ BufferOK /\ WorkerOK

\* Values are frames, and their sequence numbers those of the keys.
LEMMA ValueType ==
  ASSUME NEW f \in Values
  PROVE  f \in Frame /\ f # Nil /\ CacheKey(f) \in Keys /\ f.seq \in SeqNums /\ f.tx \in Nat
<1>1. f \in Frame /\ f # Nil /\ CacheKey(f) \in Keys /\ f.tx \in Nat
  BY EndpointAssumption, CacheAssumption DEF Frame
<1>2. CacheKey(f)[2] = f.seq
  BY DEF CacheKey
<1> QED
  BY <1>1, <1>2 DEF SeqNums

\* The bytes a worker reads, under either backend, make up a frame.
LEMMA BytesType ==
  ASSUME Typed, NEW t \in Threads, worker[t].pc \in Past, NEW b \in Bytes(t)
  PROVE  b \in Frame /\ b.seq \in SeqNums /\ b.tx \in Nat
<1>1. t[1] \in Instances /\ worker[t].raw \in Values /\ worker[t].raw # Nil
  BY CacheAssumption DEF Threads, Typed, WorkerOK, Fits
<1>2. CASE Backend = "redis"
  <2>1. b = worker[t].raw
    BY <1>2 DEF Bytes
  <2> QED
    BY <1>1, <2>1, ValueType
<1>3. CASE Backend = "memory"
  <2>1. buf[t[1]].old \in Values /\ buf[t[1]].new \in Values
    BY <1>1, <1>3 DEF Typed, BufferOK, TypeOK, Filled
  <2>2. /\ buf[t[1]].old \in Frame /\ buf[t[1]].new \in Frame
        /\ buf[t[1]].old.seq \in SeqNums /\ buf[t[1]].new.seq \in SeqNums
    BY <2>1, ValueType
  <2> QED
    BY <1>3, <2>2 DEF Bytes, Frame
<1> QED
  BY <1>2, <1>3, EndpointAssumption

\* The address a frame is sent to is one of the groups (shard.Engine).
LEMMA GroupAddrType ==
  ASSUME NEW ver \in Nat, NEW tx \in Nat
  PROVE  GroupAddr(ver, tx) \in Groups
  BY EndpointAssumption DEF GroupAddr, GroupIndex, Groups

\* A worker with no NACK is in a legal state and holds no frame.
LEMMA IdleType == Idle \in WorkerState /\ Fits(Idle) /\ Idle.raw = Nil
  BY DEF Idle, WorkerState, Fits, Past

\* A worker moves to a state that fits.
LEMMA WorkerMoves ==
  ASSUME Typed, NEW t \in Threads, NEW w \in WorkerState, Fits(w),
         w.raw # Nil /\ Backend = "memory" => Filled(t[1]),
         worker' = [worker EXCEPT ![t] = w],
         UNCHANGED <<buf, cache>>
  PROVE  worker' \in [Threads -> WorkerState] /\ BufferOK' /\ WorkerOK'
<1>1. worker' \in [Threads -> WorkerState]
  BY DEF Typed, TypeOK
<1>2. /\ worker'[t] = w
      /\ \A u \in Threads \ {t} : worker'[u] = worker[u]
  BY DEF Typed, TypeOK
<1>3. BufferOK'
  BY <1>2 DEF Typed, BufferOK, Filled
<1>4. WorkerOK'
  BY <1>2 DEF Typed, WorkerOK, Fits
<1> QED
  BY <1>1, <1>3, <1>4

\* A worker answers, or not, and is idle again.
LEMMA RespondType ==
  ASSUME Typed, NEW t \in Threads, worker[t].pc # "idle", NEW type,
         NEW why \in {"miss", "throttled", "dedup", "sent"},
         Respond(t, type, why) \/ Return(t),
         UNCHANGED <<buf, cache>>
  PROVE  /\ worker' \in [Threads -> WorkerState] /\ BufferOK' /\ WorkerOK'
         /\ answered' \subseteq [id : Nat, inst : Instances, key : Keys, found : Nat,
                                 why : {"miss", "throttled", "dedup", "sent"}]
<1>1. worker' = [worker EXCEPT ![t] = Idle]
  BY DEF Respond, Return
<1>2. worker' \in [Threads -> WorkerState] /\ BufferOK' /\ WorkerOK'
  BY <1>1, WorkerMoves, IdleType, Zenon
<1>3. /\ worker[t].id \in Nat /\ t[1] \in Instances /\ worker[t].key \in Keys
      /\ worker[t].found \in Nat
  BY DEF Typed, TypeOK, WorkerOK, Fits, WorkerState, Threads
<1> QED
  BY <1>2, <1>3 DEF Typed, TypeOK, Respond, Return

\* Typed holds when the instances have just started.
LEMMA TypedInit == Init => Typed
<1> SUFFICES ASSUME Init PROVE Typed
  OBVIOUS
<1>1. worker \in [Threads -> WorkerState] /\ WorkerOK
  BY IdleType DEF Init, WorkerOK
<1>2. TypeOK
  BY <1>1 DEF Init, TypeOK, Empty, NoFrame
<1>3. BufferOK
  BY IdleType DEF Init, BufferOK, Filled, NoFrame, Empty, Threads
<1> QED
  BY <1>1, <1>2, <1>3 DEF Typed

\* Reading a datagram into the receive buffer keeps Typed.
LEMMA TypedRecvfrom ==
  ASSUME Typed, NEW i \in Instances, NEW f \in Values, Recvfrom(i, f)
  PROVE  Typed'
<1>1. /\ buf[i] \in [old : Values \cup {Nil}, new : Values \cup {Nil}, busy : BOOLEAN]
      /\ f # Nil
  BY CacheAssumption DEF Typed, TypeOK
<1>2. /\ buf'[i] = [buf[i] EXCEPT !.new = f, !.busy = TRUE]
      /\ \A j \in Instances \ {i} : buf'[j] = buf[j]
  BY DEF Typed, TypeOK, Recvfrom
<1>3. TypeOK'
  BY <1>1 DEF Typed, TypeOK, Recvfrom
<1>4. \A j \in Instances : Filled(j) => Filled(j)'
  BY <1>1, <1>2, Zenon DEF Filled
<1>5. BufferOK'
  <2>1. \A j \in Instances : buf'[j].busy => buf'[j].new # Nil
    BY <1>1, <1>2, Zenon DEF Typed, BufferOK
  <2>2. Backend = "memory" =>
          \A j \in Instances : \A k \in Keys : cache'[j][k] # Nil => Filled(j)'
    BY <1>4 DEF Typed, BufferOK, Recvfrom
  <2>3. Backend = "memory" => \A t \in Threads : worker'[t].raw # Nil => Filled(t[1])'
    BY <1>4 DEF Typed, BufferOK, Recvfrom, Threads
  <2> QED
    BY <2>1, <2>2, <2>3 DEF BufferOK, Filled
<1>6. WorkerOK'
  BY DEF Typed, WorkerOK, Fits, Recvfrom
<1> QED
  BY <1>3, <1>5, <1>6 DEF Typed

\* Store changes one entry of one instance's cache, or of all under Redis.
LEMMA StoreType ==
  ASSUME TypeOK, NEW i \in Instances, NEW f \in Values
  PROVE  /\ StoreFrame(i, f) \in [Instances -> [Keys -> Entry \cup {Nil}]]
         /\ \A j \in Instances : \A k \in Keys :
              StoreFrame(i, f)[j][k] =
                IF Shares(i, j) /\ k = CacheKey(f)
                THEN [value |-> f, expires |-> clock + TTL]
                ELSE cache[j][k]
<1>1. CacheKey(f) \in Keys /\ [value |-> f, expires |-> clock + TTL] \in Entry
  BY ValueType, CacheAssumption DEF TypeOK, Entry
<1>2. ASSUME NEW j \in Instances
      PROVE  /\ StoreFrame(i, f)[j] \in [Keys -> Entry \cup {Nil}]
             /\ \A k \in Keys :
                  StoreFrame(i, f)[j][k] =
                    IF Shares(i, j) /\ k = CacheKey(f)
                    THEN [value |-> f, expires |-> clock + TTL]
                    ELSE cache[j][k]
  <2>1. cache[j] \in [Keys -> Entry \cup {Nil}]
    BY DEF TypeOK
  <2> QED
    BY <1>1, <2>1 DEF StoreFrame, Put
<1> QED
  BY <1>2 DEF StoreFrame

\* Decoding and storing a frame keeps Typed.
LEMMA TypedProcessFrame ==
  ASSUME Typed, NEW i \in Instances, processFrame(i)
  PROVE  Typed'
<1> DEFINE f == buf[i].new
<1>1. /\ buf[i] \in [old : Values \cup {Nil}, new : Values \cup {Nil}, busy : BOOLEAN]
      /\ f # Nil /\ f \in Values
  BY DEF Typed, TypeOK, BufferOK, processFrame
<1>2. /\ buf'[i] = [buf[i] EXCEPT !.old = f, !.busy = FALSE]
      /\ \A j \in Instances \ {i} : buf'[j] = buf[j]
      /\ buf' \in [Instances -> [old : Values \cup {Nil}, new : Values \cup {Nil},
                                 busy : BOOLEAN]]
  BY <1>1 DEF Typed, TypeOK, processFrame
<1>3. /\ cache' \in [Instances -> [Keys -> Entry \cup {Nil}]]
      /\ Backend = "memory" =>
           \A j \in Instances \ {i} : \A k \in Keys : cache'[j][k] = cache[j][k]
      /\ stored' \subseteq [inst : Instances, frame : Values, at : Nat]
  <2>1. CASE cache' = StoreFrame(i, f) /\
             stored' = stored \cup {[inst |-> i, frame |-> f, at |-> clock]}
    <3>1. /\ cache' \in [Instances -> [Keys -> Entry \cup {Nil}]]
          /\ \A j \in Instances : \A k \in Keys : ~Shares(i, j) => cache'[j][k] = cache[j][k]
      BY <1>1, <2>1, StoreType, Zenon DEF Typed
    <3>2. stored' \subseteq [inst : Instances, frame : Values, at : Nat]
      BY <1>1, <2>1 DEF Typed, TypeOK
    <3> QED
      BY <3>1, <3>2 DEF Shares
  <2>2. CASE UNCHANGED <<cache, stored>>
    BY <2>2 DEF Typed, TypeOK
  <2> QED
    BY <2>1, <2>2 DEF processFrame
<1>4. TypeOK'
  BY <1>2, <1>3 DEF Typed, TypeOK, processFrame
<1>5. Filled(i)' /\ \A j \in Instances \ {i} : Filled(j) => Filled(j)'
  BY <1>1, <1>2 DEF Filled
<1>6. BufferOK'
  <2>1. \A j \in Instances : buf'[j].busy => buf'[j].new # Nil
    BY <1>1, <1>2, Zenon DEF Typed, BufferOK
  <2>2. Backend = "memory" =>
          \A j \in Instances : \A k \in Keys : cache'[j][k] # Nil => Filled(j)'
    BY <1>3, <1>5 DEF Typed, BufferOK
  <2>3. Backend = "memory" => \A t \in Threads : worker'[t].raw # Nil => Filled(t[1])'
    BY <1>5 DEF Typed, BufferOK, processFrame, Threads
  <2> QED
    BY <2>1, <2>2, <2>3 DEF BufferOK, Filled
<1>7. WorkerOK'
  BY DEF Typed, WorkerOK, Fits, processFrame
<1> QED
  BY <1>4, <1>6, <1>7 DEF Typed

\* A crash and restart of an instance keeps Typed.
LEMMA TypedCrash ==
  ASSUME Typed, NEW i \in Instances, Crash(i)
  PROVE  Typed'
<1>1. \A t \in Threads : worker'[t] = IF t[1] = i THEN Idle ELSE worker[t]
  BY DEF Crash
<1>2. worker' \in [Threads -> WorkerState] /\ WorkerOK'
  BY <1>1, IdleType DEF Typed, TypeOK, WorkerOK, Fits, Crash
<1>3. /\ buf'[i] = NoFrame
      /\ \A j \in Instances \ {i} : buf'[j] = buf[j]
      /\ buf' \in [Instances -> [old : Values \cup {Nil}, new : Values \cup {Nil},
                                 busy : BOOLEAN]]
  BY DEF Typed, TypeOK, Crash, NoFrame
<1>4. /\ cache' \in [Instances -> [Keys -> Entry \cup {Nil}]]
      /\ Backend = "memory" =>
           /\ cache'[i] = Empty
           /\ \A j \in Instances \ {i} : cache'[j] = cache[j]
  BY DEF Typed, TypeOK, Crash, Empty
<1>5. lost' \subseteq SeqNums
  <2>1. \A t \in Threads : Sending(t) => worker[t].key[2] \in SeqNums
    BY DEF Typed, WorkerOK, Fits, Sending, SeqNums
  <2> QED
    BY <2>1 DEF Typed, TypeOK, Crash
<1>6. TypeOK'
  BY <1>2, <1>3, <1>4, <1>5 DEF Typed, TypeOK, Crash
<1>7. BufferOK'
  <2>1. \A j \in Instances : buf'[j].busy => buf'[j].new # Nil
    BY <1>3 DEF Typed, BufferOK, NoFrame
  <2>2. Backend = "memory" =>
          \A j \in Instances : \A k \in Keys : cache'[j][k] # Nil => Filled(j)'
    BY <1>3, <1>4 DEF Typed, BufferOK, Empty, Filled
  <2>3. Backend = "memory" => \A t \in Threads : worker'[t].raw # Nil => Filled(t[1])'
    BY <1>1, <1>3, IdleType DEF Typed, BufferOK, Filled, Threads
  <2> QED
    BY <2>1, <2>2, <2>3 DEF BufferOK, Filled
<1> QED
  BY <1>2, <1>6, <1>7 DEF Typed

\* Taking up a valid NACK keeps Typed.
LEMMA TypedAccept ==
  ASSUME Typed, NEW t \in Threads, NEW n \in Nacks, Accept(t, n)
  PROVE  Typed'
<1> DEFINE w == [worker[t] EXCEPT !.pc = "lookup", !.id = nacks + 1,
                                  !.key = <<n.hash, n.start>>]
<1>1. /\ <<n.hash, n.start>> \in Keys /\ nacks + 1 \in Nat
      /\ worker[t] \in WorkerState /\ worker[t].raw = Nil
  BY EndpointAssumption, IdleType DEF Typed, TypeOK, Accept
<1>2. w \in WorkerState /\ Fits(w) /\ w.raw = Nil
  BY <1>1, Zenon DEF WorkerState, Fits, Past
<1>3. worker' = [worker EXCEPT ![t] = w] /\ UNCHANGED <<buf, cache>>
  BY DEF Accept
<1>4. worker' \in [Threads -> WorkerState] /\ BufferOK' /\ WorkerOK'
  <2> HIDE DEF w
  <2> QED
    BY <1>2, <1>3, WorkerMoves, Zenon
<1>5. TypeOK'
  BY <1>1, <1>4 DEF Typed, TypeOK, Accept
<1> QED
  BY <1>4, <1>5 DEF Typed

\* The lookup in the cache keeps Typed, whatever it finds.
LEMMA TypedLookup ==
  ASSUME Typed, NEW t \in Threads, Lookup(t)
  PROVE  Typed'
<1>1. /\ worker[t] \in WorkerState /\ worker[t].pc = "lookup" /\ worker[t].key \in Keys
      /\ t[1] \in Instances /\ clock \in Nat
  BY Zenon DEF Typed, TypeOK, WorkerOK, Fits, Lookup, Threads
<1>2. CASE Respond(t, "MISS", "miss") \/ Return(t)
  BY <1>1, <1>2, RespondType, Zenon DEF Typed, TypeOK, Lookup
<1>3. ASSUME NEW f \in Answers(cache[t[1]], worker[t].key, clock) \ {Nil},
             worker' = [worker EXCEPT ![t] = [@ EXCEPT !.pc = "group", !.raw = f,
                                                       !.found = clock]],
             UNCHANGED answered
      PROVE  Typed'
  <2> DEFINE w == [worker[t] EXCEPT !.pc = "group", !.raw = f, !.found = clock]
  <2>1. f \in Values /\ cache[t[1]][worker[t].key] # Nil
    BY DEF Answers, Live
  <2>2. w \in WorkerState /\ Fits(w)
    BY <1>1, <2>1, Zenon DEF WorkerState, Fits, Past
  <2>3. Backend = "memory" => Filled(t[1])
    BY <1>1, <2>1 DEF Typed, BufferOK
  <2>4. worker' = [worker EXCEPT ![t] = w] /\ UNCHANGED <<buf, cache>>
    BY <1>3, Zenon DEF Lookup
  <2>5. worker' \in [Threads -> WorkerState] /\ BufferOK' /\ WorkerOK'
    <3> HIDE DEF w
    <3> QED
      BY <2>2, <2>3, <2>4, WorkerMoves, Zenon
  <2>6. TypeOK'
    BY <1>3, <2>5, Zenon DEF Typed, TypeOK, Lookup
  <2> QED
    BY <2>5, <2>6 DEF Typed
<1> QED
  BY <1>2, <1>3, Zenon DEF Lookup

\* The tier after the lookup keeps Typed, whether it lets the NACK pass or not.
LEMMA TypedAllowGroup ==
  ASSUME Typed, NEW t \in Threads, AllowGroup(t)
  PROVE  Typed'
<1>1. /\ worker[t] \in WorkerState /\ worker[t].pc = "group" /\ worker[t].pc \in Past
      /\ Fits(worker[t]) /\ (Backend = "memory" => Filled(t[1]))
  BY CacheAssumption, Zenon DEF Typed, TypeOK, WorkerOK, BufferOK, Fits, AllowGroup, Past
<1>2. CASE Respond(t, "ACK", "throttled")
  BY <1>1, <1>2, RespondType, Zenon DEF Typed, TypeOK, AllowGroup
<1>3. ASSUME NEW b \in Bytes(t),
             worker' = [worker EXCEPT ![t] = [@ EXCEPT !.pc = "dedup", !.tx = b.tx]],
             UNCHANGED answered
      PROVE  Typed'
  <2> DEFINE w == [worker[t] EXCEPT !.pc = "dedup", !.tx = b.tx]
  <2>1. b.tx \in Nat
    BY <1>1, BytesType
  <2>2. w \in WorkerState /\ Fits(w)
    BY <1>1, <2>1, Zenon DEF WorkerState, Fits, Past
  <2>3. worker' = [worker EXCEPT ![t] = w] /\ UNCHANGED <<buf, cache>>
    BY <1>3, Zenon DEF AllowGroup
  <2>4. worker' \in [Threads -> WorkerState] /\ BufferOK' /\ WorkerOK'
    <3> HIDE DEF w
    <3> QED
      BY <1>1, <2>2, <2>3, WorkerMoves, Zenon
  <2>5. TypeOK'
    BY <1>3, <2>4, Zenon DEF Typed, TypeOK, AllowGroup
  <2> QED
    BY <2>4, <2>5 DEF Typed
<1> QED
  BY <1>2, <1>3, Zenon DEF AllowGroup

\* A SET NX that succeeds finds no claim in force and makes one for a window.
LEMMA ClaimType ==
  ASSUME TypeOK, NEW s \in SeqNums, Claim(s)
  PROVE  /\ claims' \in [SeqNums -> Nat]
         /\ clock >= claims[s] /\ claims'[s] = clock + DedupWindow
         /\ \A r \in SeqNums \ {s} : claims'[r] = claims[r]
  BY EndpointAssumption DEF TypeOK, Claim

\* Passing the dedup gate keeps Typed.
LEMMA TypedEnterGate ==
  ASSUME Typed, NEW t \in Threads, EnterGate(t)
  PROVE  Typed'
<1> DEFINE w == [worker[t] EXCEPT !.pc = "lock", !.claim = clock]
<1>1. /\ worker[t] \in WorkerState /\ worker[t].pc = "dedup" /\ worker[t].pc \in Past
      /\ Fits(worker[t]) /\ (Backend = "memory" => Filled(t[1])) /\ clock \in Nat
  BY CacheAssumption DEF Typed, TypeOK, WorkerOK, BufferOK, Fits, EnterGate, Past
<1>2. w \in WorkerState /\ Fits(w)
  BY <1>1, Zenon DEF WorkerState, Fits, Past
<1>3. worker' = [worker EXCEPT ![t] = w] /\ UNCHANGED <<buf, cache>>
  BY DEF EnterGate
<1>4. worker' \in [Threads -> WorkerState] /\ BufferOK' /\ WorkerOK'
  <2> HIDE DEF w
  <2> QED
    BY <1>1, <1>2, <1>3, WorkerMoves, Zenon
<1>5. claims' \in [SeqNums -> Nat]
  <2>1. ASSUME NEW b \in Bytes(t), Claim(buildDedupKey(b))
        PROVE  claims' \in [SeqNums -> Nat]
    BY <1>1, <2>1, BytesType, ClaimType DEF Typed, buildDedupKey
  <2> QED
    BY <2>1 DEF EnterGate, Typed, TypeOK
<1>6. TypeOK'
  BY <1>4, <1>5 DEF Typed, TypeOK, EnterGate
<1> QED
  BY <1>4, <1>6 DEF Typed

\* Being suppressed at the gate keeps Typed.
LEMMA TypedSuppressed ==
  ASSUME Typed, NEW t \in Threads, Suppressed(t)
  PROVE  Typed'
<1>1. worker[t].pc # "idle" /\ worker[t].pc \in Past
  BY DEF Suppressed, Past
<1>2. claims' \in [SeqNums -> Nat]
  <2>1. ASSUME NEW b \in Bytes(t), Claim(buildDedupKey(b))
        PROVE  claims' \in [SeqNums -> Nat]
    BY <1>1, <2>1, BytesType, ClaimType DEF Typed, buildDedupKey
  <2> QED
    BY <2>1 DEF Suppressed, Typed, TypeOK
<1>3. lost' \subseteq SeqNums
  <2>1. \A b \in Bytes(t) : buildDedupKey(b) \in SeqNums
    BY <1>1, BytesType DEF buildDedupKey
  <2> QED
    BY <2>1 DEF Suppressed, Typed, TypeOK
<1>4. Respond(t, "ACK", "dedup") /\ UNCHANGED <<buf, cache>>
  BY DEF Suppressed
<1> QED
  BY <1>1, <1>2, <1>3, <1>4, RespondType DEF Typed, TypeOK, Suppressed

\* Taking the retransmitter's mutex keeps Typed.
LEMMA TypedLock ==
  ASSUME Typed, NEW t \in Threads, Lock(t)
  PROVE  Typed'
<1>1. /\ worker[t] \in WorkerState /\ worker[t].pc = "lock" /\ worker[t].pc \in Past
      /\ Fits(worker[t]) /\ (Backend = "memory" => Filled(t[1]))
      /\ t[1] \in Instances /\ t[2] \in Workers
  BY CacheAssumption, Zenon DEF Typed, TypeOK, WorkerOK, BufferOK, Fits, Lock, Past, Threads
<1>2. PICK b \in Bytes(t) :
        worker' = [worker EXCEPT ![t] = [@ EXCEPT !.pc = "send", !.todo = Ifaces,
                                                  !.group = GroupAddr(b.ver, worker[t].tx)]]
  BY Zenon DEF Lock
<1> DEFINE w == [worker[t] EXCEPT !.pc = "send", !.todo = Ifaces,
                                  !.group = GroupAddr(b.ver, worker[t].tx)]
<1>3. GroupAddr(b.ver, worker[t].tx) \in Groups
  BY <1>1, BytesType, GroupAddrType DEF Frame, WorkerState
<1>4. w \in WorkerState /\ Fits(w)
  BY <1>1, <1>3, Zenon DEF WorkerState, Fits, Past
<1>5. worker' = [worker EXCEPT ![t] = w] /\ UNCHANGED <<buf, cache>>
  BY <1>2, Zenon DEF Lock
<1>6. worker' \in [Threads -> WorkerState] /\ BufferOK' /\ WorkerOK'
  <2> HIDE DEF w
  <2> QED
    BY <1>1, <1>4, <1>5, WorkerMoves, Zenon
<1>7. TypeOK'
  BY <1>1, <1>6 DEF Typed, TypeOK, Lock
<1> QED
  BY <1>6, <1>7 DEF Typed

\* A write to an egress socket keeps Typed, the last one included.
LEMMA TypedWriteTo ==
  ASSUME Typed, NEW t \in Threads, NEW e \in Ifaces, WriteTo(t, e)
  PROVE  Typed'
<1>1. /\ worker[t] \in WorkerState /\ worker[t].pc = "send" /\ worker[t].pc \in Past
      /\ worker[t].key \in Keys /\ worker[t].group \in Groups
      /\ Fits(worker[t]) /\ (Backend = "memory" => Filled(t[1]))
      /\ t[1] \in Instances
  BY CacheAssumption, Zenon DEF Typed, TypeOK, WorkerOK, BufferOK, Fits, WriteTo, Past, Threads
<1>2. sent' \subseteq [id : Nat, key : Keys, frame : Frame, group : Groups,
                       iface : Ifaces, claim : Nat]
  <2>1. PICK b \in Bytes(t) :
          sent' = sent \cup
            {[id |-> worker[t].id, key |-> worker[t].key, frame |-> b,
              group |-> worker[t].group, iface |-> e, claim |-> worker[t].claim]}
    BY DEF WriteTo
  <2>2. b \in Frame /\ worker[t].id \in Nat /\ worker[t].claim \in Nat
    BY <1>1, BytesType DEF WorkerState
  <2> QED
    BY <1>1, <2>1, <2>2 DEF Typed, TypeOK
<1>3. CASE worker' = [worker EXCEPT ![t] = [@ EXCEPT !.todo = worker[t].todo \ {e}]]
           /\ UNCHANGED <<mu, answered>>
  <2> DEFINE w == [worker[t] EXCEPT !.todo = worker[t].todo \ {e}]
  <2>1. w \in WorkerState /\ Fits(w)
    BY <1>1 DEF WorkerState, Fits, Past
  <2>2. worker' = [worker EXCEPT ![t] = w] /\ UNCHANGED <<buf, cache>>
    BY <1>3 DEF WriteTo
  <2>3. worker' \in [Threads -> WorkerState] /\ BufferOK' /\ WorkerOK'
    <3> HIDE DEF w
    <3> QED
      BY <1>1, <2>1, <2>2, WorkerMoves, Zenon
  <2> QED
    BY <1>2, <1>3, <2>3 DEF Typed, TypeOK, WriteTo
<1>4. CASE /\ mu' = [mu EXCEPT ![t[1]] = Nil]
           /\ Respond(t, "ACK", "sent")
  BY <1>1, <1>2, <1>4, RespondType DEF Typed, TypeOK, WriteTo
<1> QED
  BY <1>3, <1>4 DEF WriteTo

\* A failed write keeps Typed.
LEMMA TypedEgressError ==
  ASSUME Typed, NEW t \in Threads, EgressError(t)
  PROVE  Typed'
<1>1. worker[t].pc # "idle" /\ Return(t) /\ UNCHANGED <<buf, cache>>
  BY DEF EgressError
<1>2. lost' \subseteq SeqNums
  BY DEF EgressError, Typed, TypeOK, WorkerOK, Fits, SeqNums
<1> QED
  BY <1>1, <1>2, RespondType, Zenon DEF Typed, TypeOK, EgressError

\* Time, a NACK that is discarded, and stuttering keep Typed.
LEMMA TypedStays ==
  ASSUME Typed, \/ Tick
                \/ \E t \in Threads : Discard(t)
                \/ UNCHANGED vars
  PROVE  Typed'
<1>1. UNCHANGED <<buf, cache, worker>>
  BY DEF Tick, Discard, vars
<1>2. TypeOK'
  BY DEF Typed, TypeOK, Tick, Discard, vars
<1>3. BufferOK' /\ WorkerOK'
  BY <1>1 DEF Typed, BufferOK, Filled, WorkerOK, Fits
<1> QED
  BY <1>2, <1>3 DEF Typed

\* Every step keeps Typed.
LEMMA TypedNext == Typed /\ [Next]_vars => Typed'
  BY TypedRecvfrom, TypedProcessFrame, TypedCrash, TypedAccept, TypedLookup,
     TypedAllowGroup, TypedEnterGate, TypedSuppressed, TypedLock, TypedWriteTo,
     TypedEgressError, TypedStays
  DEF Next, Step

\* Every variable keeps its type, and a worker reads bytes only where there are
\* some: no slice is read that no frame was ever received into.
THEOREM TypeCorrect == Spec => []TypeOK
<1>1. Spec => []Typed
  BY TypedInit, TypedNext, PTL DEF Spec
<1>2. Typed => TypeOK
  BY DEF Typed
<1> QED
  BY <1>1, <1>2, PTL

------------------------------------------------------------------------------
(* What a worker's step does to the workers, by field *)

Others(t) == \A u \in Threads \ {t} : worker'[u] = worker[u]

\* A worker that responds or returns adds at most its own answer, and is idle.
LEMMA RespondEffect ==
  ASSUME Typed, NEW t \in Threads, NEW type, NEW why, Respond(t, type, why) \/ Return(t)
  PROVE  /\ \A r \in answered' \ answered :
              r = [id |-> worker[t].id, inst |-> t[1], key |-> worker[t].key,
                   found |-> worker[t].found, why |-> why]
         /\ worker'[t] = Idle /\ worker'[t].pc = "idle" /\ Others(t)
<1>1. worker' = [worker EXCEPT ![t] = Idle]
  BY DEF Respond, Return
<1>2. worker'[t] = Idle /\ Others(t)
  BY <1>1 DEF Typed, TypeOK, Others
<1>3. Idle.pc = "idle"
  BY DEF Idle
<1>4. \A r \in answered' \ answered :
        r = [id |-> worker[t].id, inst |-> t[1], key |-> worker[t].key,
             found |-> worker[t].found, why |-> why]
  BY Zenon DEF Respond, Return
<1> QED
  BY <1>2, <1>3, <1>4

\* After Accept the worker is about to look up; the others are as they were.
LEMMA AcceptEffect ==
  ASSUME Typed, NEW t \in Threads, NEW n \in Nacks, Accept(t, n)
  PROVE  worker'[t].pc = "lookup" /\ Others(t)
  BY DEF Typed, TypeOK, WorkerState, Accept, Others

\* After Lookup the worker has answered, or remembers when it found the frame.
LEMMA LookupEffect ==
  ASSUME Typed, NEW t \in Threads, Lookup(t)
  PROVE  \/ Respond(t, "MISS", "miss") \/ Return(t)
         \/ /\ worker'[t].pc = "group" /\ worker'[t].found = clock
            /\ worker'[t].id = worker[t].id /\ worker'[t].key = worker[t].key
            /\ worker'[t].raw \in Answers(cache[t[1]], worker[t].key, clock) \ {Nil}
            /\ Others(t) /\ UNCHANGED answered
<1>1. worker \in [Threads -> WorkerState] /\ worker[t] \in WorkerState
  BY DEF Typed, TypeOK
<1>2. ASSUME NEW f \in Answers(cache[t[1]], worker[t].key, clock) \ {Nil},
             worker' = [worker EXCEPT ![t] = [@ EXCEPT !.pc = "group", !.raw = f,
                                                       !.found = clock]]
      PROVE  /\ worker'[t].pc = "group" /\ worker'[t].found = clock
             /\ worker'[t].id = worker[t].id /\ worker'[t].key = worker[t].key
             /\ worker'[t].raw = f
             /\ Others(t)
  BY <1>1, <1>2 DEF WorkerState, Others
<1> QED
  BY <1>2, Zenon DEF Lookup

\* After AllowGroup the worker has answered, or knows the TxID it read.
LEMMA AllowGroupEffect ==
  ASSUME Typed, NEW t \in Threads, AllowGroup(t)
  PROVE  \/ Respond(t, "ACK", "throttled")
         \/ /\ worker'[t].pc = "dedup" /\ \E b \in Bytes(t) : worker'[t].tx = b.tx
            /\ worker'[t].id = worker[t].id /\ worker'[t].key = worker[t].key
            /\ worker'[t].raw = worker[t].raw /\ worker'[t].found = worker[t].found
            /\ Others(t) /\ UNCHANGED answered
<1>1. worker \in [Threads -> WorkerState] /\ worker[t] \in WorkerState
  BY DEF Typed, TypeOK
<1> QED
  BY <1>1, ZenonT(30) DEF WorkerState, AllowGroup, Others

\* After EnterGate the worker remembers the time of its claim.
LEMMA EnterGateEffect ==
  ASSUME Typed, NEW t \in Threads, EnterGate(t)
  PROVE  /\ worker'[t].pc = "lock" /\ worker'[t].claim = clock
         /\ worker'[t].id = worker[t].id /\ worker'[t].key = worker[t].key
         /\ worker'[t].raw = worker[t].raw /\ worker'[t].found = worker[t].found
         /\ worker'[t].tx = worker[t].tx
         /\ Others(t)
<1>1. worker \in [Threads -> WorkerState] /\ worker[t] \in WorkerState
  BY DEF Typed, TypeOK
<1> QED
  BY <1>1 DEF WorkerState, EnterGate, Others

\* After Lock the worker has its group and every interface still to do.
LEMMA LockEffect ==
  ASSUME Typed, NEW t \in Threads, Lock(t)
  PROVE  /\ worker'[t].pc = "send" /\ worker'[t].todo = Ifaces
         /\ \E b \in Bytes(t) : worker'[t].group = GroupAddr(b.ver, worker[t].tx)
         /\ worker'[t].id = worker[t].id /\ worker'[t].key = worker[t].key
         /\ worker'[t].raw = worker[t].raw /\ worker'[t].found = worker[t].found
         /\ worker'[t].tx = worker[t].tx /\ worker'[t].claim = worker[t].claim
         /\ Others(t)
<1>1. worker \in [Threads -> WorkerState] /\ worker[t] \in WorkerState
  BY DEF Typed, TypeOK
<1>2. PICK b \in Bytes(t) :
        worker' = [worker EXCEPT ![t] = [@ EXCEPT !.pc = "send", !.todo = Ifaces,
                                                  !.group = GroupAddr(b.ver, worker[t].tx)]]
  BY Zenon DEF Lock
<1> QED
  BY <1>1, <1>2 DEF WorkerState, Others

\* After WriteTo the worker has answered, or has one interface less to do.
LEMMA WriteToEffect ==
  ASSUME Typed, NEW t \in Threads, NEW e \in Ifaces, WriteTo(t, e)
  PROVE  \/ worker[t].todo = {e} /\ Respond(t, "ACK", "sent")
         \/ /\ worker'[t].pc = "send" /\ worker'[t].todo = worker[t].todo \ {e}
            /\ worker'[t].id = worker[t].id /\ worker'[t].key = worker[t].key
            /\ worker'[t].raw = worker[t].raw /\ worker'[t].found = worker[t].found
            /\ worker'[t].tx = worker[t].tx /\ worker'[t].claim = worker[t].claim
            /\ worker'[t].group = worker[t].group
            /\ Others(t) /\ UNCHANGED answered
<1>1. /\ worker \in [Threads -> WorkerState] /\ worker[t] \in WorkerState
      /\ worker[t].pc = "send"
  BY DEF Typed, TypeOK, WriteTo
<1> QED
  BY <1>1 DEF WorkerState, WriteTo, Others

\* The steps that answer or give up, and those that leave the workers alone.
LEMMA OtherEffects ==
  /\ \A t \in Threads : Suppressed(t) => Respond(t, "ACK", "dedup")
  /\ \A t \in Threads : EgressError(t) => Return(t)
  /\ \A i \in Instances : Crash(i) =>
       \A t \in Threads : worker'[t] = IF t[1] = i THEN Idle ELSE worker[t]
  BY DEF Suppressed, EgressError, Crash

------------------------------------------------------------------------------
(* Acknowledgements *)

Written(ms, id, e) == \E m \in ms : m.id = id /\ m.iface = e

\* A worker that is sending has written to the interfaces it is done with.
Done(ms, w) == w.pc = "send" => \A e \in Ifaces \ w.todo : Written(ms, w.id, e)

Everywhere ==
  /\ AckMeansEverywhere
  /\ \A t \in Threads : Done(sent, worker[t])

\* No step but a WriteTo completes anything, and what was written stays written.
LEMMA EverywhereKept ==
  ASSUME Typed, Everywhere, UNCHANGED sent, NEW t \in Threads, Others(t),
         \A r \in answered' \ answered : r.why # "sent",
         worker'[t].pc # "send" \/ worker'[t].todo = Ifaces
  PROVE  Everywhere'
  BY DEF Everywhere, AckMeansEverywhere, Done, Others

\* A write moves its interface from those to do to those written.
LEMMA EverywhereWriteTo ==
  ASSUME Typed, Everywhere, NEW t \in Threads, NEW e \in Ifaces, WriteTo(t, e)
  PROVE  Everywhere'
<1>1. worker[t].pc = "send" /\ worker[t] \in WorkerState
  BY DEF WriteTo, Typed, TypeOK
<1>2. PICK b : sent' = sent \cup
        {[id |-> worker[t].id, key |-> worker[t].key, frame |-> b,
          group |-> worker[t].group, iface |-> e, claim |-> worker[t].claim]}
  BY DEF WriteTo
<1>3. /\ \A id, d : Written(sent, id, d) => Written(sent', id, d)
      /\ Written(sent', worker[t].id, e)
  <2> DEFINE m == [id |-> worker[t].id, key |-> worker[t].key, frame |-> b,
                   group |-> worker[t].group, iface |-> e, claim |-> worker[t].claim]
  <2>1. m.id = worker[t].id /\ m.iface = e
    OBVIOUS
  <2>2. m \in sent' /\ \A x \in sent : x \in sent'
    BY <1>2
  <2> HIDE DEF m
  <2> QED
    BY <2>1, <2>2, Zenon DEF Written
<1>4. \A d \in Ifaces : d \notin worker[t].todo \ {e} => Written(sent', worker[t].id, d)
  BY <1>1, <1>3 DEF Everywhere, Done
<1>5. \A r \in answered : r.why = "sent" => \A d \in Ifaces : Written(sent', r.id, d)
  <2>1. \A r \in answered : r.why = "sent" => \A d \in Ifaces : Written(sent, r.id, d)
    BY DEF Everywhere, AckMeansEverywhere, Written
  <2> QED
    BY <1>3, <2>1
<1>6. \A u \in Threads : Done(sent', worker[u])
  BY <1>3 DEF Everywhere, Done
<1>7. CASE /\ worker'[t].todo = worker[t].todo \ {e} /\ worker'[t].id = worker[t].id
           /\ Others(t) /\ UNCHANGED answered
  <2>1. Done(sent', worker'[t])
    BY <1>4, <1>7 DEF Done
  <2> QED
    BY <1>5, <1>6, <1>7, <2>1 DEF Everywhere, AckMeansEverywhere, Written, Others
<1>8. CASE worker[t].todo = {e} /\ Respond(t, "ACK", "sent")
  <2>1. /\ \A r \in answered' \ answered : r.id = worker[t].id
        /\ worker'[t].pc = "idle" /\ Others(t)
    BY <1>8, RespondEffect
  <2>2. \A u \in Threads : Done(sent', worker'[u])
    BY <1>6, <2>1 DEF Others, Done
  <2>3. \A r \in answered' : r.why = "sent" => \A d \in Ifaces : Written(sent', r.id, d)
    BY <1>4, <1>5, <1>8, <2>1
  <2> QED
    BY <2>2, <2>3 DEF Everywhere, AckMeansEverywhere, Written
<1> QED
  BY <1>7, <1>8, WriteToEffect

\* Every step keeps Everywhere.
LEMMA EverywhereNext == Typed /\ Everywhere /\ [Next]_vars => Everywhere'
<1> SUFFICES ASSUME Typed, Everywhere, [Next]_vars PROVE Everywhere'
  OBVIOUS
<1>1. ASSUME NEW t \in Threads, UNCHANGED sent,
             \/ Respond(t, "MISS", "miss") \/ Respond(t, "ACK", "throttled")
             \/ Respond(t, "ACK", "dedup") \/ Return(t)
      PROVE  Everywhere'
  <2>1. /\ worker'[t].pc = "idle" /\ Others(t)
        /\ \A r \in answered' \ answered : r.why # "sent"
    BY <1>1, RespondEffect
  <2> QED
    BY <1>1, <2>1, EverywhereKept
<1>2. ASSUME NEW t \in Threads, NEW n \in Nacks, Accept(t, n) PROVE Everywhere'
  BY <1>2, AcceptEffect, EverywhereKept, Zenon DEF Accept
<1>3. ASSUME NEW t \in Threads, Lookup(t) PROVE Everywhere'
  BY <1>1, <1>3, LookupEffect, EverywhereKept, Zenon DEF Lookup
<1>4. ASSUME NEW t \in Threads, AllowGroup(t) PROVE Everywhere'
  BY <1>1, <1>4, AllowGroupEffect, EverywhereKept, Zenon DEF AllowGroup
<1>5. ASSUME NEW t \in Threads, EnterGate(t) PROVE Everywhere'
  BY <1>5, EnterGateEffect, EverywhereKept, Zenon DEF EnterGate
<1>6. ASSUME NEW t \in Threads, Suppressed(t) \/ EgressError(t) PROVE Everywhere'
  <2>1. UNCHANGED sent
    BY <1>6 DEF Suppressed, EgressError
  <2> QED
    BY <1>1, <1>6, <2>1, OtherEffects
<1>7. ASSUME NEW t \in Threads, Lock(t) PROVE Everywhere'
  BY <1>7, LockEffect, EverywhereKept, ZenonT(30) DEF Lock
<1>8. ASSUME NEW i \in Instances, Crash(i) PROVE Everywhere'
  BY <1>8, OtherEffects DEF Crash, Idle, Everywhere, AckMeansEverywhere, Done
<1>9. CASE UNCHANGED <<worker, sent, answered>>
  BY <1>9 DEF Everywhere, AckMeansEverywhere, Done
<1> QED
  BY <1>2, <1>3, <1>4, <1>5, <1>6, <1>7, <1>8, <1>9, EverywhereWriteTo, Zenon
  DEF Next, Step, Recvfrom, processFrame, Discard, Tick, vars

\* server.go:294-306: for any number of interfaces, and whatever fails, a NACK
\* is acknowledged as sent only after the frame was written to all of them.
THEOREM AckMeansEverywhereHolds == Spec => []AckMeansEverywhere
<1>1. Init => Everywhere
  BY DEF Init, Everywhere, AckMeansEverywhere, Done, Idle
<1>2. Spec => [](Typed /\ Everywhere)
  BY <1>1, TypedInit, TypedNext, EverywhereNext, PTL DEF Spec
<1>3. Everywhere => AckMeansEverywhere
  BY SMTT(30) DEF Everywhere
<1> QED
  BY <1>2, <1>3, PTL

------------------------------------------------------------------------------
(* Where what is acknowledged comes from *)

\* The frame of k reached instance i, or one it shares its cache with, at most a
\* TTL before now.
Had(ss, i, k, now) ==
  \E s \in ss : /\ Shares(s.inst, i)
                /\ CacheKey(s.frame) = k
                /\ s.at <= now /\ now <= s.at + TTL

\* A cached entry is that of a frame that was stored, with the deadline it got.
Sourced(ss, i, k, entry) ==
  entry # Nil => \E s \in ss : /\ Shares(s.inst, i)
                               /\ CacheKey(s.frame) = k
                               /\ s.at <= clock /\ entry.expires = s.at + TTL

Honest ==
  /\ AckIsHonest
  /\ \A i \in Instances, k \in Keys : Sourced(stored, i, k, cache[i][k])
  /\ \A t \in Threads : worker[t].pc \in Past =>
       Had(stored, t[1], worker[t].key, worker[t].found)

\* A worker moves, and nothing is stored.
LEMMA HonestKept ==
  ASSUME Typed, Honest, NEW t \in Threads, Others(t), UNCHANGED <<clock, cache, stored>>,
         \A r \in answered' \ answered :
           r.why # "miss" => Had(stored, r.inst, r.key, r.found),
         worker'[t].pc \in Past => Had(stored, t[1], worker'[t].key, worker'[t].found)
  PROVE  Honest'
<1>1. AckIsHonest'
  BY SMTT(30) DEF Honest, AckIsHonest, Had
<1>2. \A u \in Threads : worker'[u].pc \in Past =>
        Had(stored, u[1], worker'[u].key, worker'[u].found)
  BY DEF Honest, Others
<1>3. \A i \in Instances, k \in Keys : Sourced(stored, i, k, cache[i][k])'
  BY DEF Honest, Sourced
<1> QED
  BY <1>1, <1>2, <1>3, SMTT(30) DEF Honest, Sourced

\* An answer is honest because what the worker found was live at its lookup.
LEMMA HonestRespond ==
  ASSUME Typed, Honest, NEW t \in Threads, NEW type, NEW why,
         Respond(t, type, why) \/ Return(t), UNCHANGED <<clock, cache, stored>>,
         why = "miss" \/ worker[t].pc \in Past
  PROVE  Honest'
<1>1. /\ \A r \in answered' \ answered :
           r = [id |-> worker[t].id, inst |-> t[1], key |-> worker[t].key,
                found |-> worker[t].found, why |-> why]
      /\ worker'[t].pc = "idle" /\ Others(t)
  BY RespondEffect
<1>2. why # "miss" => Had(stored, t[1], worker[t].key, worker[t].found)
  BY SMTT(30) DEF Honest
<1>3. \A r \in answered' \ answered : r.why # "miss" => Had(stored, r.inst, r.key, r.found)
  BY <1>1, <1>2, SMTT(30)
<1>4. worker'[t].pc \notin Past
  BY <1>1, Zenon DEF Past
<1> QED
  BY <1>1, <1>3, <1>4, HonestKept, Zenon

\* What was found is what was stored, not more than a TTL ago.
LEMMA HonestLookup ==
  ASSUME Typed, Honest, NEW t \in Threads, Lookup(t)
  PROVE  Honest'
<1>1. UNCHANGED <<clock, cache, stored>> /\ worker[t].key \in Keys /\ t[1] \in Instances
  BY Zenon DEF Lookup, Typed, WorkerOK, Fits, Threads
<1>2. CASE Respond(t, "MISS", "miss") \/ Return(t)
  BY <1>1, <1>2, HonestRespond, SMTT(30)
<1>3. CASE /\ worker'[t].found = clock /\ worker'[t].key = worker[t].key
           /\ worker'[t].raw \in Answers(cache[t[1]], worker[t].key, clock) \ {Nil}
           /\ Others(t) /\ UNCHANGED answered
  <2>1. /\ cache[t[1]][worker[t].key] # Nil
        /\ clock <= cache[t[1]][worker[t].key].expires
    BY <1>3 DEF Answers, Live
  <2>2. Sourced(stored, t[1], worker[t].key, cache[t[1]][worker[t].key])
    BY <1>1 DEF Honest
  <2>3. Had(stored, t[1], worker[t].key, clock)
    BY <2>1, <2>2 DEF Sourced, Had
  <2> QED
    BY <1>1, <1>3, <2>3, HonestKept, SMTT(30)
<1> QED
  BY <1>2, <1>3, LookupEffect

\* A stored entry stems from the frame just received, with its deadline.
LEMMA HonestStore ==
  ASSUME Typed, Honest, NEW i \in Instances, processFrame(i)
  PROVE  Honest'
<1> DEFINE f == buf[i].new
           s == [inst |-> i, frame |-> f, at |-> clock]
<1>1. f \in Values /\ clock \in Nat
  BY DEF Typed, TypeOK, BufferOK, processFrame
<1>2. UNCHANGED <<clock, worker, answered>> /\ stored \subseteq stored'
  BY DEF processFrame
<1>3. \A j, k, now : Had(stored, j, k, now) => Had(stored', j, k, now)
  BY <1>2, Zenon DEF Had
<1>4. AckIsHonest'
  <2>1. \A r \in answered : r.why # "miss" => Had(stored, r.inst, r.key, r.found)
    BY DEF Honest, AckIsHonest, Had
  <2>2. \A r \in answered : r.why # "miss" => Had(stored', r.inst, r.key, r.found)
    BY <1>3, <2>1, SMTT(30)
  <2> QED
    BY <1>2, <2>2, SMTT(30) DEF AckIsHonest, Had
<1>5. \A t \in Threads : worker'[t].pc \in Past =>
        Had(stored', t[1], worker'[t].key, worker'[t].found)
  BY <1>2, <1>3 DEF Honest
<1>6. ASSUME NEW j \in Instances, NEW k \in Keys, cache'[j][k] # Nil
      PROVE  \E r \in stored' : /\ Shares(r.inst, j) /\ CacheKey(r.frame) = k
                                /\ r.at <= clock /\ cache'[j][k].expires = r.at + TTL
  <2>1. CASE cache'[j][k] = cache[j][k]
    BY <1>2, <1>6, <2>1 DEF Honest, Sourced
  <2>2. CASE cache' = StoreFrame(i, f) /\ stored' = stored \cup {s} /\ Shares(i, j)
             /\ k = CacheKey(f)
    <3>1. cache'[j][k].expires = clock + TTL
      <4>1. cache'[j][k] = [value |-> f, expires |-> clock + TTL]
        <5> HIDE DEF f
        <5> QED
          BY <1>1, <2>2, StoreType DEF Typed
      <4> QED
        BY <4>1
    <3>2. s \in stored' /\ s.inst = i /\ s.frame = f /\ s.at = clock
      BY <2>2
    <3> HIDE DEF s
    <3> QED
      BY <1>1, <2>2, <3>1, <3>2
  <2>3. CASE cache' = StoreFrame(i, f) /\ ~(Shares(i, j) /\ k = CacheKey(f))
    BY <1>1, <2>1, <2>3, StoreType, Zenon DEF Typed
  <2> QED
    BY <2>1, <2>2, <2>3, SMTT(30) DEF processFrame
<1> QED
  BY <1>2, <1>4, <1>5, <1>6 DEF Honest, Sourced, Had, Shares

\* Every step keeps Honest.
LEMMA HonestNext == Typed /\ Honest /\ [Next]_vars => Honest'
<1> SUFFICES ASSUME Typed, Honest, [Next]_vars PROVE Honest'
  OBVIOUS
<1>1. \A t \in Threads : worker[t].pc \in Past =>
        Had(stored, t[1], worker[t].key, worker[t].found)
  BY DEF Honest
<1>2. ASSUME NEW t \in Threads, NEW n \in Nacks, Accept(t, n) PROVE Honest'
  BY <1>2, AcceptEffect, HonestKept, ZenonT(30) DEF Accept, Past
<1>3. ASSUME NEW t \in Threads, AllowGroup(t) PROVE Honest'
  <2>1. worker[t].pc \in Past /\ UNCHANGED <<clock, cache, stored>>
    BY <1>3, Zenon DEF AllowGroup, Past
  <2> QED
    BY <1>1, <1>3, <2>1, AllowGroupEffect, HonestKept, HonestRespond
<1>4. ASSUME NEW t \in Threads, EnterGate(t) PROVE Honest'
  BY <1>1, <1>4, EnterGateEffect, HonestKept, ZenonT(30) DEF EnterGate, Past
<1>5. ASSUME NEW t \in Threads, Suppressed(t) \/ EgressError(t) PROVE Honest'
  BY <1>5, HonestRespond, OtherEffects DEF Suppressed, EgressError, Past
<1>6. ASSUME NEW t \in Threads, Lock(t) PROVE Honest'
  BY <1>1, <1>6, LockEffect, HonestKept, ZenonT(30) DEF Lock, Past
<1>7. ASSUME NEW t \in Threads, NEW e \in Ifaces, WriteTo(t, e) PROVE Honest'
  <2>1. worker[t].pc \in Past /\ UNCHANGED <<clock, cache, stored>>
    BY <1>7, SMTT(30) DEF WriteTo, Past
  <2> QED
    BY <1>1, <1>7, <2>1, WriteToEffect, HonestKept, HonestRespond
<1>8. ASSUME NEW i \in Instances, Crash(i) PROVE Honest'
  <2>1. \A t \in Threads : worker'[t].pc \in Past => worker'[t] = worker[t]
    BY <1>8, OtherEffects, SMTT(30) DEF Idle, Past
  <2>2. \A j \in Instances, k \in Keys : cache'[j][k] # Nil => cache'[j][k] = cache[j][k]
    BY <1>8, Zenon DEF Crash, Empty, Typed, TypeOK
  <2>3. UNCHANGED <<clock, stored, answered>>
    BY <1>8 DEF Crash
  <2>4. \A j \in Instances, k \in Keys : Sourced(stored, j, k, cache'[j][k])
    BY <2>2, SMTT(30) DEF Honest, Sourced
  <2> QED
    BY <1>1, <2>1, <2>3, <2>4, SMTT(30) DEF Honest, AckIsHonest, Sourced, Had
<1>9. CASE Tick
  <2>1. clock' = clock + 1 /\ UNCHANGED <<cache, worker, stored, answered>> /\ clock \in Nat
    BY <1>9 DEF Tick, Typed, TypeOK
  <2>2. \A s \in stored : s.at \in Nat
    BY SMTT(30) DEF Typed, TypeOK
  <2> QED
    BY <2>1, <2>2, SMTT(30) DEF Honest, AckIsHonest, Sourced, Had
<1>10. CASE UNCHANGED <<clock, cache, worker, stored, answered>>
  BY <1>10, Zenon DEF Honest, AckIsHonest, Sourced, Had
<1> QED
  BY <1>2, <1>3, <1>4, <1>5, <1>6, <1>7, <1>8, <1>9, <1>10, HonestStore, HonestLookup, Zenon
  DEF Next, Step, Recvfrom, Discard, vars

\* cache.go:15-17, server.go:252-311: under either backend, with any number of
\* instances and through crashes, an acknowledgement means that the frame was
\* received, here or by an instance with the same cache, at most a TTL before.
THEOREM AckIsHonestHolds == Spec => []AckIsHonest
<1>1. Init => Honest
  BY DEF Init, Honest, AckIsHonest, Sourced, Idle, Empty, Past
<1>2. Spec => [](Typed /\ Honest)
  BY <1>1, TypedInit, TypedNext, HonestNext, PTL DEF Spec
<1>3. Honest => AckIsHonest
  BY SMTT(30) DEF Honest
<1> QED
  BY <1>2, <1>3, PTL

==============================================================================
