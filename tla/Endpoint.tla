------------------------------- MODULE Endpoint -------------------------------
(***************************************************************************)
(* Retry endpoints at work: the ingress goroutine that caches multicast    *)
(* frames, the NACK workers that look frames up and answer listeners, and  *)
(* the retransmitter with its Redis SET NX gate and its egress sockets, in *)
(* one or more processes (instances) that share a Redis.                   *)
(*                                                                         *)
(* A frame is the header fields the code reads from it.  The cache is the  *)
(* interface of module CacheInterface, which the backends implement.  The  *)
(* rate limiter may answer anything here; modules SlidingWindow,           *)
(* TokenBucket and RateLimit are about its answers.  NACKs travel over     *)
(* UDP: any of them may arrive at any instance at any time, again, late or *)
(* never.                                                                  *)
(*                                                                         *)
(* The in-memory backend keeps the slice it is handed, and ingress hands   *)
(* it a slice of the one buffer it receives every frame into.  So what a   *)
(* worker reads through a cached slice is whatever the buffer holds at     *)
(* that moment and, while the kernel copies the next frame in, any mix of  *)
(* the two (a data race).  Redis keeps a copy of its own.                  *)
(***************************************************************************)
EXTENDS CacheInterface, FiniteSets

CONSTANTS
  Instances,     \* endpoint processes
  Workers,       \* NACK worker goroutines of each
  Ifaces,        \* egress interfaces
  Nacks,         \* the NACK datagrams listeners send
  Backend,       \* cache-backend: "memory" or "redis"
  Dedup,         \* whether the retransmitter has a Redis (redis-addr is set)
  DedupWindow,   \* dedup-window
  NumShards,     \* number of shard groups
  Suppress,      \* suppress-ack, suppress-miss: the responses not sent
  Faults,        \* the faults that may happen: a subset of AllFaults
  MaxNacks,      \* bound on the NACKs handled
  MaxRecv        \* bound on the frames received

AllFaults == {"store", "retrieve", "setnx", "egress", "response", "crash"}

Frame == [ver : Nat, hash : Nat, seq : Nat, tx : Nat]

CacheKey(f) == <<f.hash, f.seq>>

\* Redis takes a duration of 0 for a key that never expires (redis.go:43, 78), and
\* not, as the in-memory cache does, for one that expires at once: those settings
\* are left out.
ASSUME EndpointAssumption ==
  /\ Values \subseteq Frame
  /\ \A f \in Values : CacheKey(f) \in Keys
  /\ Keys \subseteq Nat \X Nat
  /\ Nacks \subseteq [valid : BOOLEAN, hash : Nat, start : Nat, end : Nat]
  /\ \A n \in Nacks : <<n.hash, n.start>> \in Keys
  /\ Nil \notin Workers
  /\ Ifaces # {}
  /\ Backend \in {"memory", "redis"}
  /\ Dedup \in BOOLEAN
  /\ Backend = "redis" => Dedup /\ TTL # 0
  /\ DedupWindow \in Nat \ {0}
  /\ NumShards \in Nat \ {0}
  /\ Suppress \subseteq {"ACK", "MISS"}
  /\ Faults \subseteq AllFaults
  /\ MaxNacks \in Nat /\ MaxRecv \in Nat

Threads == Instances \X Workers

SeqNums == {k[2] : k \in Keys}

VARIABLES
  clock,       \* time.Now(), on every host and in Redis
  buf,         \* ingress: what its buffer held, holds next, and whether it is
               \* being overwritten
  cache,       \* the cache of each instance (all the same one under Redis)
  claims,      \* Redis: when the dedup key of each SeqNum expires
  worker,      \* what each NACK worker is doing
  mu,          \* the retransmitter's mutex: its holder, or Nil
  nacks,       \* number of NACKs handled so far: the serial of the last one
  recvs,       \* number of frames received so far
  stored,      \* history: frames put into a cache, by whom and when
  sent,        \* history: datagrams written to an egress socket
  answered,    \* history: responses sent to listeners, and why
  lost         \* history: SeqNums a claim of which came to nothing

vars == <<clock, buf, cache, claims, worker, mu, nacks, recvs, stored,
          sent, answered, lost>>

Idle == [pc |-> "idle", id |-> 0, key |-> Nil, raw |-> Nil, found |-> 0, tx |-> 0,
         claim |-> 0, group |-> Nil, todo |-> {}]

Groups == {"control", "subtree", "shard"} \X Nat

WorkerState ==
  [pc : {"idle", "lookup", "group", "dedup", "lock", "send"},
   id : Nat, key : Keys \cup {Nil}, raw : Values \cup {Nil}, found : Nat,
   tx : Nat, claim : Nat, group : Groups \cup {Nil}, todo : SUBSET Ifaces]

TypeOK ==
  /\ clock \in Nat
  /\ buf \in [Instances -> [old : Values \cup {Nil}, new : Values \cup {Nil},
                            busy : BOOLEAN]]
  /\ cache \in [Instances -> [Keys -> Entry \cup {Nil}]]
  /\ claims \in [SeqNums -> Nat]
  /\ worker \in [Threads -> WorkerState]
  /\ mu \in [Instances -> Workers \cup {Nil}]
  /\ nacks \in Nat /\ recvs \in Nat
  /\ stored \subseteq [inst : Instances, frame : Values, at : Nat]
  /\ sent \subseteq [id : Nat, key : Keys, frame : Frame, group : Groups,
                     iface : Ifaces, claim : Nat]
  /\ answered \subseteq [id : Nat, inst : Instances, key : Keys, found : Nat,
                         why : {"miss", "throttled", "dedup", "sent"}]
  /\ lost \subseteq SeqNums

Empty == [k \in Keys |-> Nil]

NoFrame == [old |-> Nil, new |-> Nil, busy |-> FALSE]

Init ==
  /\ clock = 0
  /\ buf = [i \in Instances |-> NoFrame]
  /\ cache = [i \in Instances |-> Empty]
  /\ claims = [s \in SeqNums |-> 0]
  /\ worker = [t \in Threads |-> Idle]
  /\ mu = [i \in Instances |-> Nil]
  /\ nacks = 0 /\ recvs = 0
  /\ stored = {} /\ sent = {} /\ answered = {} /\ lost = {}

------------------------------------------------------------------------------
(* Ingress *)

\* Recvfrom starts to copy a datagram into the buffer.
Recvfrom(i, f) ==
  /\ ~buf[i].busy
  /\ recvs < MaxRecv
  /\ recvs' = recvs + 1
  /\ buf' = [buf EXCEPT ![i].new = f, ![i].busy = TRUE]
  /\ UNCHANGED <<clock, cache, claims, worker, mu, nacks, stored, sent, answered, lost>>

\* frame.Decode, DecodeBlock, DecodeSubtreeData and DecodeAnchor accept the
\* versions 1 and 2, 4, 5 and 6.
Decodes(f) == f.ver \in {1, 2, 4, 5, 6}

\* A frame the proxy has not stamped has no sequence number.
Cacheable(f) == Decodes(f) /\ f.seq # 0

\* Under Redis there is one cache for all instances.
Shares(i, j) == i = j \/ Backend = "redis"

\* A plausible slip: the sequence number is read at a wrong offset.
StoreMisread(i, f) ==
  [j \in Instances |->
     IF Shares(i, j) THEN Put(cache[j], <<f.hash, f.tx>>, f, clock) ELSE cache[j]]

StoreFrame(i, f) ==
  [j \in Instances |->
     IF Shares(i, j) THEN Put(cache[j], CacheKey(f), f, clock) ELSE cache[j]]

\* Recvfrom returns, and processFrame decodes the frame and stores it, the
\* same way for all four kinds of frame.  Only Redis can fail to store.
processFrame(i) ==
  LET f == buf[i].new IN
  /\ buf[i].busy
  /\ buf' = [buf EXCEPT ![i].old = f, ![i].busy = FALSE]
  /\ \/ /\ Cacheable(f)
        /\ cache' = StoreFrame(i, f)
        /\ stored' = stored \cup {[inst |-> i, frame |-> f, at |-> clock]}
     \/ /\ Cacheable(f) => Backend = "redis" /\ "store" \in Faults
        /\ UNCHANGED <<cache, stored>>
  /\ UNCHANGED <<clock, claims, worker, mu, nacks, recvs, sent, answered, lost>>

------------------------------------------------------------------------------
(* The NACK worker: processNACK *)

\* The bytes a worker finds behind the slice the cache gave it.
Bytes(t) ==
  LET b == buf[t[1]] IN
  IF Backend = "redis" THEN {worker[t].raw}
  ELSE [ver : {b.old.ver, b.new.ver}, hash : {b.old.hash, b.new.hash},
        seq : {b.old.seq, b.new.seq}, tx : {b.old.tx, b.new.tx}]

\* processNACK returns without an answer.
Return(t) ==
  /\ worker' = [worker EXCEPT ![t] = Idle]
  /\ UNCHANGED answered

\* sendResponse, and processNACK returns.
Respond(t, type, why) ==
  /\ worker' = [worker EXCEPT ![t] = Idle]
  /\ \/ /\ type \notin Suppress
        /\ answered' = answered \cup
             {[id |-> worker[t].id, inst |-> t[1], key |-> worker[t].key,
               found |-> worker[t].found, why |-> why]}
     \/ /\ type \in Suppress \/ "response" \in Faults
        /\ UNCHANGED answered

\* A datagram that is not a NACK for one frame, or that the rate limiter does
\* not let through before the lookup, is dropped without an answer.
Discard(t) ==
  /\ worker[t] = Idle
  /\ nacks < MaxNacks
  /\ nacks' = nacks + 1
  /\ UNCHANGED <<clock, buf, cache, claims, worker, mu, recvs, stored, sent,
                 answered, lost>>

\* The size, the magic number and the message type are those of a NACK.
validateNACK(n) == n.valid

\* A plausible slip: HashKey and SeqNum are swapped in the lookup key.
AcceptSwapped(t, n) ==
  /\ worker[t] = Idle
  /\ nacks < MaxNacks
  /\ validateNACK(n) /\ n.start = n.end
  /\ nacks' = nacks + 1
  /\ worker' = [worker EXCEPT ![t] = [@ EXCEPT !.pc = "lookup", !.id = nacks + 1,
                                               !.key = <<n.start, n.hash>>]]
  /\ UNCHANGED <<clock, buf, cache, claims, mu, recvs, stored, sent, answered, lost>>

\* A well-formed NACK for one frame that the rate limiter lets through.
Accept(t, n) ==
  /\ worker[t] = Idle
  /\ nacks < MaxNacks
  /\ validateNACK(n) /\ n.start = n.end
  /\ nacks' = nacks + 1
  /\ worker' = [worker EXCEPT ![t] = [@ EXCEPT !.pc = "lookup", !.id = nacks + 1,
                                               !.key = <<n.hash, n.start>>]]
  /\ UNCHANGED <<clock, buf, cache, claims, mu, recvs, stored, sent, answered, lost>>

Lookup(t) ==
  /\ worker[t].pc = "lookup"
  /\ \/ \E f \in Answers(cache[t[1]], worker[t].key, clock) \ {Nil} :
          /\ worker' = [worker EXCEPT ![t] = [@ EXCEPT !.pc = "group", !.raw = f,
                                                       !.found = clock]]
          /\ UNCHANGED answered
     \/ Respond(t, "MISS", "miss")
     \/ Backend = "redis" /\ "retrieve" \in Faults /\ Return(t)
  /\ UNCHANGED <<clock, buf, cache, claims, mu, nacks, recvs, stored, sent, lost>>

\* The TxID is read from the frame and the group tier asked: a throttled
\* request is not retransmitted, but acknowledged all the same.
AllowGroup(t) ==
  /\ worker[t].pc = "group"
  /\ \/ \E b \in Bytes(t) :
          /\ worker' = [worker EXCEPT ![t] = [@ EXCEPT !.pc = "dedup", !.tx = b.tx]]
          /\ UNCHANGED answered
     \/ Respond(t, "ACK", "throttled")
  /\ UNCHANGED <<clock, buf, cache, claims, mu, nacks, recvs, stored, sent, lost>>

------------------------------------------------------------------------------
(* The NACK worker: Retransmit *)

\* A plausible slip: the gate is keyed by the flow and not by the frame.
DedupByFlow(b) == b.hash

\* The dedup key is the sequence number, and nothing else of the frame.
buildDedupKey(b) == b.seq

\* A plausible slip: SET in the place of SET NX.
ClaimRegardless(s) == claims' = [claims EXCEPT ![s] = clock + DedupWindow]

\* SET NX succeeds: the key does not exist, or has expired.
Claim(s) ==
  /\ clock >= claims[s]
  /\ claims' = [claims EXCEPT ![s] = clock + DedupWindow]

\* The gate is won, or there is none.
EnterGate(t) ==
  /\ worker[t].pc = "dedup"
  /\ IF Dedup THEN \E b \in Bytes(t) : Claim(buildDedupKey(b)) ELSE UNCHANGED claims
  /\ worker' = [worker EXCEPT ![t] = [@ EXCEPT !.pc = "lock", !.claim = clock]]
  /\ UNCHANGED <<clock, buf, cache, mu, nacks, recvs, stored, sent, answered, lost>>

\* The gate is closed, or SET NX fails, which is taken for the same.  A call
\* that failed may have reached Redis and left its claim there.  Either way
\* Retransmit returns no error, and the NACK is acknowledged.
Suppressed(t) ==
  /\ worker[t].pc = "dedup"
  /\ Dedup
  /\ \E b \in Bytes(t) :
       \/ clock < claims[buildDedupKey(b)] /\ UNCHANGED <<claims, lost>>
       \/ /\ "setnx" \in Faults
          /\ Claim(buildDedupKey(b)) \/ UNCHANGED claims
          /\ lost' = lost \cup {buildDedupKey(b)}
  /\ Respond(t, "ACK", "dedup")
  /\ UNCHANGED <<clock, buf, cache, mu, nacks, recvs, stored, sent>>

\* shard.Engine maps a TxID to one of the shard groups.
GroupIndex(tx) == tx % NumShards

GroupAddr(ver, tx) ==
  IF ver \in {4, 6} THEN <<"control", 0>>
  ELSE IF ver = 5 THEN <<"subtree", 0>>
  ELSE <<"shard", GroupIndex(tx)>>

\* The group is derived from the frame's version, and the mutex taken.
Lock(t) ==
  /\ worker[t].pc = "lock"
  /\ mu[t[1]] = Nil
  /\ mu' = [mu EXCEPT ![t[1]] = t[2]]
  /\ \E b \in Bytes(t) :
       worker' = [worker EXCEPT ![t] = [@ EXCEPT !.pc = "send", !.todo = Ifaces,
                                                !.group = GroupAddr(b.ver, worker[t].tx)]]
  /\ UNCHANGED <<clock, buf, cache, claims, nacks, recvs, stored, sent, answered, lost>>

\* One WriteTo.  After the last one the mutex is released and the NACK
\* acknowledged.
WriteTo(t, e) ==
  /\ worker[t].pc = "send"
  /\ e \in worker[t].todo
  /\ \E b \in Bytes(t) :
       sent' = sent \cup
         {[id |-> worker[t].id, key |-> worker[t].key, frame |-> b,
           group |-> worker[t].group, iface |-> e, claim |-> worker[t].claim]}
  /\ \/ /\ worker[t].todo # {e}
        /\ worker' = [worker EXCEPT ![t] = [@ EXCEPT !.todo = worker[t].todo \ {e}]]
        /\ UNCHANGED <<mu, answered>>
     \/ /\ worker[t].todo = {e}
        /\ mu' = [mu EXCEPT ![t[1]] = Nil]
        /\ Respond(t, "ACK", "sent")
  /\ UNCHANGED <<clock, buf, cache, claims, nacks, recvs, stored, lost>>

\* A plausible slip: the error is logged, and the NACK acknowledged.
EgressErrorIgnored(t) ==
  /\ worker[t].pc = "send"
  /\ "egress" \in Faults
  /\ mu' = [mu EXCEPT ![t[1]] = Nil]
  /\ Respond(t, "ACK", "sent")
  /\ UNCHANGED <<clock, buf, cache, claims, nacks, recvs, stored, sent, lost>>

\* A plausible slip: the error path forgets the mutex.
EgressKeepsMutex(t) ==
  /\ worker[t].pc = "send"
  /\ "egress" \in Faults
  /\ Return(t)
  /\ UNCHANGED <<clock, buf, cache, claims, mu, nacks, recvs, stored, sent, lost>>

\* A WriteTo fails: Retransmit gives up the interfaces that are left, and the
\* listener is not answered.  The claim stays in Redis.
EgressError(t) ==
  /\ worker[t].pc = "send"
  /\ "egress" \in Faults
  /\ mu' = [mu EXCEPT ![t[1]] = Nil]
  /\ lost' = lost \cup {worker[t].key[2]}
  /\ Return(t)
  /\ UNCHANGED <<clock, buf, cache, claims, nacks, recvs, stored, sent>>

------------------------------------------------------------------------------

\* A worker that is past the gate and not done.
Sending(t) == worker[t].pc \in {"lock", "send"}

\* The process of an instance dies and starts again: what it had in memory is
\* gone, what it left in Redis is not.
Crash(i) ==
  /\ "crash" \in Faults
  /\ worker' = [t \in Threads |-> IF t[1] = i THEN Idle ELSE worker[t]]
  /\ mu' = [mu EXCEPT ![i] = Nil]
  /\ buf' = [buf EXCEPT ![i] = NoFrame]
  /\ cache' = IF Backend = "redis" THEN cache ELSE [cache EXCEPT ![i] = Empty]
  /\ lost' = lost \cup {worker[t].key[2] : t \in {u \in Threads : u[1] = i /\ Sending(u)}}
  /\ UNCHANGED <<clock, claims, nacks, recvs, stored, sent, answered>>

Tick ==
  /\ clock < MaxTime
  /\ clock' = clock + 1
  /\ UNCHANGED <<buf, cache, claims, worker, mu, nacks, recvs, stored, sent,
                 answered, lost>>

Step(t) ==
  \/ Lookup(t) \/ AllowGroup(t)
  \/ EnterGate(t) \/ Suppressed(t)
  \/ Lock(t) \/ (\E e \in Ifaces : WriteTo(t, e)) \/ EgressError(t)

Next ==
  \/ \E i \in Instances, f \in Values : Recvfrom(i, f)
  \/ \E i \in Instances : processFrame(i) \/ Crash(i)
  \/ \E t \in Threads, n \in Nacks : Accept(t, n)
  \/ \E t \in Threads : Discard(t) \/ Step(t)
  \/ Tick

Spec == Init /\ [][Next]_vars

\* A goroutine that can run does, and Go's mutex does not starve a waiter.
Fairness ==
  \A t \in Threads : WF_vars(Step(t)) /\ SF_vars(Lock(t))

FairSpec == Spec /\ Fairness

------------------------------------------------------------------------------
(* Properties *)

\* architecture.md:139: what is multicast in answer to a NACK is the frame it
\* asked for, HashKey and SeqNum, and goes to the group of that frame.
SentIsRequested ==
  \A m \in sent :
    /\ CacheKey(m.frame) = m.key
    /\ m.group = GroupAddr(m.frame.ver, m.frame.tx)

Apart(a, b) == a + DedupWindow <= b \/ b + DedupWindow <= a

\* architecture.md:158-160: two NACKs are answered by a multicast of the same
\* frame, by whichever instances, only if they passed the gate a dedup window
\* apart; this holds when calls to Redis fail and when instances crash.
OncePerWindow ==
  Dedup => \A a, b \in sent :
    a.frame.seq = b.frame.seq /\ a.id # b.id => Apart(a.claim, b.claim)

\* server.go:294-306: an acknowledgement that owes nothing to the gate or to
\* the group tier means that the frame was written to every interface.
AckMeansEverywhere ==
  \A r \in answered : r.why = "sent" =>
    \A e \in Ifaces : \E m \in sent : m.id = r.id /\ m.iface = e

\* cache.go:15-17, server.go:252-311: an acknowledgement, for whatever reason,
\* means that this endpoint (or one it shares its cache with) had received the
\* frame at most a TTL before it looked it up.
AckIsHonest ==
  \A r \in answered : r.why # "miss" =>
    \E s \in stored :
      /\ Shares(s.inst, r.inst)
      /\ CacheKey(s.frame) = r.key
      /\ s.at <= r.found /\ r.found <= s.at + TTL

\* retransmit.go:100: whoever is suppressed at the gate can rely on another to
\* have retransmitted the frame, or to be about to: once no worker is busy, a
\* frame some NACK was suppressed for has been multicast.
SuppressedIsServed ==
  (\A t \in Threads : worker[t] = Idle) =>
    \A r \in answered : r.why = "dedup" => \E m \in sent : m.key = r.key

\* retransmit.go:95-104: among flows that share no SeqNum that much holds unless a
\* claim of the SeqNum came to nothing: SET NX failed, a write failed, or the
\* process died before it had written to every interface.  No order of events
\* loses a frame otherwise.
SuppressedUnlessLost ==
  (\A t \in Threads : worker[t] = Idle) =>
    \A r \in answered : r.why = "dedup" =>
      r.key[2] \in lost \/ \E m \in sent : m.key = r.key

\* server.go:188-311, retransmit.go:137-149: every NACK a worker has taken is
\* finished, whatever fails on the way: no worker is stuck on the mutex.
WorkersFinish == \A t \in Threads : worker[t] # Idle ~> worker[t] = Idle

==============================================================================
