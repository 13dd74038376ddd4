------------------------------ MODULE RateLimitBounds ---------------------------
(***************************************************************************)
(* The bounds on what reaches the cache and what is multicast: the tiers'  *)
(* own guarantees (LimiterProofs), which hold because the process uses     *)
(* them as specified (RateLimitProofs), and the count of the requests      *)
(* behind them.                                                            *)
(***************************************************************************)
EXTENDS RateLimitProofs

\* A request gets past the IP tier only when it is granted a token.
LEMMA IPCountedStep ==
  ASSUME Requests, Known, IPCounted, [Next]_vars
  PROVE  IPCounted'
<1>1. ASSUME UNCHANGED ipGranted,
             \A R, a : Picked(requests', PastIP, R, a) = Picked(requests, PastIP, R, a)
      PROVE  IPCounted'
  BY <1>1 DEF IPCounted
<1>2. ASSUME NEW w \in Workers, AllowIP(w)
      PROVE  IPCounted'
  <2>1. /\ worker[w] # 0 /\ requests[worker[w]].at = "ip"
        /\ requests[worker[w]].req = Current(w) /\ Current(w).src \in Sources
        /\ requests[worker[w]].from <= clock /\ requests[worker[w]].from \in Int /\ clock \in Int
    BY <1>2, CurrentType DEF AllowIP, Requests, Entry
  <2>2. "ip" \notin PastIP /\ "refusedIP" \notin PastIP /\ "sequence" \in PastIP
    BY Places
  <2>3. CASE IP!Refuse(Current(w).src) /\ Moved(w, "refusedIP")
    BY <1>1, <2>1, <2>2, <2>3, PickedKept DEF IP!Refuse
  <2>4. CASE IP!Grant(Current(w).src) /\ Moved(w, "sequence")
    <3> SUFFICES ASSUME NEW s \in Sources, NEW a \in 0 .. MaxTime
                 PROVE  Cardinality(Picked(requests', PastIP, OfSource(s), a)) <= ipGranted'[s][a]
      BY DEF IPCounted
    <3> DEFINE S == Picked(requests, PastIP, OfSource(s), a)
    <3>1. IsFiniteSet(S) /\ Cardinality(S) \in Nat /\ Cardinality(S) <= ipGranted[s][a]
      BY PickedFinite DEF IPCounted
    <3>2. /\ ipGranted[s][a] \in Nat
          /\ ipGranted'[s][a] = ipGranted[s][a] + IF s = Current(w).src /\ a <= clock THEN 1 ELSE 0
      BY <2>1, <2>4, IPHistory DEF Known
    <3>3. CASE Current(w) \in OfSource(s) /\ requests[worker[w]].from >= a
      <4>1. Picked(requests', PastIP, OfSource(s), a) = S \cup {worker[w]}
        BY <2>1, <2>2, <2>4, <3>3, PickedEntered
      <4>2. s = Current(w).src /\ a <= clock
        BY <2>1, <3>3 DEF OfSource
      <4> HIDE DEF S
      <4>3. Cardinality(S \cup {worker[w]}) <= Cardinality(S) + 1
        BY <3>1, OneMore, Zenon
      <4>4. Cardinality(S \cup {worker[w]}) \in Nat
        BY <3>1, OneMore, FS_CardinalityType, Zenon
      <4> QED
        BY <3>1, <3>2, <4>1, <4>2, <4>3, <4>4
    <3>4. CASE ~(Current(w) \in OfSource(s) /\ requests[worker[w]].from >= a)
      <4>1. Picked(requests', PastIP, OfSource(s), a) = S
        BY <2>1, <2>2, <2>4, <3>4, PickedEntered
      <4> QED
        BY <3>1, <3>2, <4>1
    <3> QED
      BY <3>3, <3>4
  <2> QED
    BY <1>2, <2>3, <2>4, AllowIPEffect
<1>3. CASE \A w \in Workers : ~AllowIP(w)
  <2>1. UNCHANGED ipGranted
    <3>1. ASSUME NEW w \in Workers, Handle(w)
          PROVE  UNCHANGED IP!vars
      BY <1>3, <3>1, BeginQuiet, SampleSequenceEffect, AllowSequenceEffect, SampleChainEffect,
         AllowChainEffect, RetrieveEffect, AllowGroupEffect, Zenon DEF Handle, Quiet
    <3> QED
      BY <3>1 DEF Next, Tick, vars, ipVars, IP!vars
  <2>2. \A R, a : Picked(requests', PastIP, R, a) = Picked(requests, PastIP, R, a)
    <3>1. PastIP # PastSequence /\ PastIP # PastChain /\ PastIP # {"retransmitted"}
      <4>1. "sequence" \in PastIP /\ "sequence" \notin PastSequence /\ "sequence" \notin PastChain
            /\ "sequence" \notin {"retransmitted"}
        BY Places
      <4> QED
        BY <4>1
    <3> QED
      BY <1>3, <3>1, PickedElsewhere
  <2> QED
    BY <1>1, <2>1, <2>2
<1> QED
  BY <1>2, <1>3

\* A frame is retransmitted only when its group grants a token.
LEMMA GroupCountedStep ==
  ASSUME Requests, Known, GroupCounted, [Next]_vars
  PROVE  GroupCounted'
<1> DEFINE P == {"retransmitted"}
<1>1. ASSUME UNCHANGED groupGranted,
             \A R, a : Picked(requests', P, R, a) = Picked(requests, P, R, a)
      PROVE  GroupCounted'
  BY <1>1 DEF GroupCounted
<1>2. ASSUME NEW w \in Workers, AllowGroup(w)
      PROVE  GroupCounted'
  <2> DEFINE g == <<Current(w).src, Current(w).group>>
  <2>1. /\ worker[w] # 0 /\ requests[worker[w]].at = "group"
        /\ requests[worker[w]].req = Current(w) /\ g \in Sources \X Groups
        /\ requests[worker[w]].from <= clock /\ requests[worker[w]].from \in Int /\ clock \in Int
    BY <1>2, CurrentType DEF AllowGroup, Requests, Entry
  <2>2. CASE Group!Refuse(g) /\ Moved(w, "throttled")
    BY <1>1, <2>1, <2>2, PickedKept DEF Group!Refuse
  <2>3. CASE Group!Grant(g) /\ Moved(w, "retransmitted")
    <3> SUFFICES ASSUME NEW k \in Sources \X Groups, NEW a \in 0 .. MaxTime
                 PROVE  Cardinality(Picked(requests', P, ToGroup(k), a)) <= groupGranted'[k][a]
      BY DEF GroupCounted
    <3> DEFINE S == Picked(requests, P, ToGroup(k), a)
    <3>1. IsFiniteSet(S) /\ Cardinality(S) \in Nat /\ Cardinality(S) <= groupGranted[k][a]
      BY PickedFinite DEF GroupCounted
    <3>2. /\ groupGranted[k][a] \in Nat
          /\ groupGranted'[k][a] = groupGranted[k][a] + IF k = g /\ a <= clock THEN 1 ELSE 0
      BY <2>1, <2>3, GroupHistory DEF Known
    <3>3. CASE Current(w) \in ToGroup(k) /\ requests[worker[w]].from >= a
      <4>1. Picked(requests', P, ToGroup(k), a) = S \cup {worker[w]}
        BY <2>1, <2>3, <3>3, PickedEntered
      <4>2. k = g /\ a <= clock
        <5>1. k = <<k[1], k[2]>> /\ k[1] = Current(w).src /\ k[2] = Current(w).group
          BY <3>3 DEF ToGroup
        <5> QED
          BY <2>1, <3>3, <5>1
      <4> HIDE DEF S
      <4>3. Cardinality(S \cup {worker[w]}) <= Cardinality(S) + 1
        BY <3>1, OneMore
      <4>4. Cardinality(S \cup {worker[w]}) \in Nat
        BY <3>1, OneMore, FS_CardinalityType, Zenon
      <4>5. groupGranted'[k][a] = groupGranted[k][a] + 1
        BY <3>2, <4>2
      <4> HIDE DEF P
      <4> QED
        BY <3>1, <3>2, <4>1, <4>3, <4>4, <4>5
    <3>4. CASE ~(Current(w) \in ToGroup(k) /\ requests[worker[w]].from >= a)
      <4>1. Picked(requests', P, ToGroup(k), a) = S
        BY <2>1, <2>3, <3>4, PickedEntered
      <4> QED
        BY <3>1, <3>2, <4>1
    <3> QED
      BY <3>3, <3>4
  <2> QED
    BY <1>2, <2>2, <2>3, AllowGroupEffect
<1>3. CASE \A w \in Workers : ~AllowGroup(w)
  <2>1. UNCHANGED groupGranted
    <3>1. ASSUME NEW w \in Workers, Handle(w)
          PROVE  UNCHANGED Group!vars
      BY <1>3, <3>1, BeginQuiet, AllowIPEffect, SampleSequenceEffect, AllowSequenceEffect,
         SampleChainEffect, AllowChainEffect, RetrieveEffect, Zenon DEF Handle, Quiet
    <3> QED
      BY <3>1 DEF Next, Tick, vars, groupVars, Group!vars
  <2>2. \A R, a : Picked(requests', P, R, a) = Picked(requests, P, R, a)
    <3>1. P # PastIP /\ P # PastSequence /\ P # PastChain
      <4>1. "lookup" \in PastIP /\ "lookup" \in PastSequence /\ "lookup" \in PastChain
            /\ "lookup" \notin P
        BY Places
      <4> QED
        BY <4>1
    <3> QED
      BY <1>3, <3>1, PickedElsewhere
  <2> QED
    BY <1>1, <2>1, <2>2
<1> QED
  BY <1>2, <1>3

\* A ticket for the request that enters.
LEMMA TicketAdded ==
  ASSUME NEW A, IsFiniteSet(A), NEW t, t \notin A, NEW key, NEW a
  PROVE  /\ IsFiniteSet(Tickets(A, key, a)) /\ Cardinality(Tickets(A, key, a)) \in Nat
         /\ Cardinality(Tickets(A \cup {t}, key, a)) =
              Cardinality(Tickets(A, key, a)) + IF t.key = key /\ t.stamp >= a THEN 1 ELSE 0
<1>1. IsFiniteSet(Tickets(A, key, a))
  <2>1. Tickets(A, key, a) \subseteq A
    BY DEF Tickets
  <2> QED
    BY <2>1, FS_Subset
<1>2. CASE t.key = key /\ t.stamp >= a
  <2>1. Tickets(A \cup {t}, key, a) = Tickets(A, key, a) \cup {t} /\ t \notin Tickets(A, key, a)
    BY <1>2 DEF Tickets
  <2> QED
    BY <1>1, <1>2, <2>1, OneMore, Zenon
<1>3. CASE ~(t.key = key /\ t.stamp >= a)
  <2>1. Tickets(A \cup {t}, key, a) = Tickets(A, key, a)
    BY <1>3 DEF Tickets
  <2> QED
    BY <1>1, <1>3, <2>1, FS_CardinalityType
<1> QED
  BY <1>2, <1>3

\* Requests and tickets grow together.
LEMMA Together ==
  ASSUME NEW S, IsFiniteSet(S), NEW i, i \notin S,
         NEW A, IsFiniteSet(A), NEW t, t \notin A,
         Cardinality(S) = Cardinality(A)
  PROVE  Cardinality(S \cup {i}) = Cardinality(A \cup {t})
  BY OneMore

\* A request gets past the sequence tier only when it is admitted, and every
\* admission lets one request pass.
LEMMA SequenceCountedStep ==
  ASSUME Requests, Known, Calls, SequenceCounted, [Next]_vars
  PROVE  SequenceCounted'
<1>1. ASSUME UNCHANGED seqAdmitted,
             \A R, a : Picked(requests', PastSequence, R, a) = Picked(requests, PastSequence, R, a)
      PROVE  SequenceCounted'
  BY <1>1 DEF SequenceCounted
<1>2. ASSUME NEW w \in Workers, AllowSequence(w)
      PROVE  SequenceCounted'
  <2> DEFINE i == worker[w]
             t == Sequence!Ticket(w)
  <2>1. /\ i # 0 /\ requests[i].at = "sequenceLock"
        /\ requests[i].req = Current(w) /\ Current(w) \in Request
        /\ requests[i].from \in Nat
    BY <1>2, CurrentType, Settings DEF AllowSequence, Entry
  <2>2. "sequenceLock" \notin PastSequence /\ "refusedSequence" \notin PastSequence
        /\ "chain" \in PastSequence
    BY Places
  <2>3. CASE seqAdmitted' = seqAdmitted /\ Moved(w, "refusedSequence")
    BY <1>1, <2>1, <2>2, <2>3, PickedKept
  <2>4. CASE seqAdmitted' # seqAdmitted /\ Moved(w, "chain")
    <3>1. seqAdmitted' = seqAdmitted \cup {t}
      BY <1>2, <2>4, AllowSequenceEffect DEF Sequence!Decide, Sequence!Admit, Sequence!Refuse
    <3>2. t.key = Current(w).seq /\ t.stamp >= requests[i].from /\ t.stamp \in Int
      <4>1. t.key = seqCall[w].key /\ t.stamp = seqCall[w].now
        BY DEF Sequence!Ticket
      <4>2. At(w, "sequenceLock") /\ seqCall[w] # Sequence!Idle
        BY <1>2 DEF AllowSequence, Sequence!Decide
      <4>3. seqCall[w].now \in Nat
        BY <4>2 DEF Known, Sequence!TypeOK, Sequence!Sampled
      <4> QED
        BY <4>1, <4>2, <4>3 DEF Calls, SequenceCall
    <3>3. t \notin seqAdmitted /\ IsFiniteSet(seqAdmitted)
      BY DEF Known
    <3> HIDE DEF t
    <3>4. ASSUME NEW q \in SeqNums, NEW a \in Int
          PROVE  Cardinality(Picked(requests', PastSequence, ForSeq(q), a))
                   <= Cardinality(Tickets(seqAdmitted', q, a))
      <4> DEFINE S == Picked(requests, PastSequence, ForSeq(q), a)
                 T == Tickets(seqAdmitted, q, a)
      <4>1. IsFiniteSet(S) /\ Cardinality(S) \in Nat /\ Cardinality(S) <= Cardinality(T)
        BY PickedFinite DEF SequenceCounted
      <4>2. /\ Cardinality(T) \in Nat
            /\ Cardinality(Tickets(seqAdmitted', q, a)) =
                 Cardinality(T) + IF t.key = q /\ t.stamp >= a THEN 1 ELSE 0
        BY <3>1, <3>3, TicketAdded
      <4>3. CASE Current(w) \in ForSeq(q) /\ requests[i].from >= a
        <5>1. Picked(requests', PastSequence, ForSeq(q), a) = S \cup {i}
          BY <2>1, <2>2, <2>4, <4>3, PickedEntered
        <5>2. t.key = q /\ t.stamp >= a
          BY <2>1, <3>2, <4>3 DEF ForSeq
        <5> HIDE DEF S, T
        <5>3. Cardinality(S \cup {i}) <= Cardinality(S) + 1 /\ Cardinality(S \cup {i}) \in Nat
          BY <4>1, OneMore, FS_CardinalityType, Zenon
        <5> QED
          BY <4>1, <4>2, <5>1, <5>2, <5>3
      <4>4. CASE ~(Current(w) \in ForSeq(q) /\ requests[i].from >= a)
        <5>1. Picked(requests', PastSequence, ForSeq(q), a) = S
          BY <2>1, <2>2, <2>4, <4>4, PickedEntered
        <5> HIDE DEF S, T
        <5> QED
          BY <4>1, <4>2, <5>1
      <4> QED
        BY <4>3, <4>4
    <3>5. Cardinality(Picked(requests', PastSequence, Request, 0)) = Cardinality(seqAdmitted')
      <4> DEFINE S == Picked(requests, PastSequence, Request, 0)
      <4>1. IsFiniteSet(S) /\ Cardinality(S) = Cardinality(seqAdmitted)
        BY PickedFinite DEF SequenceCounted
      <4>2. Picked(requests', PastSequence, Request, 0) = S \cup {i} /\ i \notin S
        BY <2>1, <2>2, <2>4, PickedEntered
      <4> HIDE DEF S
      <4> QED
        BY <3>1, <3>3, <4>1, <4>2, Together
    <3> QED
      BY <3>4, <3>5 DEF SequenceCounted
  <2> QED
    BY <1>2, <2>3, <2>4, AllowSequenceEffect
<1>3. CASE \A w \in Workers : ~AllowSequence(w)
  <2>1. UNCHANGED seqAdmitted
    <3>1. ASSUME NEW w \in Workers, SampleSequence(w)
          PROVE  UNCHANGED seqAdmitted
      BY <3>1 DEF SampleSequence, Sequence!Sample
    <3>2. ASSUME NEW w \in Workers, Handle(w), ~SampleSequence(w)
          PROVE  UNCHANGED Sequence!vars
      BY <1>3, <3>2, BeginQuiet, AllowIPEffect, SampleChainEffect,
         AllowChainEffect, RetrieveEffect, AllowGroupEffect, Zenon DEF Handle, Quiet
    <3> QED
      BY <3>1, <3>2 DEF Next, Tick, vars, seqVars, Sequence!vars
  <2>2. \A R, a : Picked(requests', PastSequence, R, a) = Picked(requests, PastSequence, R, a)
    <3>1. PastSequence # PastIP /\ PastSequence # PastChain /\ PastSequence # {"retransmitted"}
      <4>1. "sequence" \in PastIP /\ "sequence" \notin PastSequence
            /\ "chain" \in PastSequence /\ "chain" \notin PastChain
            /\ "chain" \notin {"retransmitted"}
        BY Places
      <4> QED
        BY <4>1
    <3> QED
      BY <1>3, <3>1, PickedElsewhere
  <2> QED
    BY <1>1, <2>1, <2>2
<1> QED
  BY <1>2, <1>3

\* Likewise for the chain tier and stamped requests.
LEMMA ChainCountedStep ==
  ASSUME Requests, Known, Calls, ChainCounted, [Next]_vars
  PROVE  ChainCounted'
<1>1. ASSUME UNCHANGED chainAdmitted,
             \A R, a : R \subseteq Stamped =>
               Picked(requests', PastChain, R, a) = Picked(requests, PastChain, R, a)
      PROVE  ChainCounted'
  <2>1. \A f \in Flows : f[2] # 0 => OfFlow(f) \subseteq Stamped
    BY DEF OfFlow, Stamped
  <2> QED
    BY <1>1, <2>1 DEF ChainCounted
<1>2. ASSUME NEW w \in Workers, AllowChain(w)
      PROVE  ChainCounted'
  <2> DEFINE i == worker[w]
             t == Chain!Ticket(w)
  <2>1. /\ i # 0 /\ requests[i].at = "chainLock"
        /\ requests[i].req = Current(w) /\ Current(w) \in Request
        /\ requests[i].from \in Nat
    BY <1>2, CurrentType, Settings DEF AllowChain, Entry
  <2>2. "chainLock" \notin PastChain /\ "refusedChain" \notin PastChain /\ "lookup" \in PastChain
    BY Places
  <2>3. CASE chainAdmitted' = chainAdmitted /\ Moved(w, "refusedChain")
    BY <1>1, <2>1, <2>2, <2>3, PickedKept
  <2>4. CASE chainAdmitted' # chainAdmitted /\ Moved(w, "lookup")
    <3>1. chainAdmitted' = chainAdmitted \cup {t}
      BY <1>2, <2>4, AllowChainEffect DEF Chain!Decide, Chain!Admit, Chain!Refuse
    <3>2. /\ t.key = <<Current(w).src, Current(w).hash>> /\ Current(w).hash # 0
          /\ t.stamp >= requests[i].from /\ t.stamp \in Int
      <4>1. t.key = chainCall[w].key /\ t.stamp = chainCall[w].now
        BY DEF Chain!Ticket
      <4>2. At(w, "chainLock") /\ chainCall[w] # Chain!Idle
        BY <1>2 DEF AllowChain, Chain!Decide
      <4>3. chainCall[w].now \in Nat
        BY <4>2 DEF Known, Chain!TypeOK, Chain!Sampled
      <4> QED
        BY <4>1, <4>2, <4>3 DEF Calls, ChainCall
    <3>3. t \notin chainAdmitted /\ IsFiniteSet(chainAdmitted)
      BY DEF Known
    <3> HIDE DEF t
    <3>4. ASSUME NEW f \in Flows, NEW a \in Int, f[2] # 0
          PROVE  Cardinality(Picked(requests', PastChain, OfFlow(f), a))
                   <= Cardinality(Tickets(chainAdmitted', f, a))
      <4> DEFINE S == Picked(requests, PastChain, OfFlow(f), a)
                 T == Tickets(chainAdmitted, f, a)
      <4>1. IsFiniteSet(S) /\ Cardinality(S) \in Nat /\ Cardinality(S) <= Cardinality(T)
        BY <3>4, PickedFinite DEF ChainCounted
      <4>2. /\ Cardinality(T) \in Nat
            /\ Cardinality(Tickets(chainAdmitted', f, a)) =
                 Cardinality(T) + IF t.key = f /\ t.stamp >= a THEN 1 ELSE 0
        BY <3>1, <3>3, TicketAdded
      <4>3. CASE Current(w) \in OfFlow(f) /\ requests[i].from >= a
        <5>1. Picked(requests', PastChain, OfFlow(f), a) = S \cup {i}
          BY <2>1, <2>2, <2>4, <4>3, PickedEntered
        <5>2. t.key = f
          <6>1. f = <<f[1], f[2]>>
            BY DEF Flows
          <6> QED
            BY <3>2, <4>3, <6>1 DEF OfFlow
        <5>3. t.stamp >= a
          BY <2>1, <3>2, <4>3
        <5> HIDE DEF S, T
        <5>4. Cardinality(S \cup {i}) <= Cardinality(S) + 1 /\ Cardinality(S \cup {i}) \in Nat
          BY <4>1, OneMore, FS_CardinalityType
        <5> QED
          BY <4>1, <4>2, <5>1, <5>2, <5>3, <5>4
      <4>4. CASE ~(Current(w) \in OfFlow(f) /\ requests[i].from >= a)
        <5>1. Picked(requests', PastChain, OfFlow(f), a) = S
          BY <2>1, <2>2, <2>4, <4>4, PickedEntered
        <5> HIDE DEF S, T
        <5> QED
          BY <4>1, <4>2, <5>1
      <4> QED
        BY <4>3, <4>4
    <3>5. Cardinality(Picked(requests', PastChain, Stamped, 0)) = Cardinality(chainAdmitted')
      <4> DEFINE S == Picked(requests, PastChain, Stamped, 0)
      <4>1. IsFiniteSet(S) /\ Cardinality(S) = Cardinality(chainAdmitted)
        BY PickedFinite DEF ChainCounted
      <4>2. Current(w) \in Stamped
        BY <2>1, <3>2 DEF Stamped
      <4>3. Picked(requests', PastChain, Stamped, 0) = S \cup {i} /\ i \notin S
        BY <2>1, <2>2, <2>4, <4>2, PickedEntered
      <4> HIDE DEF S
      <4> QED
        BY <3>1, <3>3, <4>1, <4>3, Together
    <3> QED
      BY <3>4, <3>5 DEF ChainCounted
  <2> QED
    BY <1>2, <2>3, <2>4, AllowChainEffect
<1>3. ASSUME NEW w \in Workers, SampleChain(w)
      PROVE  ChainCounted'
  <2>1. worker[w] # 0 /\ requests[worker[w]].at = "chain" /\ requests[worker[w]].req = Current(w)
    BY <1>3, CurrentType DEF SampleChain
  <2>2. UNCHANGED chainAdmitted
    BY <1>3, SampleChainEffect DEF Chain!Sample, Chain!vars
  <2>3. CASE Current(w).hash = 0 /\ Moved(w, "lookup")
    <3>1. \A R : R \subseteq Stamped => Current(w) \notin R
      BY <2>3 DEF Stamped
    <3> QED
      BY <1>1, <2>1, <2>2, <2>3, <3>1, PickedKept
  <2>4. CASE Moved(w, "chainLock")
    <3>1. "chain" \notin PastChain /\ "chainLock" \notin PastChain
      BY Places
    <3> QED
      BY <1>1, <2>1, <2>2, <2>4, <3>1, PickedKept
  <2> QED
    BY <1>3, <2>3, <2>4, SampleChainEffect, Zenon
<1>4. CASE \A w \in Workers : ~AllowChain(w) /\ ~SampleChain(w)
  <2>1. UNCHANGED chainAdmitted
    <3>1. ASSUME NEW w \in Workers, Handle(w)
          PROVE  UNCHANGED Chain!vars
      BY <1>4, <3>1, BeginQuiet, AllowIPEffect, SampleSequenceEffect, AllowSequenceEffect,
         RetrieveEffect, AllowGroupEffect, Zenon DEF Handle, Quiet
    <3> QED
      BY <3>1 DEF Next, Tick, vars, chainVars, Chain!vars
  <2>2. \A R, a : Picked(requests', PastChain, R, a) = Picked(requests, PastChain, R, a)
    <3>1. PastChain # PastIP /\ PastChain # PastSequence /\ PastChain # {"retransmitted"}
      <4>1. "chain" \in PastIP /\ "chain" \in PastSequence /\ "chain" \notin PastChain
            /\ "lookup" \in PastChain /\ "lookup" \notin {"retransmitted"}
        BY Places
      <4> QED
        BY <4>1
    <3> QED
      BY <1>4, <3>1, PickedElsewhere
  <2> QED
    BY <1>1, <2>1, <2>2
<1> QED
  BY <1>2, <1>3, <1>4

\* Requests, calls and counts.
Counted == Requests /\ Calls /\ IPCounted /\ GroupCounted /\ SequenceCounted /\ ChainCounted

\* Nothing has been counted when the process starts.
LEMMA CountedInit ==
  ASSUME Init, Known
  PROVE  Counted
<1>1. requests = << >> /\ seqAdmitted = {} /\ chainAdmitted = {} /\ worker = [w \in Workers |-> 0]
  BY DEF Init, Sequence!Init, Chain!Init
<1>2. \A P, R, a : Picked(requests, P, R, a) = {}
  BY <1>1 DEF Picked
<1>3. \A k, a : Tickets({}, k, a) = {}
  BY DEF Tickets
<1>4. Cardinality({}) = 0 /\ Cardinality(seqAdmitted) = 0 /\ Cardinality(chainAdmitted) = 0
  BY <1>1, FS_EmptySet
<1>5. IPCounted /\ GroupCounted
  <2>1. \A s \in Sources, a \in 0 .. MaxTime : ipGranted[s][a] = 0
    BY DEF Init, IP!Init, IP!Times
  <2>2. \A k \in Sources \X Groups, a \in 0 .. MaxTime : groupGranted[k][a] = 0
    BY DEF Init, Group!Init, Group!Times
  <2> QED
    BY <1>2, <1>4, <2>1, <2>2 DEF IPCounted, GroupCounted
<1>6. SequenceCounted /\ ChainCounted
  <2>1. \A k, a : Tickets(seqAdmitted, k, a) = {} /\ Tickets(chainAdmitted, k, a) = {}
    BY <1>1, <1>3
  <2>2. SequenceCounted
    BY <1>2, <1>4, <2>1 DEF SequenceCounted
  <2>3. ChainCounted
    BY <1>2, <1>4, <2>1 DEF ChainCounted
  <2> QED
    BY <2>2, <2>3
<1>7. Calls
  BY <1>1 DEF Calls, SequenceCall, ChainCall, At
<1> QED
  BY <1>5, <1>6, <1>7, TierInits DEF Counted

\* Counted is inductive, given what is known of the tiers.
LEMMA CountedStep ==
  ASSUME Known, Counted, [Next]_vars
  PROVE  Counted'
  BY RequestsStep, CallsStep, IPCountedStep, GroupCountedStep, SequenceCountedStep,
     ChainCountedStep DEF Counted

------------------------------------------------------------------------------

\* A part of what is counted is no more than the whole.
LEMMA Within ==
  ASSUME Requests, NEW S, NEW P, NEW R, NEW a, S \subseteq Picked(requests, P, R, a)
  PROVE  /\ Cardinality(S) \in Nat
         /\ Cardinality(S) <= Cardinality(Picked(requests, P, R, a))
         /\ Cardinality(Picked(requests, P, R, a)) \in Nat
  BY PickedFinite, FS_Subset, FS_CardinalityType

\* A request is one, and has a time.
LEMMA Typed ==
  ASSUME Requests, NEW i \in DOMAIN requests
  PROVE  requests[i].req \in Request /\ requests[i].from \in Nat
<1>1. requests[i] \in Entry
  BY DEF Requests
<1> QED
  BY <1>1, Settings DEF Entry

\* What the IP tier grants bounds what it lets pass.
LEMMA SourceBoundFrom ==
  ASSUME Counted, Known, IP!WithinRate
  PROVE  SourceBound
<1> SUFFICES ASSUME NEW s \in Sources, NEW a \in 0 .. clock
             PROVE  Cardinality({i \in Those(PastChain) :
                                   requests[i].req.src = s /\ requests[i].from >= a})
                      <= Limits.ipBurst + Limits.ipRate * (clock - a)
  BY DEF SourceBound
<1> DEFINE S == {i \in Those(PastChain) : requests[i].req.src = s /\ requests[i].from >= a}
<1>1. PastChain \subseteq PastIP
  BY Places
<1>2. S \subseteq Picked(requests, PastIP, OfSource(s), a)
  BY <1>1, Typed DEF Counted, Those, Picked, OfSource
<1>3. clock \in 0 .. MaxTime
  BY DEF Counted, Requests
<1>4. a \in 0 .. MaxTime
  BY <1>3, Settings
<1>5. Cardinality(Picked(requests, PastIP, OfSource(s), a)) <= ipGranted[s][a]
  BY <1>4 DEF Counted, IPCounted
<1>6. ipGranted[s][a] \in Nat
  BY <1>4, Zenon DEF Known, IP!TypeOK, IP!Times
<1>7. ipGranted[s][a] - (Limits.ipBurst + Limits.ipRate * (clock - a)) <= 0
  BY DEF IP!WithinRate, IP!Spent
<1>8. Limits.ipBurst + Limits.ipRate * (clock - a) \in Int
  BY <1>3, Settings
<1>9. Cardinality(S) \in Nat
      /\ Cardinality(S) <= Cardinality(Picked(requests, PastIP, OfSource(s), a))
      /\ Cardinality(Picked(requests, PastIP, OfSource(s), a)) \in Nat
  BY <1>2, Within DEF Counted
<1> QED
  BY <1>5, <1>6, <1>7, <1>8, <1>9

\* What the group tier grants bounds what is retransmitted.
LEMMA RetransmitBoundFrom ==
  ASSUME Counted, Known, Group!WithinRate
  PROVE  RetransmitBound
<1> SUFFICES ASSUME NEW s \in Sources, NEW g \in Groups, NEW a \in 0 .. clock
             PROVE  Cardinality({i \in Those({"retransmitted"}) :
                                   /\ requests[i].req.src = s /\ requests[i].req.group = g
                                   /\ requests[i].from >= a})
                      <= groupBurst + groupRate * (clock - a)
  BY DEF RetransmitBound
<1> DEFINE S == {i \in Those({"retransmitted"}) :
                   /\ requests[i].req.src = s /\ requests[i].req.group = g
                   /\ requests[i].from >= a}
           k == <<s, g>>
           T == Picked(requests, {"retransmitted"}, ToGroup(k), a)
<1>1. S \subseteq T
  BY Typed DEF Counted, Those, Picked, ToGroup
<1>2. clock \in 0 .. MaxTime /\ k \in Sources \X Groups
  BY DEF Counted, Requests
<1>3. a \in 0 .. MaxTime
  BY <1>2, Settings
<1>4. Cardinality(T) <= groupGranted[k][a]
  BY <1>2, <1>3 DEF Counted, GroupCounted
<1>5. groupGranted[k][a] \in Nat
  BY <1>2, <1>3, Zenon DEF Known, Group!TypeOK, Group!Times
<1>6. groupGranted[k][a] - (groupBurst + groupRate * (clock - a)) <= 0
  BY <1>2 DEF Group!WithinRate, Group!Spent
<1>7. groupBurst + groupRate * (clock - a) \in Int
  BY <1>2, Settings
<1>8. Cardinality(S) \in Nat /\ Cardinality(S) <= Cardinality(T) /\ Cardinality(T) \in Nat
  BY <1>1, Within DEF Counted
<1> QED
  BY <1>4, <1>5, <1>6, <1>7, <1>8

\* Cardinality is that of module FiniteSets, wherever it is named.
LEMMA SameCardinality ==
  \A S : Sequence!Cardinality(S) = Cardinality(S) /\ Chain!Cardinality(S) = Cardinality(S)
  BY DEF Sequence!Cardinality, Chain!Cardinality, Cardinality

\* What the sequence tier remembers of the window bounds what it let pass.
LEMMA GapBoundFrom ==
  ASSUME Counted, Known, Sequence!StampBound
  PROVE  GapBound
<1> SUFFICES ASSUME NEW q \in SeqNums
             PROVE  Cardinality({i \in Those(PastChain) :
                      requests[i].req.seq = q /\ requests[i].from > clock - sequenceWindow})
                        <= Limits.sequenceMax
  BY DEF GapBound
<1> DEFINE a == clock - sequenceWindow + 1
           S == {i \in Those(PastChain) :
                   requests[i].req.seq = q /\ requests[i].from > clock - sequenceWindow}
           P == Picked(requests, PastSequence, ForSeq(q), a)
           T == Tickets(seqAdmitted, q, a)
<1>1. PastChain \subseteq PastSequence
  BY Places
<1>2. clock \in Nat /\ sequenceWindow \in Nat /\ a \in Int
  BY Settings DEF Counted, Requests
<1>3. S \subseteq P
  BY <1>1, <1>2, Typed DEF Counted, Those, Picked, ForSeq
<1>4. Cardinality(P) <= Cardinality(T)
  BY <1>2 DEF Counted, SequenceCounted
<1>5. T = Sequence!After(Sequence!Of(q), clock - sequenceWindow)
  <2>1. \A x \in seqAdmitted : x.stamp \in Nat
    BY DEF Known, Sequence!TypeOK, Sequence!Admission
  <2> QED
    BY <1>2, <2>1 DEF Tickets, Sequence!After, Sequence!Of
<1>6. Cardinality(T) <= Limits.sequenceMax
  BY <1>5, SameCardinality DEF Sequence!StampBound
<1>7. Cardinality(T) \in Nat
  <2>1. T \subseteq seqAdmitted
    BY DEF Tickets
  <2> QED
    BY <2>1, FS_Subset, FS_CardinalityType DEF Known
<1>8. Cardinality(S) \in Nat /\ Cardinality(S) <= Cardinality(P) /\ Cardinality(P) \in Nat
  BY <1>3, Within DEF Counted
<1> QED
  BY <1>4, <1>6, <1>7, <1>8, Settings

\* Likewise for the chain tier.
LEMMA FlowBoundFrom ==
  ASSUME Counted, Known, Chain!StampBound
  PROVE  FlowBound
<1> SUFFICES ASSUME NEW s \in Sources, NEW h \in HashKeys \ {0}
             PROVE  Cardinality({i \in Those(PastChain) :
                      /\ requests[i].req.src = s /\ requests[i].req.hash = h
                      /\ requests[i].from > clock - chainWindow}) <= chainMax
  BY DEF FlowBound
<1> DEFINE a == clock - chainWindow + 1
           f == <<s, h>>
           S == {i \in Those(PastChain) :
                   /\ requests[i].req.src = s /\ requests[i].req.hash = h
                   /\ requests[i].from > clock - chainWindow}
           P == Picked(requests, PastChain, OfFlow(f), a)
           T == Tickets(chainAdmitted, f, a)
<1>1. clock \in Nat /\ chainWindow \in Nat /\ a \in Int
  BY Settings DEF Counted, Requests
<1>2. S \subseteq P
  BY <1>1, Typed DEF Counted, Those, Picked, OfFlow
<1>3. f \in Flows /\ f[2] # 0
  BY DEF Flows
<1>4. Cardinality(P) <= Cardinality(T)
  BY <1>1, <1>3 DEF Counted, ChainCounted
<1>5. T = Chain!After(Chain!Of(f), clock - chainWindow)
  <2>1. \A x \in chainAdmitted : x.stamp \in Nat
    BY DEF Known, Chain!TypeOK, Chain!Admission
  <2> QED
    BY <1>1, <2>1 DEF Tickets, Chain!After, Chain!Of
<1>6. Cardinality(T) <= chainMax
  BY <1>3, <1>5, SameCardinality DEF Chain!StampBound
<1>7. Cardinality(T) \in Nat
  <2>1. T \subseteq chainAdmitted
    BY DEF Tickets
  <2> QED
    BY <2>1, FS_Subset, FS_CardinalityType DEF Known
<1>8. Cardinality(S) \in Nat /\ Cardinality(S) <= Cardinality(P) /\ Cardinality(P) \in Nat
  BY <1>2, Within DEF Counted
<1> QED
  BY <1>4, <1>6, <1>7, <1>8, Settings

\* The counts of all times are the charges.
LEMMA ChargesMatchFrom ==
  ASSUME Counted
  PROVE  ChargesMatch
<1>1. Those(PastSequence) = Picked(requests, PastSequence, Request, 0)
  BY Typed DEF Counted, Those, Picked
<1>2. {i \in Those(PastChain) : requests[i].req.hash # 0} = Picked(requests, PastChain, Stamped, 0)
  BY Typed DEF Counted, Those, Picked, Stamped
<1> QED
  BY <1>1, <1>2, Zenon DEF Counted, SequenceCounted, ChainCounted, ChargesMatch

------------------------------------------------------------------------------
(* What the tiers' own proofs say *)

\* The tiers that Allow asks, and the two others.
SP == INSTANCE LimiterProofs WITH
  Callers <- Workers, Keys <- SeqNums, Max <- Limits.sequenceMax, Window <- sequenceWindow,
  call <- seqCall, calls <- seqCalls, entries <- seqEntries, timestamps <- seqStamps,
  admitted <- seqAdmitted, Holders <- Sources, Rate <- Limits.ipRate,
  Burst <- Limits.ipBurst, bucket <- ipBucket, granted <- ipGranted
CP == INSTANCE LimiterProofs WITH
  Callers <- Workers, Keys <- Flows, Max <- chainMax, Window <- chainWindow,
  call <- chainCall, calls <- chainCalls, entries <- chainEntries,
  timestamps <- chainStamps, admitted <- chainAdmitted, Holders <- Sources \X Groups,
  Rate <- groupRate, Burst <- groupBurst, bucket <- groupBucket, granted <- groupGranted

\* Finite sets and their size are those of module FiniteSets, wherever named.
LEMMA SameSets ==
  /\ \A S : SP!Cardinality(S) = Cardinality(S) /\ CP!Cardinality(S) = Cardinality(S)
  /\ \A S : SP!IsFiniteSet(S) = IsFiniteSet(S) /\ CP!IsFiniteSet(S) = IsFiniteSet(S)
  BY DEF SP!Cardinality, CP!Cardinality, Cardinality, SP!IsFiniteSet, CP!IsFiniteSet,
         IsFiniteSet

\* The IP tier, by both names.
LEMMA IPTier == IP!Spec => [](IP!TypeOK /\ IP!WithinRate /\ IP!Exact)
<1>0. SP!IsFiniteSet(Workers)
  BY SameSets, LimitsAssumption
<1>1. IP!Init => SP!Bucket!Init
  BY DEF IP!Init, SP!Bucket!Init, IP!None, SP!Bucket!None, IP!Times, SP!Bucket!Times
<1>2. [IP!Next]_(IP!vars) => [SP!Bucket!Next]_(SP!Bucket!vars)
  BY DEF IP!Next, SP!Bucket!Next, IP!vars, SP!Bucket!vars, IP!Tick, SP!Bucket!Tick,
         IP!Grant, SP!Bucket!Grant, IP!Refuse, SP!Bucket!Refuse, IP!Available,
         SP!Bucket!Available, IP!None, SP!Bucket!None, IP!Times, SP!Bucket!Times
<1>3. SP!Bucket!Spec => [](SP!Bucket!TypeOK /\ SP!Bucket!WithinRate /\ SP!Bucket!Exact)
  BY <1>0, Settings, SP!BucketHolds DEF SP!Natural
<1>4. SP!Bucket!TypeOK /\ SP!Bucket!WithinRate /\ SP!Bucket!Exact
        => IP!TypeOK /\ IP!WithinRate /\ IP!Exact
  BY DEF IP!TypeOK, SP!Bucket!TypeOK, IP!WithinRate, SP!Bucket!WithinRate, IP!Exact,
         SP!Bucket!Exact, IP!Spent, SP!Bucket!Spent, IP!Available, SP!Bucket!Available,
         IP!None, SP!Bucket!None, IP!Times, SP!Bucket!Times
<1> QED
  BY <1>1, <1>2, <1>3, <1>4, PTL DEF IP!Spec, SP!Bucket!Spec

\* Likewise for the group tier.
LEMMA GroupTier == Group!Spec => [](Group!TypeOK /\ Group!WithinRate /\ Group!Exact)
<1>0. CP!IsFiniteSet(Workers)
  BY SameSets, LimitsAssumption
<1>1. Group!Init => CP!Bucket!Init
  BY DEF Group!Init, CP!Bucket!Init, Group!None, CP!Bucket!None, Group!Times,
         CP!Bucket!Times
<1>2. [Group!Next]_(Group!vars) => [CP!Bucket!Next]_(CP!Bucket!vars)
  BY DEF Group!Next, CP!Bucket!Next, Group!vars, CP!Bucket!vars, Group!Tick,
         CP!Bucket!Tick, Group!Grant, CP!Bucket!Grant, Group!Refuse, CP!Bucket!Refuse,
         Group!Available, CP!Bucket!Available, Group!None, CP!Bucket!None, Group!Times,
         CP!Bucket!Times
<1>3. CP!Bucket!Spec => [](CP!Bucket!TypeOK /\ CP!Bucket!WithinRate /\ CP!Bucket!Exact)
  BY <1>0, Settings, CP!BucketHolds DEF CP!Natural
<1>4. CP!Bucket!TypeOK /\ CP!Bucket!WithinRate /\ CP!Bucket!Exact
        => Group!TypeOK /\ Group!WithinRate /\ Group!Exact
  BY DEF Group!TypeOK, CP!Bucket!TypeOK, Group!WithinRate, CP!Bucket!WithinRate,
         Group!Exact, CP!Bucket!Exact, Group!Spent, CP!Bucket!Spent, Group!Available,
         CP!Bucket!Available, Group!None, CP!Bucket!None, Group!Times, CP!Bucket!Times
<1> QED
  BY <1>1, <1>2, <1>3, <1>4, PTL DEF Group!Spec, CP!Bucket!Spec

\* What is known of a sliding window whose admissions are numbered.
SequenceKnown ==
  /\ Sequence!TypeOK /\ IsFiniteSet(seqAdmitted) /\ Sequence!StampBound
  /\ \A w \in Workers : Sequence!Ticket(w) \notin seqAdmitted

ChainKnown ==
  /\ Chain!TypeOK /\ IsFiniteSet(chainAdmitted) /\ Chain!StampBound
  /\ \A w \in Workers : Chain!Ticket(w) \notin chainAdmitted

\* The sequence tier, by both names.
LEMMA SequenceTier == Sequence!Spec => []SequenceKnown
<1>0. SP!IsFiniteSet(Workers)
  BY SameSets, LimitsAssumption
<1>1. Sequence!Init => SP!Init
  BY DEF Sequence!Init, SP!Init, Sequence!Idle, SP!Idle
<1>2. [Sequence!Next]_(Sequence!vars) => [SP!Next]_(SP!vars)
  BY SameSets, SameCardinality, Zenon
  DEF Sequence!Next, SP!Next, Sequence!vars, SP!vars, Sequence!Tick, SP!Tick,
      Sequence!Sample, SP!Sample, Sequence!Decide, SP!Decide, Sequence!Admit, SP!Admit,
      Sequence!Refuse, SP!Refuse, Sequence!Kept, SP!Kept, Sequence!After, SP!After,
      Sequence!Ticket, SP!Ticket, Sequence!Idle, SP!Idle
<1>3. SP!Spec => []SP!IInv
  BY <1>0, Settings, SP!Invariance
<1>4. SP!IInv => SP!StampBound
  BY <1>0, Settings, SP!IInvStampBound
<1>5. SP!IInv => SequenceKnown
  <2> SUFFICES ASSUME SP!IInv PROVE SequenceKnown
    OBVIOUS
  <2>1. Sequence!TypeOK
    BY DEF SP!IInv, SP!TypeOK, Sequence!TypeOK, SP!Admission, Sequence!Admission, SP!Idle,
           Sequence!Idle, SP!Sampled, Sequence!Sampled
  <2>2. IsFiniteSet(seqAdmitted)
    BY SameSets DEF SP!IInv, SP!HistoryOK
  <2>3. Sequence!StampBound
    BY <1>4, SameSets, SameCardinality
    DEF SP!StampBound, Sequence!StampBound, SP!After, Sequence!After, SP!Of, Sequence!Of
  <2>4. \A w \in Workers : Sequence!Ticket(w) \notin seqAdmitted
    BY <2>1 DEF SP!IInv, SP!HistoryOK, Sequence!Ticket, Sequence!TypeOK
  <2> QED
    BY <2>1, <2>2, <2>3, <2>4 DEF SequenceKnown
<1> QED
  BY <1>1, <1>2, <1>3, <1>5, PTL DEF Sequence!Spec, SP!Spec

\* Likewise for the chain tier.
LEMMA ChainTier == Chain!Spec => []ChainKnown
<1>0. CP!IsFiniteSet(Workers)
  BY SameSets, LimitsAssumption
<1>1. Chain!Init => CP!Init
  BY DEF Chain!Init, CP!Init, Chain!Idle, CP!Idle
<1>2. [Chain!Next]_(Chain!vars) => [CP!Next]_(CP!vars)
  BY SameSets, SameCardinality, Zenon
  DEF Chain!Next, CP!Next, Chain!vars, CP!vars, Chain!Tick, CP!Tick, Chain!Sample,
      CP!Sample, Chain!Decide, CP!Decide, Chain!Admit, CP!Admit, Chain!Refuse, CP!Refuse,
      Chain!Kept, CP!Kept, Chain!After, CP!After, Chain!Ticket, CP!Ticket, Chain!Idle,
      CP!Idle
<1>3. CP!Spec => []CP!IInv
  BY <1>0, Settings, CP!Invariance
<1>4. CP!IInv => CP!StampBound
  BY <1>0, Settings, CP!IInvStampBound
<1>5. CP!IInv => ChainKnown
  <2> SUFFICES ASSUME CP!IInv PROVE ChainKnown
    OBVIOUS
  <2>1. Chain!TypeOK
    BY DEF CP!IInv, CP!TypeOK, Chain!TypeOK, CP!Admission, Chain!Admission, CP!Idle,
           Chain!Idle, CP!Sampled, Chain!Sampled
  <2>2. IsFiniteSet(chainAdmitted)
    BY SameSets DEF CP!IInv, CP!HistoryOK
  <2>3. Chain!StampBound
    BY <1>4, SameSets, SameCardinality
    DEF CP!StampBound, Chain!StampBound, CP!After, Chain!After, CP!Of, Chain!Of
  <2>4. \A w \in Workers : Chain!Ticket(w) \notin chainAdmitted
    BY <2>1 DEF CP!IInv, CP!HistoryOK, Chain!Ticket, Chain!TypeOK
  <2> QED
    BY <2>1, <2>2, <2>3, <2>4 DEF ChainKnown
<1> QED
  BY <1>1, <1>2, <1>3, <1>5, PTL DEF Chain!Spec, CP!Spec

------------------------------------------------------------------------------

\* All that is known of the four tiers together, and the count of the requests.
Promises ==
  /\ IP!TypeOK /\ IP!WithinRate /\ IP!Exact
  /\ Group!TypeOK /\ Group!WithinRate /\ Group!Exact
  /\ SequenceKnown /\ ChainKnown /\ Counted

\* The tiers keep their promises in the process that shares them between its
\* workers, and every request that is past a tier is one of those it let pass.
THEOREM PromisesHold == Spec => []Promises
<1>1. (IP!TypeOK /\ IP!WithinRate /\ IP!Exact) /\ (Group!TypeOK /\ Group!WithinRate /\ Group!Exact)
        /\ SequenceKnown /\ ChainKnown => Known
  BY DEF Known, SequenceKnown, ChainKnown
<1>2. Init /\ Known => Counted
  BY CountedInit
<1>3. Known /\ Counted /\ [Next]_vars => Counted'
  BY CountedStep
<1>4. Spec => []Known
  BY <1>1, UsesTiers, IPTier, GroupTier, SequenceTier, ChainTier, PTL
<1>5. Spec => []Counted
  BY <1>2, <1>3, <1>4, PTL DEF Spec
<1>6. (IP!TypeOK /\ IP!WithinRate /\ IP!Exact) /\ (Group!TypeOK /\ Group!WithinRate /\ Group!Exact)
        /\ SequenceKnown /\ ChainKnown /\ Counted => Promises
  BY DEF Promises
<1> QED
  BY <1>5, <1>6, UsesTiers, IPTier, GroupTier, SequenceTier, ChainTier, PTL

\* What the counting rests on.
LEMMA PromisesKnown == Promises => Known
  BY DEF Promises, Known, SequenceKnown, ChainKnown

\* The state has its type.
THEOREM TypeCorrect == Spec => []TypeOK
<1>1. Promises => TypeOK
  BY PromisesKnown DEF Promises, Known, Counted, Requests, Entry, TypeOK
<1> QED
  BY <1>1, PromisesHold, PTL

\* ratelimit.go:3, 92: however many workers serve it, a source gets no more
\* requests to the cache in any stretch of time than burst and rate of the IP tier.
THEOREM SourceBoundHolds == Spec => []SourceBound
<1>1. Promises => SourceBound
  BY PromisesKnown, SourceBoundFrom DEF Promises
<1> QED
  BY <1>1, PromisesHold, PTL

\* ratelimit.go:5, 47, 95: no SeqNum is looked up more often per window than the
\* sequence tier's limit.
THEOREM GapBoundHolds == Spec => []GapBound
<1>1. Promises => GapBound
  BY PromisesKnown, GapBoundFrom DEF Promises, SequenceKnown
<1> QED
  BY <1>1, PromisesHold, PTL

\* ratelimit.go:4, 45, 106-112: no source has the stamped frames of one flow
\* looked up more often per window than the chain tier's limit.
THEOREM FlowBoundHolds == Spec => []FlowBound
<1>1. Promises => FlowBound
  BY PromisesKnown, FlowBoundFrom DEF Promises, ChainKnown
<1> QED
  BY <1>1, PromisesHold, PTL

\* ratelimit.go:6, 117-120: no source has more multicast to a group in any stretch
\* of time than burst and rate of the group tier.
THEOREM RetransmitBoundHolds == Spec => []RetransmitBound
<1>1. Promises => RetransmitBound
  BY PromisesKnown, RetransmitBoundFrom DEF Promises
<1> QED
  BY <1>1, PromisesHold, PTL

\* ratelimit.go:124-148: both token buckets refuse exactly what burst and rate do
\* not provide for.
THEOREM BucketsExactHolds == Spec => []BucketsExact
<1>1. Promises => BucketsExact
  BY DEF Promises, BucketsExact
<1> QED
  BY <1>1, PromisesHold, PTL

\* server.go:218-238: the sequence tier counts each request it let pass once, and
\* the chain tier each stamped one.
THEOREM ChargesMatchHolds == Spec => []ChargesMatch
<1>1. Promises => ChargesMatch
  BY ChargesMatchFrom DEF Promises
<1> QED
  BY <1>1, PromisesHold, PTL

==============================================================================
