------------------------------ MODULE RateLimitProofs ---------------------------
(***************************************************************************)
(* Proofs about RateLimit, for any number of workers, sources, flows,      *)
(* SeqNums and groups and for all limits.  Here: what a step does to the   *)
(* requests and to the tiers, and that every tier is used the way its own  *)
(* module says, so that what was proved of the tiers on their own holds of *)
(* them in the process.                                                    *)
(***************************************************************************)
EXTENDS RateLimit, FiniteSetTheorems, TLAPS

\* The settings New works with are in range, whatever it is given (ratelimit.go:54-86).
LEMMA Settings ==
  /\ Limits.ipRate \in Nat /\ Limits.ipBurst \in Nat /\ Limits.sequenceMax \in Nat
  /\ MaxTime \in Nat /\ MaxCalls \in Nat
  /\ groupRate \in Nat /\ groupBurst \in Nat /\ chainMax \in Nat
  /\ sequenceWindow \in Nat \ {0} /\ chainWindow \in Nat \ {0}
<1>1. chainRate \div 1000 \in Int
  <2>1. chainRate \in Int
    BY LimitsAssumption DEF chainRate
  <2> QED
    BY <2>1
<1>2. groupRate \in Nat /\ groupBurst \in Nat
  BY LimitsAssumption DEF groupRate, groupBurst, Positive
<1>3. chainMax \in Nat
  BY <1>1 DEF chainMax, Positive
<1>4. sequenceWindow \in Nat \ {0}
  BY LimitsAssumption DEF sequenceWindow, Positive
<1>5. chainWindow \in Nat \ {0}
  BY LimitsAssumption DEF chainWindow, Positive
<1> QED
  BY <1>2, <1>3, <1>4, <1>5, LimitsAssumption

------------------------------------------------------------------------------
(* The requests *)

Entry == [req : Request, by : Workers, from : 0 .. MaxTime, at : Tiers \cup Outcomes]

\* A worker is at a request of its own, which was taken up no later than now.
Requests ==
  /\ clock \in 0 .. MaxTime
  /\ requests \in Seq(Entry)
  /\ worker \in [Workers -> 0 .. Len(requests)]
  /\ \A w \in Workers : worker[w] # 0 => requests[worker[w]].by = w
  /\ \A i \in DOMAIN requests : requests[i].from <= clock

\* The worker's request goes to another place; nothing else about requests changes.
Moved(w, place) ==
  /\ DOMAIN requests' = DOMAIN requests
  /\ worker[w] \in DOMAIN requests
  /\ requests'[worker[w]].at = place
  /\ \A i \in DOMAIN requests :
       /\ requests'[i].req = requests[i].req /\ requests'[i].by = requests[i].by
       /\ requests'[i].from = requests[i].from
       /\ i # worker[w] => requests'[i] = requests[i]
  /\ \A v \in Workers : v # w => worker'[v] = worker[v]
  /\ worker'[w] \in {0, worker[w]}

\* Goto and Done move the request, and Done frees the worker.
LEMMA MoveEffect ==
  ASSUME Requests, NEW w \in Workers, worker[w] # 0, clock' = clock,
         NEW place \in Tiers \cup Outcomes, Goto(w, place) \/ Done(w, place)
  PROVE  Requests' /\ Moved(w, place)
<1> DEFINE i == worker[w]
           e == [requests[i] EXCEPT !.at = place]
<1>1. i \in 1 .. Len(requests) /\ requests[i] \in Entry /\ DOMAIN requests = 1 .. Len(requests)
  BY DEF Requests
<1>2. e \in Entry /\ e.at = place /\ e.req = requests[i].req /\ e.by = requests[i].by
      /\ e.from = requests[i].from
  BY <1>1 DEF Entry
<1>3. requests' = [requests EXCEPT ![i] = e]
  BY DEF Goto, Done
<1>4. worker' \in [Workers -> 0 .. Len(requests)]
      /\ \A v \in Workers : worker'[v] \in {0, worker[v]} /\ (v # w => worker'[v] = worker[v])
  BY DEF Goto, Done, Requests
<1> HIDE DEF e, i
<1>5. /\ requests' \in Seq(Entry) /\ Len(requests') = Len(requests)
      /\ DOMAIN requests' = DOMAIN requests
      /\ \A j \in DOMAIN requests : requests'[j] = IF j = i THEN e ELSE requests[j]
  BY <1>1, <1>2, <1>3 DEF Requests
<1>6. Moved(w, place)
  BY <1>1, <1>2, <1>4, <1>5 DEF Moved, i
<1>7. \A v \in Workers : worker'[v] # 0 => requests'[worker'[v]].by = v
  <2> SUFFICES ASSUME NEW v \in Workers, worker'[v] # 0
               PROVE  requests'[worker'[v]].by = v
    OBVIOUS
  <2>1. worker'[v] = worker[v] /\ worker[v] \in DOMAIN requests /\ requests[worker[v]].by = v
    BY <1>1, <1>4 DEF Requests
  <2> QED
    BY <1>6, <2>1 DEF Moved
<1>8. \A j \in DOMAIN requests' : requests'[j].from <= clock'
  BY <1>5, <1>6 DEF Moved, Requests
<1> QED
  BY <1>4, <1>5, <1>6, <1>7, <1>8 DEF Requests

\* Begin adds a request at the first tier, and the worker is at it.
LEMMA BeginEffect ==
  ASSUME Requests, NEW w \in Workers, NEW r \in Request, Begin(w, r)
  PROVE  /\ Requests'
         /\ DOMAIN requests' = DOMAIN requests \cup {Len(requests) + 1}
         /\ \A i \in DOMAIN requests : requests'[i] = requests[i]
         /\ requests'[Len(requests) + 1].at = "ip"
         /\ worker' = [worker EXCEPT ![w] = Len(requests) + 1]
<1> DEFINE n == Len(requests) + 1
           e == [req |-> r, by |-> w, from |-> clock, at |-> "ip"]
<1>1. e \in Entry /\ e.at = "ip" /\ e.by = w /\ e.from = clock
  BY DEF Entry, Requests, Tiers
<1>2. requests' = Append(requests, e) /\ worker' = [worker EXCEPT ![w] = n] /\ clock' = clock
  BY DEF Begin
<1> HIDE DEF e
<1>3. /\ requests' \in Seq(Entry) /\ Len(requests') = n /\ requests'[n] = e
      /\ DOMAIN requests = 1 .. Len(requests) /\ DOMAIN requests' = 1 .. n
      /\ \A i \in DOMAIN requests : requests'[i] = requests[i]
      /\ Len(requests) \in Nat
  BY <1>1, <1>2 DEF Requests
<1>4. DOMAIN requests' = DOMAIN requests \cup {n}
  BY <1>3
<1>5. worker' \in [Workers -> 0 .. Len(requests')]
  BY <1>2, <1>3 DEF Requests
<1>6. \A v \in Workers : worker'[v] # 0 => requests'[worker'[v]].by = v
  BY <1>1, <1>2, <1>3 DEF Requests
<1>7. \A i \in DOMAIN requests' : requests'[i].from <= clock'
  <2>1. clock <= clock
    BY DEF Requests
  <2> QED
    BY <1>1, <1>2, <1>3, <1>4, <2>1 DEF Requests
<1> QED
  BY <1>1, <1>2, <1>3, <1>4, <1>5, <1>6, <1>7 DEF Requests

\* The request a worker is at.
LEMMA CurrentType ==
  ASSUME Requests, NEW w \in Workers, NEW tier, At(w, tier)
  PROVE  /\ worker[w] # 0 /\ worker[w] \in DOMAIN requests
         /\ requests[worker[w]] \in Entry /\ requests[worker[w]].at = tier
         /\ Current(w) = requests[worker[w]].req
         /\ Current(w) \in Request
         /\ Current(w).src \in Sources /\ Current(w).hash \in HashKeys
         /\ Current(w).seq \in SeqNums /\ Current(w).group \in Groups
<1>1. worker[w] # 0 /\ worker[w] \in DOMAIN requests /\ requests[worker[w]] \in Entry
      /\ requests[worker[w]].at = tier
  BY DEF At, Requests
<1>2. Current(w) \in Request
  BY <1>1 DEF Current, Entry
<1> QED
  BY <1>1, <1>2 DEF Request, Current

Quiet ==
  /\ UNCHANGED IP!vars /\ UNCHANGED Group!vars /\ UNCHANGED Sequence!vars /\ UNCHANGED Chain!vars

\* What each step does to the requests and to the tiers.
LEMMA AllowIPEffect ==
  ASSUME Requests, NEW w \in Workers, AllowIP(w)
  PROVE  /\ Requests'
         /\ UNCHANGED Group!vars /\ UNCHANGED Sequence!vars /\ UNCHANGED Chain!vars
         /\ \/ IP!Grant(Current(w).src) /\ Moved(w, "sequence")
            \/ IP!Refuse(Current(w).src) /\ Moved(w, "refusedIP")
<1>1. worker[w] # 0
  BY CurrentType DEF AllowIP
<1>2. clock' = clock /\ UNCHANGED <<seqVars, chainVars, groupVars>>
  BY DEF AllowIP, IP!Grant, IP!Refuse
<1>3. \/ IP!Grant(Current(w).src) /\ Goto(w, "sequence")
      \/ IP!Refuse(Current(w).src) /\ Done(w, "refusedIP")
  BY DEF AllowIP
<1>4. "sequence" \in Tiers \cup Outcomes /\ "refusedIP" \in Tiers \cup Outcomes
  BY DEF Tiers, Outcomes
<1>5. UNCHANGED Group!vars /\ UNCHANGED Sequence!vars /\ UNCHANGED Chain!vars
  BY <1>2 DEF seqVars, chainVars, groupVars, Group!vars, Sequence!vars, Chain!vars
<1> QED
  BY <1>1, <1>2, <1>3, <1>4, <1>5, MoveEffect

\* The sequence tier reads the clock for the request's SeqNum.
LEMMA SampleSequenceEffect ==
  ASSUME Requests, NEW w \in Workers, SampleSequence(w)
  PROVE  /\ Requests' /\ Moved(w, "sequenceLock")
         /\ UNCHANGED IP!vars /\ UNCHANGED Group!vars /\ UNCHANGED Chain!vars
         /\ Sequence!Sample(w, Current(w).seq)
<1>1. worker[w] # 0
  BY CurrentType DEF SampleSequence
<1>2. clock' = clock /\ UNCHANGED <<ipVars, chainVars, groupVars>>
  BY DEF SampleSequence, Sequence!Sample
<1>3. Sequence!Sample(w, Current(w).seq) /\ Goto(w, "sequenceLock")
  BY DEF SampleSequence
<1>4. "sequenceLock" \in Tiers \cup Outcomes
  BY DEF Tiers
<1>5. UNCHANGED IP!vars /\ UNCHANGED Group!vars /\ UNCHANGED Chain!vars
  BY <1>2 DEF ipVars, chainVars, groupVars, Group!vars, IP!vars, Chain!vars
<1> QED
  BY <1>1, <1>2, <1>3, <1>4, <1>5, MoveEffect

\* The sequence tier decides, and the request goes on or ends there.
LEMMA AllowSequenceEffect ==
  ASSUME Requests, NEW w \in Workers, AllowSequence(w)
  PROVE  /\ Requests'
         /\ UNCHANGED IP!vars /\ UNCHANGED Group!vars /\ UNCHANGED Chain!vars
         /\ Sequence!Decide(w)
         /\ \/ seqAdmitted' # seqAdmitted /\ Moved(w, "chain")
            \/ seqAdmitted' = seqAdmitted /\ Moved(w, "refusedSequence")
<1>1. worker[w] # 0
  BY CurrentType DEF AllowSequence
<1>2. clock' = clock /\ UNCHANGED <<ipVars, chainVars, groupVars>>
  BY DEF AllowSequence, Sequence!Decide
<1>3. /\ Sequence!Decide(w)
      /\ \/ seqAdmitted' # seqAdmitted /\ Goto(w, "chain")
         \/ seqAdmitted' = seqAdmitted /\ Done(w, "refusedSequence")
  BY DEF AllowSequence
<1>4. "chain" \in Tiers \cup Outcomes /\ "refusedSequence" \in Tiers \cup Outcomes
  BY DEF Tiers, Outcomes
<1>5. UNCHANGED IP!vars /\ UNCHANGED Group!vars /\ UNCHANGED Chain!vars
  BY <1>2 DEF ipVars, chainVars, groupVars, Group!vars, IP!vars, Chain!vars
<1> QED
  BY <1>1, <1>2, <1>3, <1>4, <1>5, MoveEffect

\* Unstamped requests pass the chain tier; for others it reads the clock.
LEMMA SampleChainEffect ==
  ASSUME Requests, NEW w \in Workers, SampleChain(w)
  PROVE  /\ Requests'
         /\ UNCHANGED IP!vars /\ UNCHANGED Group!vars /\ UNCHANGED Sequence!vars
         /\ \/ Current(w).hash = 0 /\ Moved(w, "lookup") /\ UNCHANGED Chain!vars
            \/ /\ Current(w).hash # 0 /\ Moved(w, "chainLock")
               /\ Chain!Sample(w, <<Current(w).src, Current(w).hash>>)
<1>1. worker[w] # 0
  BY CurrentType DEF SampleChain
<1>2. clock' = clock /\ UNCHANGED <<ipVars, seqVars, groupVars>>
  BY DEF SampleChain, Chain!Sample
<1>3. \/ Current(w).hash = 0 /\ Goto(w, "lookup") /\ UNCHANGED Chain!vars
      \/ /\ Current(w).hash # 0 /\ Goto(w, "chainLock")
         /\ Chain!Sample(w, <<Current(w).src, Current(w).hash>>)
  BY DEF SampleChain, chainVars, Chain!vars
<1>4. "lookup" \in Tiers \cup Outcomes /\ "chainLock" \in Tiers \cup Outcomes
  BY DEF Tiers
<1>5. UNCHANGED IP!vars /\ UNCHANGED Group!vars /\ UNCHANGED Sequence!vars
  BY <1>2 DEF ipVars, seqVars, groupVars, Group!vars, IP!vars, Sequence!vars
<1> QED
  BY <1>1, <1>2, <1>3, <1>4, <1>5, MoveEffect

\* The chain tier decides, and the request goes to the lookup or ends there.
LEMMA AllowChainEffect ==
  ASSUME Requests, NEW w \in Workers, AllowChain(w)
  PROVE  /\ Requests'
         /\ UNCHANGED IP!vars /\ UNCHANGED Group!vars /\ UNCHANGED Sequence!vars
         /\ Chain!Decide(w)
         /\ \/ chainAdmitted' # chainAdmitted /\ Moved(w, "lookup")
            \/ chainAdmitted' = chainAdmitted /\ Moved(w, "refusedChain")
<1>1. worker[w] # 0
  BY CurrentType DEF AllowChain
<1>2. clock' = clock /\ UNCHANGED <<ipVars, seqVars, groupVars>>
  BY DEF AllowChain, Chain!Decide
<1>3. /\ Chain!Decide(w)
      /\ \/ chainAdmitted' # chainAdmitted /\ Goto(w, "lookup")
         \/ chainAdmitted' = chainAdmitted /\ Done(w, "refusedChain")
  BY DEF AllowChain
<1>4. "lookup" \in Tiers \cup Outcomes /\ "refusedChain" \in Tiers \cup Outcomes
  BY DEF Tiers, Outcomes
<1>5. UNCHANGED IP!vars /\ UNCHANGED Group!vars /\ UNCHANGED Sequence!vars
  BY <1>2 DEF ipVars, seqVars, groupVars, Group!vars, IP!vars, Sequence!vars
<1> QED
  BY <1>1, <1>2, <1>3, <1>4, <1>5, MoveEffect

\* The lookup touches no tier.
LEMMA RetrieveEffect ==
  ASSUME Requests, NEW w \in Workers, Retrieve(w)
  PROVE  Requests' /\ Quiet /\ (Moved(w, "group") \/ Moved(w, "missed"))
<1>1. worker[w] # 0
  BY CurrentType DEF Retrieve
<1>2. clock' = clock /\ (Goto(w, "group") \/ Done(w, "missed"))
  BY DEF Retrieve
<1>3. "group" \in Tiers \cup Outcomes /\ "missed" \in Tiers \cup Outcomes
  BY DEF Tiers, Outcomes
<1>4. Quiet
  BY DEF Retrieve, Quiet, ipVars, seqVars, chainVars, groupVars,
         IP!vars, Group!vars, Sequence!vars, Chain!vars
<1> QED
  BY <1>1, <1>2, <1>3, <1>4, MoveEffect

\* The group tier grants the retransmission or refuses it.
LEMMA AllowGroupEffect ==
  ASSUME Requests, NEW w \in Workers, AllowGroup(w)
  PROVE  /\ Requests'
         /\ UNCHANGED IP!vars /\ UNCHANGED Sequence!vars /\ UNCHANGED Chain!vars
         /\ \/ Group!Grant(<<Current(w).src, Current(w).group>>) /\ Moved(w, "retransmitted")
            \/ Group!Refuse(<<Current(w).src, Current(w).group>>) /\ Moved(w, "throttled")
<1>1. worker[w] # 0
  BY CurrentType DEF AllowGroup
<1>2. clock' = clock /\ UNCHANGED <<ipVars, seqVars, chainVars>>
  BY DEF AllowGroup, Group!Grant, Group!Refuse
<1>3. \/ Group!Grant(<<Current(w).src, Current(w).group>>) /\ Done(w, "retransmitted")
      \/ Group!Refuse(<<Current(w).src, Current(w).group>>) /\ Done(w, "throttled")
  BY DEF AllowGroup
<1>4. "retransmitted" \in Tiers \cup Outcomes /\ "throttled" \in Tiers \cup Outcomes
  BY DEF Outcomes
<1>5. UNCHANGED IP!vars /\ UNCHANGED Sequence!vars /\ UNCHANGED Chain!vars
  BY <1>2 DEF ipVars, seqVars, chainVars, IP!vars, Sequence!vars, Chain!vars
<1> QED
  BY <1>1, <1>2, <1>3, <1>4, <1>5, MoveEffect

\* Time passes for every tier at once.
LEMMA TickEffect ==
  ASSUME Requests, Tick
  PROVE  Requests' /\ IP!Tick /\ Group!Tick /\ Sequence!Tick /\ Chain!Tick
<1>1. UNCHANGED <<requests, worker>> /\ clock < MaxTime /\ clock' = clock + 1
  BY DEF Tick
<1>2. Requests'
  <2>1. clock' \in 0 .. MaxTime
    BY <1>1, Settings DEF Requests
  <2>2. \A i \in DOMAIN requests : requests[i].from <= clock'
    <3>1. \A i \in DOMAIN requests : requests[i] \in Entry
      BY DEF Requests
    <3>2. \A i \in DOMAIN requests : requests[i].from \in Int /\ requests[i].from <= clock
      BY <3>1 DEF Entry, Requests
    <3> QED
      BY <1>1, <3>2 DEF Requests
  <2> QED
    BY <1>1, <2>1, <2>2 DEF Requests
<1>3. IP!Tick /\ Group!Tick
  BY DEF Tick, IP!Tick, Group!Tick, ipVars, groupVars
<1>4. Sequence!Tick /\ Chain!Tick
  BY DEF Tick, Sequence!Tick, Chain!Tick, seqVars, chainVars
<1> QED
  BY <1>2, <1>3, <1>4

\* Taking up a request touches no tier.
LEMMA BeginQuiet ==
  ASSUME NEW w, NEW r, Begin(w, r)
  PROVE  Quiet
  BY DEF Begin, Quiet, ipVars, seqVars, chainVars, groupVars,
         IP!vars, Group!vars, Sequence!vars, Chain!vars

\* Requests is inductive.
LEMMA RequestsStep ==
  ASSUME Requests, [Next]_vars
  PROVE  Requests'
<1>1. ASSUME NEW w \in Workers, Handle(w) PROVE Requests'
  BY <1>1, BeginEffect, AllowIPEffect, SampleSequenceEffect, AllowSequenceEffect,
     SampleChainEffect, AllowChainEffect, RetrieveEffect, AllowGroupEffect, Zenon DEF Handle
<1>2. CASE UNCHANGED vars
  BY <1>2 DEF vars, Requests
<1> QED
  BY <1>1, <1>2, TickEffect DEF Next

\* Every step is a step of each tier, or leaves that tier alone.
LEMMA TierSteps ==
  ASSUME Requests, [Next]_vars
  PROVE  /\ [IP!Next]_IP!vars /\ [Group!Next]_Group!vars
         /\ [Sequence!Next]_Sequence!vars /\ [Chain!Next]_Chain!vars
<1>1. ASSUME NEW w \in Workers, Handle(w)
      PROVE  /\ [IP!Next]_IP!vars /\ [Group!Next]_Group!vars
             /\ [Sequence!Next]_Sequence!vars /\ [Chain!Next]_Chain!vars
  <2>1. CASE \E r \in Request : Begin(w, r)
    BY <2>1, BeginQuiet DEF Quiet
  <2>2. CASE AllowIP(w)
    <3>1. Current(w).src \in Sources
      BY <2>2, CurrentType DEF AllowIP
    <3> QED
      BY <2>2, <3>1, AllowIPEffect DEF IP!Next
  <2>3. CASE SampleSequence(w)
    <3>1. Current(w).seq \in SeqNums
      BY <2>3, CurrentType DEF SampleSequence
    <3> QED
      BY <2>3, <3>1, SampleSequenceEffect DEF Sequence!Next
  <2>4. CASE AllowSequence(w)
    BY <2>4, AllowSequenceEffect DEF Sequence!Next
  <2>5. CASE SampleChain(w)
    <3>1. <<Current(w).src, Current(w).hash>> \in Flows
      BY <2>5, CurrentType DEF SampleChain, Flows
    <3> QED
      BY <2>5, <3>1, SampleChainEffect DEF Chain!Next
  <2>6. CASE AllowChain(w)
    BY <2>6, AllowChainEffect DEF Chain!Next
  <2>7. CASE Retrieve(w)
    BY <2>7, RetrieveEffect DEF Quiet
  <2>8. CASE AllowGroup(w)
    <3>1. <<Current(w).src, Current(w).group>> \in Sources \X Groups
      BY <2>8, CurrentType DEF AllowGroup
    <3> QED
      BY <2>8, <3>1, AllowGroupEffect DEF Group!Next
  <2> QED
    BY <1>1, <2>1, <2>2, <2>3, <2>4, <2>5, <2>6, <2>7, <2>8 DEF Handle
<1>2. CASE UNCHANGED vars
  BY <1>2 DEF vars, ipVars, seqVars, chainVars, groupVars,
              IP!vars, Group!vars, Sequence!vars, Chain!vars
<1>3. CASE Tick
  BY <1>3, TickEffect DEF IP!Next, Group!Next, Sequence!Next, Chain!Next
<1> QED
  BY <1>1, <1>2, <1>3 DEF Next

\* Every tier starts the way its own module says.
LEMMA TierInits ==
  ASSUME Init
  PROVE  Requests /\ IP!Init /\ Group!Init /\ Sequence!Init /\ Chain!Init
<1>1. IP!Init /\ Group!Init /\ Sequence!Init /\ Chain!Init
  BY DEF Init
<1>3. clock = 0 /\ requests = << >> /\ worker = [w \in Workers |-> 0]
  BY DEF Init, IP!Init
<1>4. Requests
  BY <1>3, Settings DEF Requests
<1> QED
  BY <1>1, <1>4

\* ratelimit.go:80-86, server.go:218-292: whatever workers do between their calls,
\* each of the four tiers is used as its own module says; so all that holds of a
\* limiter on its own holds of it here.
THEOREM UsesTiers == Spec => IP!Spec /\ Group!Spec /\ Sequence!Spec /\ Chain!Spec
<1>1. Spec => []Requests
  BY TierInits, RequestsStep, PTL DEF Spec
<1> QED
  BY <1>1, TierInits, TierSteps, PTL DEF Spec, IP!Spec, Group!Spec, Sequence!Spec, Chain!Spec

------------------------------------------------------------------------------
(* Towards the bounds: the requests that are past a tier, counted *)

\* The entries that are at one of the places, ask for one of these requests and
\* were taken up at a or later.
Picked(rs, places, R, a) ==
  {i \in DOMAIN rs : rs[i].at \in places /\ rs[i].req \in R /\ rs[i].from >= a}

\* Requests can be counted.
LEMMA PickedFinite ==
  ASSUME Requests, NEW P, NEW R, NEW a
  PROVE  IsFiniteSet(Picked(requests, P, R, a)) /\ Cardinality(Picked(requests, P, R, a)) \in Nat
<1>1. IsFiniteSet(1 .. Len(requests)) /\ DOMAIN requests = 1 .. Len(requests)
  BY FS_Interval DEF Requests
<1>2. Picked(requests, P, R, a) \subseteq 1 .. Len(requests)
  BY <1>1 DEF Picked
<1> QED
  BY <1>1, <1>2, FS_Subset, FS_CardinalityType

\* A request that stays inside or outside of the places, or that is not asked
\* for, changes nothing.
LEMMA PickedKept ==
  ASSUME Requests, NEW w \in Workers, NEW place, Moved(w, place), NEW P, NEW R, NEW a,
         \/ requests[worker[w]].at \in P <=> place \in P
         \/ requests[worker[w]].req \notin R
  PROVE  Picked(requests', P, R, a) = Picked(requests, P, R, a)
  BY DEF Moved, Picked

\* One that enters is counted from then on.
LEMMA PickedEntered ==
  ASSUME Requests, NEW w \in Workers, NEW place, Moved(w, place), NEW P, NEW R, NEW a,
         requests[worker[w]].at \notin P, place \in P
  PROVE  /\ worker[w] \notin Picked(requests, P, R, a)
         /\ Picked(requests', P, R, a) =
              IF requests[worker[w]].req \in R /\ requests[worker[w]].from >= a
              THEN Picked(requests, P, R, a) \cup {worker[w]}
              ELSE Picked(requests, P, R, a)
  BY DEF Moved, Picked

\* A new request is past no tier.
LEMMA PickedBegin ==
  ASSUME Requests, NEW w \in Workers, NEW r \in Request, Begin(w, r),
         NEW P, NEW R, NEW a, "ip" \notin P
  PROVE  Picked(requests', P, R, a) = Picked(requests, P, R, a)
  BY BeginEffect DEF Picked

\* One element more in a set counts for at most one.
LEMMA OneMore ==
  ASSUME NEW S, IsFiniteSet(S), NEW x
  PROVE  /\ IsFiniteSet(S \cup {x}) /\ Cardinality(S) \in Nat
         /\ x \notin S => Cardinality(S \cup {x}) = Cardinality(S) + 1
         /\ Cardinality(S \cup {x}) <= Cardinality(S) + 1
  BY FS_AddElement, FS_CardinalityType

PastIP == (Tiers \cup Outcomes) \ {"ip", "refusedIP"}

\* What a request must be past to count for each of the tiers.
LEMMA Places ==
  /\ PastIP = {"sequence", "sequenceLock", "chain", "chainLock", "lookup", "group",
               "refusedSequence", "refusedChain", "missed", "throttled", "retransmitted"}
  /\ PastSequence = {"chain", "chainLock", "refusedChain", "lookup", "group", "missed",
                     "throttled", "retransmitted"}
  /\ PastChain = {"lookup", "group", "missed", "throttled", "retransmitted"}
  BY DEF PastIP, PastSequence, PastChain, Tiers, Outcomes

\* No step but those that enter a set of places changes what is picked from it.
LEMMA PickedElsewhere ==
  ASSUME Requests, [Next]_vars,
         NEW P \in {PastIP, PastSequence, PastChain, {"retransmitted"}}, NEW R, NEW a,
         P = PastIP => \A w \in Workers : ~AllowIP(w),
         P = PastSequence => \A w \in Workers : ~AllowSequence(w),
         P = PastChain => \A w \in Workers : ~SampleChain(w) /\ ~AllowChain(w),
         P = {"retransmitted"} => \A w \in Workers : ~AllowGroup(w)
  PROVE  Picked(requests', P, R, a) = Picked(requests, P, R, a)
<1>1. CASE requests' = requests
  BY <1>1
<1>2. ASSUME NEW w \in Workers, Handle(w)
      PROVE  Picked(requests', P, R, a) = Picked(requests, P, R, a)
  <2>1. ASSUME NEW r \in Request, Begin(w, r)
        PROVE  Picked(requests', P, R, a) = Picked(requests, P, R, a)
    <3>1. "ip" \notin P
      BY Places
    <3> QED
      BY <2>1, <3>1, PickedBegin
  <2>2. CASE AllowIP(w)
    <3>1. requests[worker[w]].at = "ip" /\ (Moved(w, "sequence") \/ Moved(w, "refusedIP"))
      BY <2>2, AllowIPEffect, CurrentType DEF AllowIP
    <3>2. "ip" \notin P /\ "sequence" \notin P /\ "refusedIP" \notin P
      BY <2>2, Places
    <3> QED
      BY <3>1, <3>2, PickedKept
  <2>3. CASE SampleSequence(w)
    <3>1. requests[worker[w]].at = "sequence" /\ Moved(w, "sequenceLock")
      BY <2>3, SampleSequenceEffect, CurrentType DEF SampleSequence
    <3>2. "sequence" \in P <=> "sequenceLock" \in P
      BY Places
    <3> QED
      BY <3>1, <3>2, PickedKept
  <2>4. CASE AllowSequence(w)
    <3>1. /\ requests[worker[w]].at = "sequenceLock"
          /\ Moved(w, "chain") \/ Moved(w, "refusedSequence")
      BY <2>4, AllowSequenceEffect, CurrentType DEF AllowSequence
    <3>2. /\ "sequenceLock" \in P <=> "chain" \in P
          /\ "sequenceLock" \in P <=> "refusedSequence" \in P
      BY <2>4, Places
    <3> QED
      BY <3>1, <3>2, PickedKept
  <2>5. CASE SampleChain(w)
    <3>1. requests[worker[w]].at = "chain" /\ (Moved(w, "lookup") \/ Moved(w, "chainLock"))
      BY <2>5, SampleChainEffect, CurrentType DEF SampleChain
    <3>2. ("chain" \in P <=> "lookup" \in P) /\ ("chain" \in P <=> "chainLock" \in P)
      BY <2>5, Places
    <3> QED
      BY <3>1, <3>2, PickedKept
  <2>6. CASE AllowChain(w)
    <3>1. /\ requests[worker[w]].at = "chainLock"
          /\ Moved(w, "lookup") \/ Moved(w, "refusedChain")
      BY <2>6, AllowChainEffect, CurrentType DEF AllowChain
    <3>2. /\ "chainLock" \in P <=> "lookup" \in P
          /\ "chainLock" \in P <=> "refusedChain" \in P
      BY <2>6, Places
    <3> QED
      BY <3>1, <3>2, PickedKept
  <2>7. CASE Retrieve(w)
    <3>1. requests[worker[w]].at = "lookup" /\ (Moved(w, "group") \/ Moved(w, "missed"))
      BY <2>7, RetrieveEffect, CurrentType DEF Retrieve
    <3>2. ("lookup" \in P <=> "group" \in P) /\ ("lookup" \in P <=> "missed" \in P)
      BY Places
    <3> QED
      BY <3>1, <3>2, PickedKept
  <2>8. CASE AllowGroup(w)
    <3>1. /\ requests[worker[w]].at = "group"
          /\ Moved(w, "retransmitted") \/ Moved(w, "throttled")
      BY <2>8, AllowGroupEffect, CurrentType DEF AllowGroup
    <3>2. /\ "group" \in P <=> "retransmitted" \in P
          /\ "group" \in P <=> "throttled" \in P
      BY <2>8, Places
    <3> QED
      BY <3>1, <3>2, PickedKept
  <2> QED
    BY <1>2, <2>1, <2>2, <2>3, <2>4, <2>5, <2>6, <2>7, <2>8 DEF Handle
<1> QED
  BY <1>1, <1>2 DEF Next, Tick, vars

\* What is known of the tiers from their own proofs.
Known ==
  /\ IP!TypeOK /\ Group!TypeOK /\ Sequence!TypeOK /\ Chain!TypeOK
  /\ IsFiniteSet(seqAdmitted) /\ IsFiniteSet(chainAdmitted)
  /\ \A w \in Workers :
       Sequence!Ticket(w) \notin seqAdmitted /\ Chain!Ticket(w) \notin chainAdmitted

\* A worker that waits for a tier's lock has read the clock for the request it is
\* at, and not before it took that up.
SequenceCall(w) ==
  At(w, "sequenceLock") =>
    seqCall[w].key = Current(w).seq /\ seqCall[w].now >= requests[worker[w]].from

ChainCall(w) ==
  At(w, "chainLock") =>
    /\ chainCall[w].key = <<Current(w).src, Current(w).hash>>
    /\ Current(w).hash # 0
    /\ chainCall[w].now >= requests[worker[w]].from

Calls == \A w \in Workers : SequenceCall(w) /\ ChainCall(w)

\* The others are where they were.
LEMMA OthersKept ==
  ASSUME Requests, NEW w \in Workers, NEW place, Moved(w, place),
         NEW v \in Workers, v # w
  PROVE  /\ \A tier : At(v, tier)' <=> At(v, tier)
         /\ worker[v] # 0 => /\ Current(v)' = Current(v)
                             /\ requests'[worker'[v]].from = requests[worker[v]].from
<1>1. worker'[v] = worker[v]
  BY DEF Moved
<1>2. worker[v] # 0 => worker[v] \in DOMAIN requests /\ worker[v] # worker[w]
  BY DEF Requests, Moved
<1>3. worker[v] # 0 => requests'[worker[v]] = requests[worker[v]]
  BY <1>2 DEF Moved
<1> QED
  BY <1>1, <1>3 DEF At, Current

\* A worker whose request moved is at that request still, or at none.
LEMMA MovedAt ==
  ASSUME Requests, NEW w \in Workers, NEW place, Moved(w, place), worker[w] # 0
  PROVE  /\ \A tier : At(w, tier)' => tier = place /\ worker'[w] = worker[w]
         /\ worker'[w] # 0 => /\ Current(w)' = Current(w)
                              /\ requests'[worker'[w]].from = requests[worker[w]].from
<1>1. worker'[w] # 0 => worker'[w] = worker[w]
  BY DEF Moved
<1> QED
  BY <1>1 DEF At, Current, Moved

\* The calls of the others are kept if only this worker's change, and its own if
\* it does not go where there is one.
LEMMA CallsKept ==
  ASSUME Requests, Calls, NEW w \in Workers, NEW place, Moved(w, place), worker[w] # 0,
         \A v \in Workers : v # w => seqCall'[v] = seqCall[v] /\ chainCall'[v] = chainCall[v],
         SequenceCall(w)', ChainCall(w)'
  PROVE  Calls'
<1>1. ASSUME NEW v \in Workers, v # w
      PROVE  SequenceCall(v)' /\ ChainCall(v)'
  <2>1. At(v, "sequenceLock") \/ At(v, "chainLock") => worker[v] # 0
    BY DEF At
  <2>2. SequenceCall(v) /\ ChainCall(v)
    BY DEF Calls
  <2> QED
    BY <1>1, <2>1, <2>2, OthersKept, Zenon DEF SequenceCall, ChainCall
<1> QED
  BY <1>1 DEF Calls

\* A request that leaves for elsewhere is in no call.
LEMMA NoCall ==
  ASSUME Requests, NEW w \in Workers, NEW place, Moved(w, place), worker[w] # 0,
         place \notin {"sequenceLock", "chainLock"}
  PROVE  SequenceCall(w)' /\ ChainCall(w)'
  BY MovedAt DEF SequenceCall, ChainCall

\* Calls is inductive.
LEMMA CallsStep ==
  ASSUME Requests, Known, Calls, [Next]_vars
  PROVE  Calls'
<1>1. ASSUME NEW w \in Workers, Handle(w)
      PROVE  Calls'
  <2>1. ASSUME NEW r \in Request, Begin(w, r)
        PROVE  Calls'
    <3>1. UNCHANGED <<seqCall, chainCall>>
      BY <2>1, BeginQuiet DEF Quiet, Sequence!vars, Chain!vars
    <3>2. ASSUME NEW v \in Workers, NEW tier \in {"sequenceLock", "chainLock"}, At(v, tier)'
          PROVE  /\ At(v, tier) /\ Current(v)' = Current(v)
                 /\ requests'[worker'[v]].from = requests[worker[v]].from
      <4>1. v # w
        BY <2>1, <3>2, BeginEffect DEF At, Requests
      <4>2. worker'[v] = worker[v]
        BY <2>1, <4>1, BeginEffect DEF Requests
      <4>3. worker[v] \in DOMAIN requests
        BY <3>2, <4>2 DEF At, Requests
      <4>4. requests'[worker[v]] = requests[worker[v]]
        BY <2>1, <4>3, BeginEffect
      <4> QED
        BY <3>2, <4>2, <4>4 DEF At, Current
    <3> QED
      BY <3>1, <3>2 DEF Calls, SequenceCall, ChainCall
  <2>2. ASSUME NEW place, Moved(w, place), worker[w] # 0, UNCHANGED <<seqCall, chainCall>>,
               place \notin {"sequenceLock", "chainLock"}
        PROVE  Calls'
    BY <2>2, NoCall, CallsKept
  <2>3. CASE AllowIP(w)
    <3>1. worker[w] # 0 /\ UNCHANGED <<seqCall, chainCall>>
      BY <2>3, CurrentType, AllowIPEffect DEF AllowIP, Sequence!vars, Chain!vars
    <3> QED
      BY <2>2, <2>3, <3>1, AllowIPEffect
  <2>4. CASE SampleSequence(w)
    <3>1. worker[w] # 0 /\ Current(w) = requests[worker[w]].req
          /\ requests[worker[w]].from <= clock
      BY <2>4, CurrentType DEF SampleSequence, Requests
    <3>2. Moved(w, "sequenceLock") /\ UNCHANGED chainCall
      BY <2>4, SampleSequenceEffect DEF Chain!vars
    <3>3. /\ seqCall'[w].key = Current(w).seq /\ seqCall'[w].now = clock
          /\ \A v \in Workers : v # w => seqCall'[v] = seqCall[v]
      BY <2>4, SampleSequenceEffect DEF Sequence!Sample, Known, Sequence!TypeOK
    <3>4. SequenceCall(w)'
      <4>1. requests[worker[w]].from \in Int /\ clock \in Int
        BY <2>4, CurrentType DEF SampleSequence, Entry, Requests
      <4> QED
        BY <3>1, <3>2, <3>3, <4>1, MovedAt DEF SequenceCall, At
    <3>5. ChainCall(w)'
      BY <3>1, <3>2, MovedAt DEF ChainCall
    <3> QED
      BY <3>1, <3>2, <3>3, <3>4, <3>5, CallsKept
  <2>5. CASE AllowSequence(w)
    <3>1. worker[w] # 0 /\ UNCHANGED chainCall
      BY <2>5, CurrentType, AllowSequenceEffect DEF AllowSequence, Chain!vars
    <3>2. \A v \in Workers : v # w => seqCall'[v] = seqCall[v]
      BY <2>5, AllowSequenceEffect DEF Sequence!Decide, Known, Sequence!TypeOK
    <3> QED
      BY <2>5, <3>1, <3>2, AllowSequenceEffect, NoCall, CallsKept
  <2>6. CASE SampleChain(w)
    <3>1. worker[w] # 0 /\ Current(w) = requests[worker[w]].req
          /\ requests[worker[w]].from <= clock /\ UNCHANGED seqCall
      BY <2>6, CurrentType, SampleChainEffect, Zenon DEF SampleChain, Requests, Sequence!vars
    <3>2. CASE Moved(w, "lookup") /\ UNCHANGED Chain!vars
      BY <2>2, <3>1, <3>2 DEF Chain!vars
    <3>3. CASE /\ Current(w).hash # 0 /\ Moved(w, "chainLock")
               /\ Chain!Sample(w, <<Current(w).src, Current(w).hash>>)
      <4>1. /\ chainCall'[w].key = <<Current(w).src, Current(w).hash>>
            /\ chainCall'[w].now = clock
            /\ \A v \in Workers : v # w => chainCall'[v] = chainCall[v]
        BY <3>3 DEF Chain!Sample, Known, Chain!TypeOK
      <4>2. requests[worker[w]].from \in Int /\ clock \in Int
        BY <2>6, CurrentType DEF SampleChain, Entry, Requests
      <4>3. ChainCall(w)'
        BY <3>1, <3>3, <4>1, <4>2, MovedAt DEF ChainCall, At
      <4>4. SequenceCall(w)'
        BY <3>1, <3>3, MovedAt DEF SequenceCall
      <4> QED
        BY <3>1, <3>3, <4>1, <4>3, <4>4, CallsKept, Zenon
    <3> QED
      BY <2>6, <3>2, <3>3, SampleChainEffect
  <2>7. CASE AllowChain(w)
    <3>1. worker[w] # 0 /\ UNCHANGED seqCall
      BY <2>7, CurrentType, AllowChainEffect DEF AllowChain, Sequence!vars
    <3>2. \A v \in Workers : v # w => chainCall'[v] = chainCall[v]
      BY <2>7, AllowChainEffect DEF Chain!Decide, Known, Chain!TypeOK
    <3> QED
      BY <2>7, <3>1, <3>2, AllowChainEffect, NoCall, CallsKept
  <2>8. CASE Retrieve(w)
    <3>1. worker[w] # 0 /\ UNCHANGED <<seqCall, chainCall>>
      BY <2>8, CurrentType, RetrieveEffect DEF Retrieve, Quiet, Sequence!vars, Chain!vars
    <3> QED
      BY <2>2, <2>8, <3>1, RetrieveEffect
  <2>9. CASE AllowGroup(w)
    <3>1. worker[w] # 0 /\ UNCHANGED <<seqCall, chainCall>>
      BY <2>9, CurrentType, AllowGroupEffect DEF AllowGroup, Sequence!vars, Chain!vars
    <3> QED
      BY <2>2, <2>9, <3>1, AllowGroupEffect, Zenon
  <2> QED
    BY <1>1, <2>1, <2>3, <2>4, <2>5, <2>6, <2>7, <2>8, <2>9 DEF Handle
<1>2. CASE UNCHANGED <<requests, worker, seqCall, chainCall>>
  BY <1>2 DEF Calls, SequenceCall, ChainCall, At, Current
<1> QED
  BY <1>1, <1>2 DEF Next, Tick, vars, seqVars, chainVars

\* Requests of a source, for a SeqNum, of a source for a flow, of a source for a
\* group, and for any stamped frame.
OfSource(s) == {r \in Request : r.src = s}
ForSeq(q) == {r \in Request : r.seq = q}
OfFlow(f) == {r \in Request : r.src = f[1] /\ r.hash = f[2]}
ToGroup(k) == {r \in Request : r.src = k[1] /\ r.group = k[2]}
Stamped == {r \in Request : r.hash # 0}

Tickets(admitted, key, a) == {x \in admitted : x.key = key /\ x.stamp >= a}

\* What is past a tier has been given something by it.
IPCounted ==
  \A s \in Sources, a \in 0 .. MaxTime :
    Cardinality(Picked(requests, PastIP, OfSource(s), a)) <= ipGranted[s][a]

GroupCounted ==
  \A k \in Sources \X Groups, a \in 0 .. MaxTime :
    Cardinality(Picked(requests, {"retransmitted"}, ToGroup(k), a)) <= groupGranted[k][a]

SequenceCounted ==
  /\ \A q \in SeqNums, a \in Int :
       Cardinality(Picked(requests, PastSequence, ForSeq(q), a))
         <= Cardinality(Tickets(seqAdmitted, q, a))
  /\ Cardinality(Picked(requests, PastSequence, Request, 0)) = Cardinality(seqAdmitted)

ChainCounted ==
  /\ \A f \in Flows, a \in Int : f[2] # 0 =>
       Cardinality(Picked(requests, PastChain, OfFlow(f), a))
         <= Cardinality(Tickets(chainAdmitted, f, a))
  /\ Cardinality(Picked(requests, PastChain, Stamped, 0)) = Cardinality(chainAdmitted)

\* Who is granted a call has it counted for every time up to now.
LEMMA IPHistory ==
  ASSUME IP!TypeOK, NEW k \in Sources, IP!Grant(k), NEW j \in Sources,
         NEW a \in 0 .. MaxTime
  PROVE  /\ ipGranted[j][a] \in Nat
         /\ ipGranted'[j][a] = ipGranted[j][a] + IF j = k /\ a <= clock THEN 1 ELSE 0
<1>1. ipGranted[j][a] \in Nat
  BY Zenon DEF IP!TypeOK, IP!Times
<1>2. ipGranted'[j] =
        IF j = k THEN [d \in 0 .. MaxTime |-> IF d <= clock THEN ipGranted[k][d] + 1
                                                          ELSE ipGranted[k][d]]
                 ELSE ipGranted[j]
  BY DEF IP!Grant, IP!TypeOK, IP!Times
<1> QED
  BY <1>1, <1>2

\* Likewise for a group.
LEMMA GroupHistory ==
  ASSUME Group!TypeOK, NEW k \in Sources \X Groups, Group!Grant(k), NEW j \in Sources \X Groups,
         NEW a \in 0 .. MaxTime
  PROVE  /\ groupGranted[j][a] \in Nat
         /\ groupGranted'[j][a] = groupGranted[j][a] + IF j = k /\ a <= clock THEN 1 ELSE 0
<1>1. groupGranted[j][a] \in Nat
  BY Zenon DEF Group!TypeOK, Group!Times
<1>2. groupGranted'[j] =
        IF j = k THEN [d \in 0 .. MaxTime |-> IF d <= clock THEN groupGranted[k][d] + 1
                                                          ELSE groupGranted[k][d]]
                 ELSE groupGranted[j]
  BY DEF Group!Grant, Group!TypeOK, Group!Times
<1> QED
  BY <1>1, <1>2

==============================================================================
