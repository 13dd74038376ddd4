------------------------------ MODULE RateLimit ------------------------------
(***************************************************************************)
(* The four tiers of package ratelimit as processNACK calls them: a token  *)
(* bucket per source address, a sliding window per SeqNum, one per source  *)
(* address and HashKey, the cache, and a token bucket per source address   *)
(* and group.  Workers handle requests side by side; the tiers are shared, *)
(* and each has a lock of its own.                                         *)
(***************************************************************************)
EXTENDS Integers, Sequences, FiniteSets

CONSTANTS
  Workers,    \* NACK workers
  Sources, HashKeys, SeqNums,   \* what requests are made of
  Groups,     \* shard groups, as the TxIDs of frames give them
  Limits,     \* ratelimit.Config; the chain tier's rates are in thousandths
  Minute,     \* time.Minute, in ticks
  MaxTime,    \* bound on the clock
  MaxCalls    \* bound on the requests

------------------------------------------------------------------------------
(* ratelimit.New: zero and negative settings, and the aliases *)

Positive(n, default) == IF n > 0 THEN n ELSE default

sequenceWindow == Positive(Limits.sequenceWindow, Minute)

chainRate == IF Limits.chainRate = 0 THEN Limits.senderRate ELSE Limits.chainRate

chainMax == Positive(chainRate \div 1000, 500)

chainWindow == Positive(Limits.chainWindow, Positive(Limits.senderWindow, Minute))

groupRate == Positive(Limits.groupRate, 200)

groupBurst == Positive(Limits.groupBurst, 50)

\* The limits of the IP and the sequence tier are taken as they are.
ASSUME LimitsAssumption ==
  /\ IsFiniteSet(Workers)
  /\ Limits \in [ipRate : Nat, ipBurst : Nat, sequenceMax : Nat, sequenceWindow : Int,
                 senderRate : Int, senderWindow : Int, chainRate : Int, chainWindow : Int,
                 groupRate : Int, groupBurst : Int]
  /\ Minute \in Nat \ {0}
  /\ MaxTime \in Nat /\ MaxCalls \in Nat

------------------------------------------------------------------------------

VARIABLES
  clock,
  requests,   \* the requests in the order they were taken up, and where they are
  worker,     \* the request each worker is at, or 0
  ipBucket, ipGranted, groupBucket, groupGranted,
  seqCall, seqCalls, seqEntries, seqStamps, seqAdmitted,
  chainCall, chainCalls, chainEntries, chainStamps, chainAdmitted

Flows == Sources \X HashKeys

IP == INSTANCE TokenBucket WITH
  Keys <- Sources, Rate <- Limits.ipRate, Burst <- Limits.ipBurst,
  bucket <- ipBucket, granted <- ipGranted
Group == INSTANCE TokenBucket WITH
  Keys <- Sources \X Groups, Rate <- groupRate, Burst <- groupBurst,
  bucket <- groupBucket, granted <- groupGranted
Sequence == INSTANCE SlidingWindow WITH
  Callers <- Workers, Keys <- SeqNums, Max <- Limits.sequenceMax, Window <- sequenceWindow,
  call <- seqCall, calls <- seqCalls, entries <- seqEntries, timestamps <- seqStamps,
  admitted <- seqAdmitted
Chain == INSTANCE SlidingWindow WITH
  Callers <- Workers, Keys <- Flows, Max <- chainMax, Window <- chainWindow,
  call <- chainCall, calls <- chainCalls, entries <- chainEntries,
  timestamps <- chainStamps, admitted <- chainAdmitted

ipVars == <<ipBucket, ipGranted>>
seqVars == <<seqCall, seqCalls, seqEntries, seqStamps, seqAdmitted>>
chainVars == <<chainCall, chainCalls, chainEntries, chainStamps, chainAdmitted>>
groupVars == <<groupBucket, groupGranted>>

vars == <<clock, requests, worker, ipVars, seqVars, chainVars, groupVars>>

\* A NACK for one frame; the group is the frame's, and known once it is found.
Request == [src : Sources, hash : HashKeys, seq : SeqNums, group : Groups]

\* Where a request is, and what becomes of it.
Tiers == {"ip", "sequence", "sequenceLock", "chain", "chainLock", "lookup", "group"}
Outcomes == {"refusedIP", "refusedSequence", "refusedChain", "missed", "throttled",
             "retransmitted"}

TypeOK ==
  /\ requests \in Seq([req : Request, by : Workers, from : 0 .. MaxTime,
                       at : Tiers \cup Outcomes])
  /\ worker \in [Workers -> 0 .. Len(requests)]
  /\ IP!TypeOK /\ Sequence!TypeOK /\ Chain!TypeOK /\ Group!TypeOK

Init ==
  /\ requests = << >>
  /\ worker = [w \in Workers |-> 0]
  /\ IP!Init /\ Sequence!Init /\ Chain!Init /\ Group!Init

------------------------------------------------------------------------------
(* processNACK *)

At(w, tier) == worker[w] # 0 /\ requests[worker[w]].at = tier

Current(w) == requests[worker[w]].req

Goto(w, tier) ==
  /\ requests' = [requests EXCEPT ![worker[w]] = [@ EXCEPT !.at = tier]]
  /\ UNCHANGED worker

\* The handler returns.
Done(w, outcome) ==
  /\ requests' = [requests EXCEPT ![worker[w]] = [@ EXCEPT !.at = outcome]]
  /\ worker' = [worker EXCEPT ![w] = 0]

\* A valid NACK for a single frame is taken from the channel.
Begin(w, r) ==
  /\ worker[w] = 0
  /\ Len(requests) < MaxCalls
  /\ requests' = Append(requests, [req |-> r, by |-> w, from |-> clock, at |-> "ip"])
  /\ worker' = [worker EXCEPT ![w] = Len(requests) + 1]
  /\ UNCHANGED <<clock, ipVars, seqVars, chainVars, groupVars>>

\* A plausible slip: the level is looked at, and not whether it was allowed.
AllowAnyIP(w) ==
  /\ At(w, "ip")
  /\ IP!Grant(Current(w).src) \/ IP!Refuse(Current(w).src)
  /\ Goto(w, "sequence")
  /\ UNCHANGED <<seqVars, chainVars, groupVars>>

\* Limiter.Allow: the IP tier,
AllowIP(w) ==
  /\ At(w, "ip")
  /\ \/ IP!Grant(Current(w).src) /\ Goto(w, "sequence")
     \/ IP!Refuse(Current(w).src) /\ Done(w, "refusedIP")
  /\ UNCHANGED <<seqVars, chainVars, groupVars>>

\* then the sequence tier, which reads the clock before it takes its lock.
SampleSequence(w) ==
  /\ At(w, "sequence")
  /\ Sequence!Sample(w, Current(w).seq)
  /\ Goto(w, "sequenceLock")
  /\ UNCHANGED <<ipVars, chainVars, groupVars>>

AllowSequence(w) ==
  /\ At(w, "sequenceLock")
  /\ Sequence!Decide(w)
  /\ IF seqAdmitted' # seqAdmitted THEN Goto(w, "chain") ELSE Done(w, "refusedSequence")
  /\ UNCHANGED <<ipVars, chainVars, groupVars>>

\* A plausible slip: unstamped frames are taken for one flow.
SampleChainAlways(w) ==
  /\ At(w, "chain")
  /\ Chain!Sample(w, <<Current(w).src, Current(w).hash>>) /\ Goto(w, "chainLock")
  /\ UNCHANGED <<ipVars, seqVars, groupVars>>

\* AllowChain, which lets requests for unstamped frames pass.
SampleChain(w) ==
  /\ At(w, "chain")
  /\ \/ /\ Current(w).hash = 0
        /\ Goto(w, "lookup")
        /\ UNCHANGED <<clock, chainVars>>
     \/ /\ Current(w).hash # 0
        /\ Chain!Sample(w, <<Current(w).src, Current(w).hash>>)
        /\ Goto(w, "chainLock")
  /\ UNCHANGED <<ipVars, seqVars, groupVars>>

\* A plausible slip: the chain tier counts, and refuses nothing.
AllowAnyChain(w) ==
  /\ At(w, "chainLock")
  /\ Chain!Decide(w)
  /\ Goto(w, "lookup")
  /\ UNCHANGED <<ipVars, seqVars, groupVars>>

AllowChain(w) ==
  /\ At(w, "chainLock")
  /\ Chain!Decide(w)
  /\ IF chainAdmitted' # chainAdmitted THEN Goto(w, "lookup") ELSE Done(w, "refusedChain")
  /\ UNCHANGED <<ipVars, seqVars, groupVars>>

\* cache.Retrieve finds the frame, or the request ends here (MISS, an error).
Retrieve(w) ==
  /\ At(w, "lookup")
  /\ Goto(w, "group") \/ Done(w, "missed")
  /\ UNCHANGED <<clock, ipVars, seqVars, chainVars, groupVars>>

\* A plausible slip: a throttled frame is retransmitted all the same.
AllowAnyGroup(w) ==
  /\ At(w, "group")
  /\ LET k == <<Current(w).src, Current(w).group>> IN Group!Grant(k) \/ Group!Refuse(k)
  /\ Done(w, "retransmitted")
  /\ UNCHANGED <<ipVars, seqVars, chainVars>>

\* AllowGroup: allowed or not the request is acknowledged, but only if it is
\* allowed the frame is retransmitted.
AllowGroup(w) ==
  /\ At(w, "group")
  /\ LET k == <<Current(w).src, Current(w).group>>
     IN  \/ Group!Grant(k) /\ Done(w, "retransmitted")
         \/ Group!Refuse(k) /\ Done(w, "throttled")
  /\ UNCHANGED <<ipVars, seqVars, chainVars>>

Tick ==
  /\ clock < MaxTime
  /\ clock' = clock + 1
  /\ UNCHANGED <<requests, worker, ipVars, seqVars, chainVars, groupVars>>

Handle(w) ==
  \/ \E r \in Request : Begin(w, r)
  \/ AllowIP(w) \/ SampleSequence(w) \/ AllowSequence(w) \/ SampleChain(w)
  \/ AllowChain(w) \/ Retrieve(w) \/ AllowGroup(w)

Next == Tick \/ \E w \in Workers : Handle(w)

Spec == Init /\ [][Next]_vars

------------------------------------------------------------------------------
(* Properties *)

\* The requests that are at one of these places, or got there.
Those(places) == {i \in DOMAIN requests : requests[i].at \in places}

PastChain == {"lookup", "group", "missed", "throttled", "retransmitted"}
PastSequence == {"chain", "chainLock", "refusedChain"} \cup PastChain

\* ratelimit.go:3, 92: of the requests of one source that are taken up in any
\* stretch of time that ends now, no more reach the cache than its burst and what
\* its rate adds.
SourceBound ==
  \A s \in Sources, a \in 0 .. clock :
    Cardinality({i \in Those(PastChain) : requests[i].req.src = s /\ requests[i].from >= a})
      <= Limits.ipBurst + Limits.ipRate * (clock - a)

\* ratelimit.go:5, 47, 95: of the requests for one SeqNum taken up within the
\* window, no more than its limit reach the cache, although the clock is read
\* before the lock is taken and later requests may overtake earlier ones.
GapBound ==
  \A q \in SeqNums :
    Cardinality({i \in Those(PastChain) :
                   requests[i].req.seq = q /\ requests[i].from > clock - sequenceWindow})
      <= Limits.sequenceMax

\* ratelimit.go:4, 45, 106-112: likewise for the requests of one source for the
\* frames of one flow, if they are stamped.
FlowBound ==
  \A s \in Sources, h \in HashKeys \ {0} :
    Cardinality({i \in Those(PastChain) :
                   /\ requests[i].req.src = s /\ requests[i].req.hash = h
                   /\ requests[i].from > clock - chainWindow})
      <= chainMax

\* ratelimit.go:6, 117-120, server.go:277-292: what is multicast for one source
\* to one group stays within the burst and the rate of that group.
RetransmitBound ==
  \A s \in Sources, g \in Groups, a \in 0 .. clock :
    Cardinality({i \in Those({"retransmitted"}) :
                   /\ requests[i].req.src = s /\ requests[i].req.group = g
                   /\ requests[i].from >= a})
      <= groupBurst + groupRate * (clock - a)

\* ratelimit.go:124-148: a token bucket refuses exactly the requests that would
\* exceed burst and rate.
BucketsExact == IP!Exact /\ Group!Exact

\* server.go:218-238: what is charged.  The sequence tier counts every request it
\* let pass, also those the chain tier refuses later; the chain tier those that
\* reach the lookup, if they are stamped; neither counts a request twice.
ChargesMatch ==
  /\ Cardinality(seqAdmitted) = Cardinality(Those(PastSequence))
  /\ Cardinality(chainAdmitted)
       = Cardinality({i \in Those(PastChain) : requests[i].req.hash # 0})

\* architecture.md:186-195 applies the tiers "in order", the one per source and
\* HashKey before the one per SeqNum, and ratelimit.go:101 places it "between IP
\* and sequence": a request it refuses would not count for its SeqNum.
RefusedByChainIsFree ==
  Cardinality(seqAdmitted) <= Cardinality(Those(PastSequence \ {"refusedChain"}))

==============================================================================
