---------------------------- MODULE SlidingWindow ----------------------------
(***************************************************************************)
(* The sliding-window limiter of package ratelimit: slidingWindowLimiter   *)
(* (per source address and HashKey) and sequenceLimiter (per SeqNum) run   *)
(* the same algorithm and differ in the type of the key only.              *)
(*                                                                         *)
(* Allow(key) reads the clock BEFORE it takes the limiter's mutex, so the  *)
(* timestamp it works with may be older than the moment it is admitted at, *)
(* and callers may reach the mutex in another order than they read the     *)
(* clock.  The two steps are two actions here: Sample and Decide.          *)
(*                                                                         *)
(* An admission is a record.  The code keeps only its timestamp; who was   *)
(* admitted (by), as which of that caller's calls (nth) and when it was    *)
(* really admitted (at) are history.                                       *)
(***************************************************************************)
EXTENDS Integers, FiniteSets

CONSTANTS
  Callers,   \* goroutines that call Allow (the NACK workers)
  Keys,      \* SeqNums, or pairs of source address and HashKey
  Max,       \* admissions per window
  Window,    \* length of the window
  MaxTime,   \* bound on the clock
  MaxCalls   \* bound on the calls of each caller

\* ratelimit.New replaces a window that is not positive by a minute, and the
\* limit of the chain tier by 500; rl-sequence-max is taken as it is, so that
\* a limit of 0 (every request is refused) is a possible one.
ASSUME WindowAssumption ==
  /\ IsFiniteSet(Callers)
  /\ Max \in Nat
  /\ Window \in Nat \ {0}
  /\ MaxTime \in Nat
  /\ MaxCalls \in Nat

VARIABLES
  clock,      \* time.Now()
  call,       \* what each caller is doing: idle, or in Allow(key) with its now
  calls,      \* number of calls each caller has finished
  entries,    \* keys that have a windowEntry in the map
  timestamps, \* the timestamps each windowEntry holds
  admitted    \* history: every admission there ever was

vars == <<clock, call, calls, entries, timestamps, admitted>>

Admission ==
  [by : Callers, nth : Nat, key : Keys, stamp : Nat, at : Nat]

Idle == [pc |-> "idle"]
Sampled == [pc : {"sampled"}, key : Keys, now : Nat]

TypeOK ==
  /\ clock \in Nat
  /\ call \in [Callers -> {Idle} \cup Sampled]
  /\ calls \in [Callers -> Nat]
  /\ entries \subseteq Keys
  /\ timestamps \in [Keys -> SUBSET Admission]
  /\ admitted \subseteq Admission

Init ==
  /\ clock = 0
  /\ call = [c \in Callers |-> Idle]
  /\ calls = [c \in Callers |-> 0]
  /\ entries = {}
  /\ timestamps = [k \in Keys |-> {}]
  /\ admitted = {}

------------------------------------------------------------------------------
(* The limiter *)

\* The timestamps after the cutoff.
After(S, cutoff) == {a \in S : a.stamp > cutoff}

\* The first line of Allow: now := time.Now(), without the mutex.
Sample(c, k) ==
  /\ call[c] = Idle
  /\ calls[c] < MaxCalls
  /\ call' = [call EXCEPT ![c] = [pc |-> "sampled", key |-> k, now |-> clock]]
  /\ UNCHANGED <<clock, calls, entries, timestamps, admitted>>

\* What a call finds left of its entry once it has pruned it.
Kept(c) == After(timestamps[call[c].key], call[c].now - Window)

\* A plausible slip: the cutoff is remembered in the place of now.
TicketOfCutoff(c) ==
  [by |-> c, nth |-> calls[c], key |-> call[c].key,
   stamp |-> call[c].now - Window, at |-> clock]

Ticket(c) ==
  [by |-> c, nth |-> calls[c], key |-> call[c].key, stamp |-> call[c].now,
   at |-> clock]

\* A plausible slip: the limit compared with <= lets one request too many in.
AdmitOneTooMany(c) ==
  /\ Cardinality(Kept(c)) <= Max
  /\ timestamps' = [timestamps EXCEPT ![call[c].key] = Kept(c) \cup {Ticket(c)}]
  /\ admitted' = admitted \cup {Ticket(c)}

\* A plausible slip: an admission that is not remembered.
AdmitUnrecorded(c) ==
  /\ Cardinality(Kept(c)) < Max
  /\ timestamps' = [timestamps EXCEPT ![call[c].key] = Kept(c)]
  /\ admitted' = admitted \cup {Ticket(c)}

Admit(c) ==
  /\ Cardinality(Kept(c)) < Max
  /\ timestamps' = [timestamps EXCEPT ![call[c].key] = Kept(c) \cup {Ticket(c)}]
  /\ admitted' = admitted \cup {Ticket(c)}

\* The limiter sequenceLimiter replaced: the count is never pruned.
RefuseByLifetimeCount(c) ==
  /\ Cardinality({a \in admitted : a.key = call[c].key}) >= Max
  /\ timestamps' = [timestamps EXCEPT ![call[c].key] = Kept(c)]
  /\ UNCHANGED admitted

Refuse(c) ==
  /\ Cardinality(Kept(c)) >= Max
  /\ timestamps' = [timestamps EXCEPT ![call[c].key] = Kept(c)]
  /\ UNCHANGED admitted

\* The rest of Allow, under the mutex: the entry is made if there is none,
\* pruned, and the request admitted or refused.
Decide(c) ==
  /\ call[c] # Idle
  /\ entries' = entries \cup {call[c].key}
  /\ Admit(c) \/ Refuse(c)
  /\ call' = [call EXCEPT ![c] = Idle]
  /\ calls' = [calls EXCEPT ![c] = @ + 1]
  /\ UNCHANGED clock

Tick ==
  /\ clock < MaxTime
  /\ clock' = clock + 1
  /\ UNCHANGED <<call, calls, entries, timestamps, admitted>>

Next ==
  \/ \E c \in Callers, k \in Keys : Sample(c, k)
  \/ \E c \in Callers : Decide(c)
  \/ Tick

Spec == Init /\ [][Next]_vars

\* A goroutine that entered Allow leaves it, and time passes.
Fairness ==
  /\ \A c \in Callers : WF_vars(Decide(c))
  /\ WF_vars(Tick)

FairSpec == Spec /\ Fairness

------------------------------------------------------------------------------
(* Properties *)

Of(k) == {a \in admitted : a.key = k}

\* ratelimit.go:47 bounds the requests per SeqNum per window.  Counted by the
\* timestamps the limiter itself works with, the bound is exact: never more
\* than Max admissions of a key carry a timestamp of the last Window, however
\* the callers' clock reads and their turns at the mutex interleave.
StampBound ==
  \A k \in Keys : Cardinality(After(Of(k), clock - Window)) <= Max

\* Counted by the moment a request was really admitted, callers that read the
\* clock long before their turn may exceed Max, each of them at most once per
\* window: the excess is bounded by the number of NACK workers.
CommitBound ==
  \A k \in Keys :
    Cardinality({a \in Of(k) : a.at > clock - Window})
      <= Max + Cardinality(Callers)

Denied(c) ==
  /\ call[c] # Idle
  /\ call'[c] = Idle
  /\ admitted' = admitted

\* ratelimit.go:203-208: a key is not worn out by its history.  Whoever is
\* refused has Max admissions of its key inside the window that ends at its
\* own timestamp (or younger ones) to blame.
SelfHeals ==
  [][\A c \in Callers : Denied(c) =>
       Cardinality(After(Of(call[c].key), call[c].now - Window)) >= Max]_vars

\* An entry nobody is using and all of whose timestamps have expired.
Quiet(k) ==
  /\ \A c \in Callers : call[c] # Idle => call[c].key # k
  /\ After(timestamps[k], clock - Window) = {}

\* ratelimit.go:206 says the sliding window bounds memory: the entry of a key
\* that has gone quiet would then be given up, sooner or later.
QuietEntriesReleased ==
  \A k \in Keys : (k \in entries) ~> (k \notin entries \/ ~Quiet(k))

==============================================================================
