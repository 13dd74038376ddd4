------------------------- MODULE LimiterProofs -------------------------
(***************************************************************************)
(* Proofs about the two kinds of limiter of package ratelimit.  First the  *)
(* sliding window, for any number of callers and keys, any limit and any   *)
(* window; then the token bucket, for every rate, burst and set of keys.   *)
(*                                                                         *)
(* Neither bound of the sliding window is inductive by itself.  StampBound *)
(* rests on the fact that whatever was pruned has expired: entries are     *)
(* pruned with a reading of the clock that may be old, but never one from  *)
(* the future.  CommitBound adds that the calls of one caller do not       *)
(* overlap, so that at most one admission of each caller can be older than *)
(* the window and still have been granted inside it.                       *)
(*                                                                         *)
(* The tokens at hand in a bucket are what burst and rate provide for in   *)
(* excess of what was granted, for every stretch of time that ends now,    *)
(* and exactly that for one of them.                                       *)
(***************************************************************************)
EXTENDS SlidingWindow, FiniteSetTheorems, TLAPS

CONSTANTS
  Holders,   \* the keys of a token bucket
  Rate,      \* tokens per tick
  Burst      \* size of a bucket

VARIABLES
  bucket,    \* the bucket of each key
  granted    \* history: how many calls of each key were allowed since a time

Bucket == INSTANCE TokenBucket WITH Keys <- Holders

\* The entries hold admissions of their own key, at most Max of them, and
\* every admission that has not expired.
EntriesOK ==
  \A k \in Keys :
    /\ timestamps[k] \subseteq Of(k)
    /\ IsFiniteSet(timestamps[k])
    /\ Cardinality(timestamps[k]) <= Max
    /\ After(Of(k), clock - Window) \subseteq timestamps[k]

\* A call's reading of the clock is not from the future, and is not older
\* than the caller's previous admission.
CallsOK ==
  \A c \in Callers : call[c] # Idle =>
    /\ call[c] \in Sampled
    /\ call[c].now <= clock
    /\ \A a \in admitted : a.by = c => a.at <= call[c].now

\* The admissions of a caller are numbered, and do not overlap in time.
HistoryOK ==
  /\ IsFiniteSet(admitted)
  /\ \A a \in admitted :
       a.stamp <= a.at /\ a.at <= clock /\ a.nth < calls[a.by]
  /\ \A a, b \in admitted : a.by = b.by =>
       (a.nth < b.nth => a.at <= b.stamp) /\ (a.nth = b.nth => a = b)

IInv == TypeOK /\ EntriesOK /\ CallsOK /\ HistoryOK

\* IInv holds when the limiter has just been made (ratelimit.New): there are
\* no entries and no admissions.
LEMMA InitIInv == Init => IInv
<1> SUFFICES ASSUME Init PROVE IInv
  OBVIOUS
<1>1. TypeOK
  BY DEF Init, TypeOK
<1>2. EntriesOK
  BY FS_EmptySet, WindowAssumption DEF Init, EntriesOK, After, Of
<1>3. CallsOK /\ HistoryOK
  BY FS_EmptySet DEF Init, CallsOK, HistoryOK
<1> QED
  BY <1>1, <1>2, <1>3 DEF IInv

\* Reading the clock before the mutex is taken preserves IInv.
LEMMA SampleIInv ==
  ASSUME IInv, NEW c \in Callers, NEW k \in Keys, Sample(c, k)
  PROVE  IInv'
<1> USE DEF Sample, IInv
<1>1. TypeOK'
  BY DEF TypeOK, Sampled
<1>2. EntriesOK'
  BY DEF EntriesOK, Of, After
<1>3. CallsOK'
  BY DEF CallsOK, TypeOK, HistoryOK, Sampled, Idle, Admission
<1>4. HistoryOK'
  BY DEF HistoryOK
<1> QED
  BY <1>1, <1>2, <1>3, <1>4

\* As time passes admissions only expire, so that IInv is preserved.
LEMMA TickIInv ==
  ASSUME IInv, Tick
  PROVE  IInv'
<1> USE DEF Tick, IInv
<1>1. TypeOK'
  BY DEF TypeOK
<1>2. EntriesOK'
  <2>1. ASSUME NEW k \in Keys
        PROVE  After(Of(k), clock - Window)' \subseteq After(Of(k), clock - Window)
    BY WindowAssumption DEF TypeOK, After, Of, Admission
  <2> QED
    BY <2>1 DEF EntriesOK, Of
<1>3. CallsOK'
  BY DEF CallsOK, TypeOK, Sampled, Idle
<1>4. HistoryOK'
  BY DEF HistoryOK, TypeOK, Admission
<1> QED
  BY <1>1, <1>2, <1>3, <1>4

\* What a call prunes has expired by the clock, and what it keeps is within
\* the entry's bound.
LEMMA KeptOK ==
  ASSUME IInv, NEW c \in Callers, call[c] # Idle
  PROVE  /\ call[c] \in Sampled
         /\ Kept(c) \subseteq Of(call[c].key)
         /\ IsFiniteSet(Kept(c))
         /\ Cardinality(Kept(c)) \in Nat
         /\ Cardinality(Kept(c)) <= Max
         /\ After(Of(call[c].key), clock - Window) \subseteq Kept(c)
<1> DEFINE k == call[c].key
<1>1. call[c] \in Sampled /\ k \in Keys /\ call[c].now \in Nat /\ call[c].now <= clock
  BY DEF IInv, CallsOK, Sampled
<1>2. Kept(c) \subseteq timestamps[k] /\ Kept(c) \subseteq Of(k)
  BY <1>1 DEF Kept, After, IInv, EntriesOK
<1>3. IsFiniteSet(timestamps[k]) /\ Cardinality(timestamps[k]) <= Max
  BY <1>1 DEF IInv, EntriesOK
<1>4. /\ IsFiniteSet(Kept(c))
      /\ Cardinality(Kept(c)) \in Nat
      /\ Cardinality(timestamps[k]) \in Nat
      /\ Cardinality(Kept(c)) <= Cardinality(timestamps[k])
  BY <1>2, <1>3, FS_Subset, FS_CardinalityType
<1>5. After(Of(k), clock - Window) \subseteq Kept(c)
  <2> SUFFICES ASSUME NEW a \in After(Of(k), clock - Window) PROVE a \in Kept(c)
    OBVIOUS
  <2>1. a \in timestamps[k] /\ a.stamp > clock - Window
    BY <1>1 DEF IInv, EntriesOK, After
  <2>2. a.stamp \in Nat
    BY DEF After, Of, IInv, TypeOK, Admission
  <2>3. a.stamp > call[c].now - Window
    BY <1>1, <2>1, <2>2, WindowAssumption DEF IInv, TypeOK
  <2> QED
    BY <2>1, <2>3 DEF Kept, After
<1> QED
  BY <1>1, <1>2, <1>3, <1>4, <1>5, WindowAssumption

\* The locked half of Allow preserves IInv, whether it admits or refuses.
LEMMA DecideIInv ==
  ASSUME IInv, NEW c \in Callers, Decide(c)
  PROVE  IInv'
<1> DEFINE k == call[c].key
           t == Ticket(c)
<1>1. /\ call[c] \in Sampled
      /\ Kept(c) \subseteq Of(k)
      /\ IsFiniteSet(Kept(c))
      /\ Cardinality(Kept(c)) \in Nat
      /\ Cardinality(Kept(c)) <= Max
      /\ After(Of(k), clock - Window) \subseteq Kept(c)
  BY KeptOK DEF Decide
<1>2. k \in Keys /\ call[c].now \in Nat /\ call[c].now <= clock
  BY <1>1 DEF Sampled, IInv, CallsOK, Decide
<1>3. t \in Admission /\ t.key = k
  BY <1>2 DEF Ticket, Admission, IInv, TypeOK
<1>4. /\ call' = [call EXCEPT ![c] = Idle]
      /\ calls' = [calls EXCEPT ![c] = @ + 1]
      /\ clock' = clock
      /\ entries' = entries \cup {k}
  BY DEF Decide
<1>5. CASE Admit(c)
  <2>1. /\ timestamps' = [timestamps EXCEPT ![k] = Kept(c) \cup {t}]
        /\ admitted' = admitted \cup {t}
        /\ Cardinality(Kept(c)) < Max
    BY <1>5 DEF Admit
  <2>2. TypeOK'
    <3>1. Kept(c) \cup {t} \subseteq Admission
      BY <1>1, <1>3 DEF Of, IInv, TypeOK
    <3> QED
      BY <1>2, <1>3, <1>4, <2>1, <3>1 DEF IInv, TypeOK
  <2>3. \A j \in Keys : Of(j)' = IF j = k THEN Of(j) \cup {t} ELSE Of(j)
    BY <1>3, <2>1 DEF Of
  <2>4. EntriesOK'
    <3> SUFFICES ASSUME NEW j \in Keys
                 PROVE  /\ timestamps'[j] \subseteq Of(j)'
                        /\ IsFiniteSet(timestamps'[j])
                        /\ Cardinality(timestamps'[j]) <= Max
                        /\ After(Of(j), clock - Window)' \subseteq timestamps'[j]
      BY DEF EntriesOK
    <3>1. CASE j # k
      BY <3>1, <1>4, <2>1, <2>3 DEF IInv, EntriesOK, TypeOK, After
    <3>2. CASE j = k
      <4>1. timestamps'[j] = Kept(c) \cup {t}
        BY <3>2, <2>1 DEF IInv, TypeOK
      <4>2. IsFiniteSet(Kept(c) \cup {t}) /\ Cardinality(Kept(c) \cup {t}) <= Max
        <5>1. /\ IsFiniteSet(Kept(c) \cup {t})
              /\ \/ Cardinality(Kept(c) \cup {t}) = Cardinality(Kept(c))
                 \/ Cardinality(Kept(c) \cup {t}) = Cardinality(Kept(c)) + 1
          <6> HIDE DEF t
          <6> QED
            BY <1>1, FS_AddElement
        <5> QED
          BY <1>1, <2>1, <5>1, WindowAssumption
      <4>3. After(Of(j), clock - Window)' \subseteq Kept(c) \cup {t}
        BY <1>1, <1>4, <2>3, <3>2 DEF After
      <4> QED
        BY <1>1, <2>3, <3>2, <4>1, <4>2, <4>3
    <3> QED
      BY <3>1, <3>2
  <2>5. CallsOK'
    <3> SUFFICES ASSUME NEW d \in Callers, call'[d] # Idle
                 PROVE  /\ call'[d] \in Sampled
                        /\ call'[d].now <= clock'
                        /\ \A a \in admitted' : a.by = d => a.at <= call'[d].now
      BY DEF CallsOK
    <3>1. d # c /\ call'[d] = call[d]
      BY <1>4 DEF IInv, TypeOK
    <3> QED
      BY <3>1, <1>4, <2>1 DEF IInv, CallsOK, Ticket
  <2>6. HistoryOK'
    <3>1. t.by = c /\ t.nth = calls[c] /\ t.stamp = call[c].now /\ t.at = clock
      BY DEF Ticket
    <3>2. \A a \in admitted : a.by = c => a.at <= t.stamp /\ a.nth < t.nth
      BY <3>1 DEF IInv, CallsOK, HistoryOK, Decide
    <3>3. \A a \in admitted' :
            a.stamp <= a.at /\ a.at <= clock' /\ a.nth < calls'[a.by]
      BY <1>2, <1>4, <2>1, <3>1 DEF IInv, HistoryOK, TypeOK, Admission
    <3>4. \A a, b \in admitted' : a.by = b.by =>
            (a.nth < b.nth => a.at <= b.stamp) /\ (a.nth = b.nth => a = b)
      BY <1>3, <2>1, <3>1, <3>2 DEF IInv, HistoryOK, TypeOK, Admission
    <3>5. IsFiniteSet(admitted')
      BY <2>1, FS_AddElement DEF IInv, HistoryOK
    <3> QED
      BY <3>3, <3>4, <3>5 DEF HistoryOK
  <2> QED
    BY <2>2, <2>4, <2>5, <2>6 DEF IInv
<1>6. CASE Refuse(c)
  <2>1. /\ timestamps' = [timestamps EXCEPT ![k] = Kept(c)]
        /\ admitted' = admitted
    BY <1>6 DEF Refuse
  <2>2. TypeOK'
    <3>1. Kept(c) \subseteq Admission
      BY <1>1 DEF Of, IInv, TypeOK
    <3> QED
      BY <1>2, <1>4, <2>1, <3>1 DEF IInv, TypeOK
  <2>3. EntriesOK'
    BY <1>1, <1>4, <2>1 DEF IInv, EntriesOK, TypeOK, Of, After
  <2>4. CallsOK'
    BY <1>4, <2>1 DEF IInv, CallsOK, TypeOK
  <2>5. HistoryOK'
    BY <1>4, <2>1 DEF IInv, HistoryOK, TypeOK, Admission
  <2> QED
    BY <2>2, <2>3, <2>4, <2>5 DEF IInv
<1> QED
  BY <1>5, <1>6 DEF Decide

\* IInv is an invariant of the limiter.
THEOREM Invariance == Spec => []IInv
<1>1. ASSUME IInv, [Next]_vars PROVE IInv'
  <2>1. CASE UNCHANGED vars
    BY <1>1, <2>1 DEF vars, IInv, TypeOK, EntriesOK, CallsOK, HistoryOK, Of, After
  <2> QED
    BY <1>1, <2>1, SampleIInv, DecideIInv, TickIInv DEF Next
<1> QED
  BY <1>1, InitIInv, PTL DEF Spec

\* The limiter's variables keep their types, whatever the number of callers
\* in Allow.
THEOREM TypeCorrect == Spec => []TypeOK
  BY Invariance, PTL DEF IInv

\* An entry holds every admission that has not expired, and at most Max.
LEMMA IInvStampBound == IInv => StampBound
<1> SUFFICES ASSUME IInv, NEW k \in Keys
             PROVE  Cardinality(After(Of(k), clock - Window)) <= Max
  BY DEF StampBound
<1> DEFINE S == After(Of(k), clock - Window)
<1>1. /\ S \subseteq timestamps[k]
      /\ IsFiniteSet(timestamps[k])
      /\ Cardinality(timestamps[k]) <= Max
  BY DEF IInv, EntriesOK
<1>2. /\ Cardinality(S) <= Cardinality(timestamps[k])
      /\ Cardinality(S) \in Nat
      /\ Cardinality(timestamps[k]) \in Nat
  <2> HIDE DEF S
  <2> QED
    BY <1>1, FS_Subset, FS_CardinalityType
<1> QED
  BY <1>1, <1>2, WindowAssumption

\* Counted by the limiter's own timestamps, at most Max requests of a key are
\* admitted per window (slidingWindowLimiter.Allow, sequenceLimiter.Allow).
THEOREM StampBoundHolds == Spec => []StampBound
  BY Invariance, IInvStampBound, PTL

\* At most one admission of each caller was granted inside the window with a
\* timestamp from before it.
LEMMA IInvCommitBound == IInv => CommitBound
<1> SUFFICES ASSUME IInv, NEW k \in Keys
             PROVE  Cardinality({a \in Of(k) : a.at > clock - Window})
                      <= Max + Cardinality(Callers)
  BY DEF CommitBound
<1> DEFINE R == {a \in Of(k) : a.at > clock - Window}
           F == After(Of(k), clock - Window)
           S == {a \in R : ~(a.stamp > clock - Window)}
           f == [a \in S |-> a.by]
<1>1. R \subseteq F \cup S
  BY DEF After
<1>2. f \in Injection(S, Callers)
  <2>1. f \in [S -> Callers]
    BY DEF Of, IInv, TypeOK, Admission
  <2>2. ASSUME NEW a \in S, NEW b \in S, f[a] = f[b] PROVE a = b
    <3>1. /\ a \in admitted /\ a.at > clock - Window /\ ~(a.stamp > clock - Window)
          /\ b \in admitted /\ b.at > clock - Window /\ ~(b.stamp > clock - Window)
          /\ a.by = b.by
      BY <2>2 DEF Of
    <3>2. /\ a.nth \in Nat /\ a.at \in Nat /\ a.stamp \in Nat
          /\ b.nth \in Nat /\ b.at \in Nat /\ b.stamp \in Nat
          /\ clock \in Nat
      BY <3>1 DEF IInv, TypeOK, Admission
    <3>3. ~(a.at <= b.stamp) /\ ~(b.at <= a.stamp)
      BY <3>1, <3>2, WindowAssumption
    <3>4. ~(a.nth < b.nth) /\ ~(b.nth < a.nth)
      BY <3>1, <3>3 DEF IInv, HistoryOK
    <3> QED
      BY <3>1, <3>2, <3>4 DEF IInv, HistoryOK
  <2> QED
    BY <2>1, <2>2 DEF Injection, IsInjective
<1>3. IsFiniteSet(S) /\ Cardinality(S) <= Cardinality(Callers)
  <2> HIDE DEF S, f
  <2> QED
    BY <1>2, FS_Injection, WindowAssumption
<1>4. IsFiniteSet(F) /\ Cardinality(F) <= Max
  <2>1. F \subseteq timestamps[k] /\ IsFiniteSet(timestamps[k])
    BY DEF IInv, EntriesOK
  <2>2. Cardinality(F) <= Max
    BY IInvStampBound DEF StampBound
  <2> HIDE DEF F
  <2> QED
    BY <2>1, <2>2, FS_Subset
<1> HIDE DEF R, F, S
<1>5. /\ IsFiniteSet(F \cup S)
      /\ Cardinality(F \cup S) =
           Cardinality(F) + Cardinality(S) - Cardinality(F \cap S)
  BY <1>3, <1>4, FS_Union
<1>6. /\ Cardinality(F) \in Nat /\ Cardinality(S) \in Nat
      /\ Cardinality(F \cap S) \in Nat /\ Cardinality(Callers) \in Nat
  <2>1. F \cap S \in SUBSET S
    OBVIOUS
  <2>2. IsFiniteSet(F \cap S)
    BY <1>3, <2>1, FS_Subset
  <2> QED
    BY <1>3, <1>4, <2>2, FS_CardinalityType, WindowAssumption
<1>7. Cardinality(R) <= Cardinality(F \cup S) /\ Cardinality(R) \in Nat
  BY <1>1, <1>5, FS_Subset, FS_CardinalityType
<1>8. Cardinality(R) <= Max + Cardinality(Callers)
  BY <1>3, <1>4, <1>5, <1>6, <1>7, WindowAssumption
<1> QED
  BY <1>8 DEF R

\* Counted by the moment of admission, at most Max requests of a key plus one
\* per caller are admitted per window: reading the clock before taking the
\* mutex costs at most that much.
THEOREM CommitBoundHolds == Spec => []CommitBound
  BY Invariance, IInvCommitBound, PTL

\* A refused request finds Max unexpired admissions of its key: the limiter
\* never refuses a key for what lies before the window (ratelimit.go:207).
THEOREM SelfHealsHolds == Spec => SelfHeals
<1>1. ASSUME IInv, [Next]_vars, NEW c \in Callers, Denied(c)
      PROVE  Cardinality(After(Of(call[c].key), call[c].now - Window)) >= Max
  <2>1. Decide(c) /\ ~Admit(c)
    <3>1. call'[c] # call[c]
      BY <1>1 DEF Denied
    <3>2. Decide(c)
      BY <1>1, <3>1 DEF Next, vars, Sample, Decide, Tick, IInv, TypeOK, Denied
    <3>3. ~Admit(c)
      <4> SUFFICES ASSUME Admit(c) PROVE FALSE
        OBVIOUS
      <4>1. Ticket(c) \in admitted
        BY <1>1 DEF Admit, Denied
      <4>2. Ticket(c).by = c /\ Ticket(c).nth = calls[c]
        BY DEF Ticket
      <4>3. calls[c] < calls[c] /\ calls[c] \in Nat
        BY <1>1, <4>1, <4>2 DEF IInv, HistoryOK, TypeOK
      <4> QED
        BY <4>3
    <3> QED
      BY <3>2, <3>3
  <2>2. Cardinality(Kept(c)) >= Max
    BY <2>1 DEF Decide, Refuse
  <2>3. /\ call[c].key \in Keys
        /\ Kept(c) \subseteq After(Of(call[c].key), call[c].now - Window)
    <3>1. call[c] \in Sampled /\ Kept(c) \subseteq Of(call[c].key)
      BY <1>1, KeptOK DEF Denied
    <3> QED
      BY <3>1 DEF Kept, After, Sampled
  <2>4. IsFiniteSet(After(Of(call[c].key), call[c].now - Window))
    <3>1. After(Of(call[c].key), call[c].now - Window) \in SUBSET admitted
      BY DEF After, Of
    <3> QED
      BY <1>1, <3>1, FS_Subset DEF IInv, HistoryOK
  <2>5. /\ Cardinality(Kept(c)) <=
             Cardinality(After(Of(call[c].key), call[c].now - Window))
        /\ Cardinality(Kept(c)) \in Nat
        /\ Cardinality(After(Of(call[c].key), call[c].now - Window)) \in Nat
    BY <2>3, <2>4, FS_Subset, FS_CardinalityType
  <2> QED
    BY <2>2, <2>5, WindowAssumption
<1>2. ASSUME IInv, [Next]_vars
      PROVE  [\A c \in Callers : Denied(c) =>
                Cardinality(After(Of(call[c].key), call[c].now - Window)) >= Max]_vars
  BY <1>1, <1>2
<1> QED
  BY <1>2, Invariance, PTL DEF Spec, SelfHeals

------------------------------------------------------------------------------
(* The token bucket *)

Natural == Rate \in Nat /\ Burst \in Nat /\ MaxTime \in Nat

\* What was granted since a, and is still at hand, against burst and rate.
Balance(k, a) == granted[k][a] + Bucket!Available(k) - (Burst + Rate * (clock - a))

BucketInv ==
  /\ Bucket!TypeOK
  /\ \A k \in Holders :
       /\ bucket[k].last <= clock
       /\ \A a \in Bucket!Times : a > clock => granted[k][a] = 0
       /\ \A a \in 0 .. clock : Balance(k, a) <= 0
       /\ \E a \in 0 .. clock : Balance(k, a) = 0

\* The tokens at hand are within the bucket.
LEMMA AvailableType ==
  ASSUME Natural, Bucket!TypeOK, NEW k \in Holders, bucket[k].last <= clock
  PROVE  Bucket!Available(k) \in 0 .. Burst
<1> DEFINE b == bucket[k]
           due == b.tokens + Rate * (clock - b.last)
<1>1. b \in {Bucket!None} \cup [tokens : 0 .. Burst, last : Bucket!Times]
  BY DEF Bucket!TypeOK
<1>2. CASE b = Bucket!None
  BY <1>2 DEF Bucket!Available, Natural
<1>3. CASE b # Bucket!None
  <2>1. b.tokens \in 0 .. Burst /\ b.last \in Nat /\ clock \in Nat
    BY <1>1, <1>3 DEF Bucket!TypeOK, Bucket!Times, Natural
  <2>2. clock - b.last \in Nat
    BY <2>1
  <2>3. Rate * (clock - b.last) \in Nat
    BY <2>2 DEF Natural
  <2> QED
    BY <1>3, <2>1, <2>3 DEF Bucket!Available, Natural
<1> QED
  BY <1>2, <1>3

\* What the rate adds in one tick more.
LEMMA Later ==
  ASSUME Natural, NEW x \in Int
  PROVE  Rate * (x + 1) = Rate * x + Rate /\ Rate * x \in Int
  BY DEF Natural

\* A step that uses the bucket of one key leaves those of the others alone.
LEMMA Elsewhere ==
  ASSUME Bucket!TypeOK, NEW k \in Holders, NEW j \in Holders, j # k,
         Bucket!Grant(k) \/ Bucket!Refuse(k)
  PROVE  /\ clock' = clock /\ bucket'[j] = bucket[j] /\ granted'[j] = granted[j]
         /\ Bucket!Available(j)' = Bucket!Available(j)
  BY DEF Bucket!Grant, Bucket!Refuse, Bucket!Available, Bucket!TypeOK

\* A call that is allowed takes one token.
LEMMA GrantEffect ==
  ASSUME Natural, Bucket!TypeOK, NEW k \in Holders, bucket[k].last <= clock,
         Bucket!Grant(k)
  PROVE  /\ Bucket!TypeOK'
         /\ bucket'[k].last = clock'
         /\ Bucket!Available(k)' = Bucket!Available(k) - 1
         /\ \A a \in Bucket!Times :
              granted'[k][a] = granted[k][a] + IF a <= clock THEN 1 ELSE 0
<1> DEFINE b == [tokens |-> Bucket!Available(k) - 1, last |-> clock]
           g == [a \in Bucket!Times |->
                   IF a <= clock THEN granted[k][a] + 1 ELSE granted[k][a]]
<1>1. Bucket!Available(k) \in 1 .. Burst
  BY AvailableType DEF Bucket!Grant, Natural
<1>2. bucket'[k] = b /\ granted'[k] = g /\ clock' = clock
  BY DEF Bucket!Grant, Bucket!TypeOK
<1>3. b.tokens \in 0 .. Burst /\ b.last = clock /\ b # Bucket!None
  BY <1>1 DEF Bucket!None, Natural
<1>4. Bucket!TypeOK'
  <2>1. b \in [tokens : 0 .. Burst, last : Bucket!Times]
    BY <1>1 DEF Bucket!TypeOK, Natural
  <2>2. g \in [Bucket!Times -> Nat]
    BY DEF Bucket!TypeOK
  <2>3. bucket' = [bucket EXCEPT ![k] = b] /\ granted' = [granted EXCEPT ![k] = g]
    BY DEF Bucket!Grant
  <2> HIDE DEF b, g
  <2> QED
    BY <1>2, <2>1, <2>2, <2>3 DEF Bucket!TypeOK
<1>5. Bucket!Available(k)' = b.tokens
  <2>1. Rate * (clock - clock) = 0
    BY DEF Bucket!TypeOK, Bucket!Times, Natural
  <2> HIDE DEF b
  <2> QED
    BY <1>2, <1>3, <2>1 DEF Bucket!Available, Natural
<1> QED
  BY <1>1, <1>2, <1>3, <1>4, <1>5 DEF Bucket!TypeOK

\* A call that is refused takes none.
LEMMA RefuseEffect ==
  ASSUME Natural, Bucket!TypeOK, NEW k \in Holders, Bucket!Refuse(k)
  PROVE  /\ Bucket!TypeOK'
         /\ bucket'[k].last = clock'
         /\ Bucket!Available(k)' = Bucket!Available(k)
         /\ clock' = clock /\ granted' = granted
<1> DEFINE b == [tokens |-> 0, last |-> clock]
<1>1. /\ bucket' = [bucket EXCEPT ![k] = b] /\ bucket'[k] = b
      /\ clock' = clock /\ granted' = granted
  BY DEF Bucket!Refuse, Bucket!TypeOK
<1>2. b.tokens = 0 /\ b.last = clock /\ b # Bucket!None
  BY DEF Bucket!None
<1>3. b \in [tokens : 0 .. Burst, last : Bucket!Times]
  BY DEF Bucket!TypeOK, Natural
<1>4. Rate * (clock - clock) = 0
  BY DEF Bucket!TypeOK, Bucket!Times, Natural
<1> HIDE DEF b
<1>5. Bucket!TypeOK'
  BY <1>1, <1>3 DEF Bucket!TypeOK
<1>6. Bucket!Available(k)' = 0
  BY <1>1, <1>2, <1>4 DEF Bucket!Available, Natural
<1> QED
  BY <1>1, <1>2, <1>5, <1>6 DEF Bucket!Refuse

\* A tick adds the rate, up to the burst.
LEMMA TickEffect ==
  ASSUME Natural, Bucket!TypeOK, NEW k \in Holders, bucket[k].last <= clock, Bucket!Tick
  PROVE  Bucket!Available(k)' =
           IF Bucket!Available(k) + Rate > Burst THEN Burst ELSE Bucket!Available(k) + Rate
<1> DEFINE b == bucket[k]
           due == b.tokens + Rate * (clock - b.last)
<1>1. bucket' = bucket /\ clock' = clock + 1 /\ clock \in Nat
  BY DEF Bucket!Tick, Bucket!TypeOK, Bucket!Times, Natural
<1>2. CASE b = Bucket!None
  BY <1>1, <1>2 DEF Bucket!Available, Natural
<1>3. CASE b # Bucket!None
  <2>1. b.tokens \in 0 .. Burst /\ b.last \in Nat
    BY <1>3 DEF Bucket!TypeOK, Bucket!Times, Natural
  <2>2. Rate * (clock' - b.last) = Rate * (clock - b.last) + Rate
    <3>1. clock - b.last \in Int /\ clock' - b.last = (clock - b.last) + 1
      BY <1>1, <2>1
    <3> QED
      BY <3>1, Later
  <2>3. Rate * (clock - b.last) \in Int
    BY <1>1, <2>1 DEF Natural
  <2>4. Bucket!Available(k) = IF due > Burst THEN Burst ELSE due
    BY <1>3 DEF Bucket!Available
  <2>5. Bucket!Available(k)' = IF due + Rate > Burst THEN Burst ELSE due + Rate
    BY <1>1, <1>3, <2>1, <2>2, <2>3 DEF Bucket!Available, Natural
  <2>6. due \in Int
    BY <2>1, <2>3 DEF Natural
  <2> HIDE DEF due
  <2> QED
    BY <2>4, <2>5, <2>6 DEF Natural
<1> QED
  BY <1>2, <1>3

\* Nothing is spent yet, and buckets are full.
LEMMA BucketInvInit ==
  ASSUME Natural, Bucket!Init
  PROVE  BucketInv
<1>1. Bucket!TypeOK
  BY DEF Bucket!Init, Bucket!TypeOK, Bucket!Times, Natural
<1>2. ASSUME NEW k \in Holders
      PROVE  Bucket!Available(k) = Burst /\ bucket[k].last = 0 /\ granted[k][0] = 0
  BY DEF Bucket!Init, Bucket!Available, Bucket!None, Bucket!Times, Natural
<1>3. ASSUME NEW k \in Holders
      PROVE  Balance(k, 0) = 0
  BY <1>2 DEF Balance, Bucket!Init, Natural
<1>4. 0 \in 0 .. clock /\ \A a \in 0 .. clock : a = 0
  BY DEF Bucket!Init
<1> QED
  BY <1>1, <1>2, <1>3, <1>4 DEF BucketInv, Bucket!Init

\* Inv is inductive.
LEMMA BucketInvStep ==
  ASSUME Natural, BucketInv, [Bucket!Next]_(Bucket!vars)
  PROVE  BucketInv'
<1> USE DEF BucketInv
<1>1. clock \in Nat /\ \A k \in Holders, a \in Bucket!Times : granted[k][a] \in Nat
  BY DEF Bucket!TypeOK, Bucket!Times, Natural
<1>2. ASSUME NEW k \in Holders
      PROVE  Bucket!Available(k) \in 0 .. Burst
  BY AvailableType
<1>3. \A a \in 0 .. clock : a \in Bucket!Times /\ Rate * (clock - a) \in Int
  BY <1>1 DEF Bucket!TypeOK, Bucket!Times, Natural
<1>4. ASSUME NEW k \in Holders, Bucket!Grant(k)
      PROVE  BucketInv'
  <2>1. Bucket!TypeOK' /\ clock' = clock
    BY <1>4, GrantEffect, Zenon DEF Bucket!Grant
  <2>2. ASSUME NEW j \in Holders, NEW a \in 0 .. clock
        PROVE  Balance(j, a)' = Balance(j, a)
    <3>1. CASE j = k
      <4>1. Bucket!Available(k)' = Bucket!Available(k) - 1 /\ granted'[k][a] = granted[k][a] + 1
        BY <1>3, <1>4, GrantEffect
      <4>2. granted[k][a] \in Nat /\ Bucket!Available(k) \in Int /\ Rate * (clock - a) \in Int
        BY <1>1, <1>2, <1>3 DEF Natural
      <4> QED
        BY <2>1, <3>1, <4>1, <4>2 DEF Balance, Natural
    <3>2. CASE j # k
      BY <1>4, <2>1, <3>2, Elsewhere DEF Balance
    <3> QED
      BY <3>1, <3>2
  <2>3. ASSUME NEW j \in Holders
        PROVE  /\ bucket'[j].last <= clock'
               /\ \A a \in Bucket!Times : a > clock' => granted'[j][a] = 0
    <3>1. CASE j = k
      BY <1>1, <1>4, <2>1, <3>1, GrantEffect DEF Bucket!Times, Natural
    <3>2. CASE j # k
      BY <1>4, <2>1, <3>2, Elsewhere
    <3> QED
      BY <3>1, <3>2
  <2> QED
    BY <2>1, <2>2, <2>3
<1>5. ASSUME NEW k \in Holders, Bucket!Refuse(k)
      PROVE  BucketInv'
  <2>1. Bucket!TypeOK' /\ clock' = clock /\ granted' = granted
    BY <1>5, RefuseEffect
  <2>2. ASSUME NEW j \in Holders
        PROVE  Bucket!Available(j)' = Bucket!Available(j) /\ bucket'[j].last <= clock'
    <3>1. CASE j = k
      BY <1>1, <1>5, <2>1, <3>1, RefuseEffect
    <3>2. CASE j # k
      BY <1>5, <2>1, <3>2, Elsewhere
    <3> QED
      BY <3>1, <3>2
  <2> QED
    BY <2>1, <2>2 DEF Balance
<1>6. CASE Bucket!Tick
  <2>1. Bucket!TypeOK' /\ clock' = clock + 1 /\ bucket' = bucket /\ granted' = granted
    BY <1>6 DEF Bucket!Tick, Bucket!TypeOK, Bucket!Times, Natural
  <2>2. ASSUME NEW k \in Holders
        PROVE  /\ \A a \in 0 .. clock' : Balance(k, a)' <= 0
               /\ \E a \in 0 .. clock' : Balance(k, a)' = 0
    <3>1. Bucket!Available(k)' =
            IF Bucket!Available(k) + Rate > Burst THEN Burst ELSE Bucket!Available(k) + Rate
      BY <1>6, TickEffect
    <3>2. PICK t \in Bucket!Times : t = clock + 1
      BY <2>1 DEF Bucket!TypeOK
    <3>3. Balance(k, t)' = Bucket!Available(k)' - Burst
      <4>1. granted'[k][t] = 0
        BY <1>1, <2>1, <3>2
      <4>2. Rate * (clock' - t) = 0
        BY <1>1, <2>1, <3>2 DEF Natural
      <4> QED
        BY <1>2, <3>1, <4>1, <4>2 DEF Balance, Natural
    <3>4. ASSUME NEW a \in 0 .. clock
          PROVE  Balance(k, a)' =
                   Balance(k, a) + Bucket!Available(k)' - Bucket!Available(k) - Rate
      <4>1. clock - a \in Int /\ clock' - a = (clock - a) + 1
        BY <1>1, <2>1
      <4>2. Rate * (clock' - a) = Rate * (clock - a) + Rate
        BY <4>1, Later
      <4>3. Rate * (clock - a) \in Int /\ granted[k][a] \in Nat
        BY <1>1, <1>3
      <4> QED
        BY <1>2, <2>1, <3>1, <4>2, <4>3 DEF Balance, Natural
    <3>5. \A a \in 0 .. clock' : a \in 0 .. clock \/ a = t
      BY <1>1, <2>1, <3>2
    <3>6. \A a \in 0 .. clock : Balance(k, a) \in Int /\ a \in 0 .. clock'
      BY <1>1, <1>2, <1>3, <2>1 DEF Balance, Natural
    <3>7. \A a \in 0 .. clock' : Balance(k, a)' <= 0
      <4>1. Balance(k, t)' <= 0
        BY <1>2, <3>1, <3>3 DEF Natural
      <4>2. \A a \in 0 .. clock : Balance(k, a)' <= 0
        BY <1>2, <3>1, <3>4, <3>6 DEF Natural
      <4> QED
        BY <3>5, <4>1, <4>2
    <3>8. \E a \in 0 .. clock' : Balance(k, a)' = 0
      <4>1. CASE Bucket!Available(k) + Rate > Burst
        <5>1. Balance(k, t)' = 0
          BY <3>1, <3>3, <4>1 DEF Natural
        <5>2. t \in 0 .. clock'
          BY <1>1, <2>1, <3>2
        <5> QED
          BY <5>1, <5>2
      <4>2. CASE ~(Bucket!Available(k) + Rate > Burst)
        <5>1. PICK a \in 0 .. clock : Balance(k, a) = 0
          OBVIOUS
        <5>2. Balance(k, a)' = 0
          BY <1>2, <3>1, <3>4, <4>2, <5>1 DEF Natural
        <5> QED
          BY <3>6, <5>2
      <4> QED
        BY <4>1, <4>2
    <3> QED
      BY <3>7, <3>8
  <2>3. ASSUME NEW k \in Holders
        PROVE  /\ bucket'[k].last <= clock'
               /\ \A a \in Bucket!Times : a > clock' => granted'[k][a] = 0
    <3>1. \A a \in Bucket!Times : a > clock' => a > clock
      BY <1>1, <2>1 DEF Bucket!Times, Natural
    <3>2. bucket[k].last \in Int
      BY DEF Bucket!TypeOK, Bucket!Times, Bucket!None, Natural
    <3> QED
      BY <1>1, <2>1, <3>1, <3>2
  <2> QED
    BY <2>1, <2>2, <2>3
<1>7. CASE UNCHANGED Bucket!vars
  BY <1>7 DEF Bucket!vars, Bucket!TypeOK, Balance, Bucket!Available
<1> QED
  BY <1>4, <1>5, <1>6, <1>7 DEF Bucket!Next

\* Inv gives the bound and its exactness.
LEMMA BucketInvGives ==
  ASSUME Natural, BucketInv
  PROVE  Bucket!TypeOK /\ Bucket!WithinRate /\ Bucket!Exact
<1>1. ASSUME NEW k \in Holders, NEW a \in 0 .. clock
      PROVE  /\ Bucket!Spent(k, a) \in Int /\ Bucket!Available(k) \in 0 .. Burst
             /\ Balance(k, a) = Bucket!Spent(k, a) + Bucket!Available(k)
  <2>1. Bucket!Available(k) \in 0 .. Burst
    BY AvailableType DEF BucketInv
  <2>2. granted[k][a] \in Nat /\ Rate * (clock - a) \in Int
    BY DEF BucketInv, Bucket!TypeOK, Bucket!Times, Natural
  <2> QED
    BY <2>1, <2>2 DEF Balance, Bucket!Spent, Natural
<1>2. Bucket!WithinRate
  BY <1>1 DEF BucketInv, Bucket!WithinRate, Natural
<1>3. ASSUME NEW k \in Holders
      PROVE  (Bucket!Available(k) = 0) <=> (\E a \in 0 .. clock : Bucket!Spent(k, a) = 0)
  <2>1. PICK a \in 0 .. clock : Balance(k, a) = 0
    BY DEF BucketInv
  <2>2. Bucket!Available(k) = 0 => Bucket!Spent(k, a) = 0
    BY <1>1, <2>1 DEF Natural
  <2>3. ASSUME NEW d \in 0 .. clock, Bucket!Spent(k, d) = 0
        PROVE  Bucket!Available(k) = 0
    BY <1>1, <2>3 DEF BucketInv, Natural
  <2> QED
    BY <2>2, <2>3
<1> QED
  BY <1>2, <1>3 DEF BucketInv, Bucket!Exact

\* ratelimit.go:124-148: a key is allowed no more than its burst and rate
\* provide for over any stretch of time that ends now, and refused only when one
\* call more would exceed that, for every burst, rate and set of keys.
THEOREM BucketHolds ==
  ASSUME Natural
  PROVE  Bucket!Spec => [](Bucket!TypeOK /\ Bucket!WithinRate /\ Bucket!Exact)
<1>1. Bucket!Init => BucketInv
  BY BucketInvInit
<1>2. BucketInv /\ [Bucket!Next]_(Bucket!vars) => BucketInv'
  BY BucketInvStep
<1>3. BucketInv => Bucket!TypeOK /\ Bucket!WithinRate /\ Bucket!Exact
  BY BucketInvGives
<1> QED
  BY <1>1, <1>2, <1>3, PTL DEF Bucket!Spec

==============================================================================
