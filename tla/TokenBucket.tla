----------------------------- MODULE TokenBucket -----------------------------
(***************************************************************************)
(* tokenBucketLimiter: one rate.Limiter per key, made full when the key is *)
(* first asked for.  The rate.Limiter is golang.org/x/time/rate's: a       *)
(* bucket of Burst tokens that gains Rate tokens per tick of the clock, as *)
(* far as it has room, and gives one to whoever is allowed.  A call is one *)
(* step: the limiter reads the clock next to its lock, and it is assumed   *)
(* that what callers that overtake each other there gain is no token.      *)
(***************************************************************************)
EXTENDS Integers

CONSTANTS
  Keys,     \* source addresses, or pairs of source address and group
  Rate,     \* tokens per tick
  Burst,    \* size of a bucket
  MaxTime   \* bound on the clock

VARIABLES
  clock,    \* time.Now()
  bucket,   \* the limiter of each key: none, or its tokens as of its last use
  granted   \* history: how many calls of each key were allowed at or after a time

vars == <<clock, bucket, granted>>

None == [tokens |-> -1, last |-> 0]

Times == 0 .. MaxTime

TypeOK ==
  /\ clock \in Times
  /\ bucket \in [Keys -> {None} \cup [tokens : 0 .. Burst, last : Times]]
  /\ granted \in [Keys -> [Times -> Nat]]

Init ==
  /\ clock = 0
  /\ bucket = [k \in Keys |-> None]
  /\ granted = [k \in Keys |-> [a \in Times |-> 0]]

\* The tokens at hand: a new limiter is full, an old one gains what is due.
Available(k) ==
  LET due == bucket[k].tokens + Rate * (clock - bucket[k].last)
  IN  IF bucket[k] = None \/ due > Burst THEN Burst ELSE due

\* A plausible slip: the last token is given twice.
GrantOverdraft(k) ==
  /\ Available(k) >= 0
  /\ bucket' = [bucket EXCEPT ![k] = [tokens |-> Available(k) - 1, last |-> clock]]
  /\ granted' = [granted EXCEPT ![k] = [a \in Times |-> IF a <= clock THEN @[a] + 1 ELSE @[a]]]
  /\ UNCHANGED clock

\* A plausible slip: the time of the last use is not kept up.
GrantUndated(k) ==
  /\ Available(k) > 0
  /\ bucket' = [bucket EXCEPT ![k] = [tokens |-> Available(k) - 1, last |-> bucket[k].last]]
  /\ granted' = [granted EXCEPT ![k] = [a \in Times |-> IF a <= clock THEN @[a] + 1 ELSE @[a]]]
  /\ UNCHANGED clock

Grant(k) ==
  /\ Available(k) > 0
  /\ bucket' = [bucket EXCEPT ![k] = [tokens |-> Available(k) - 1, last |-> clock]]
  /\ granted' = [granted EXCEPT ![k] = [a \in Times |-> IF a <= clock THEN @[a] + 1 ELSE @[a]]]
  /\ UNCHANGED clock

\* A limiter that has no token has been made by an earlier call, or is of size 0.
Refuse(k) ==
  /\ Available(k) = 0
  /\ bucket' = [bucket EXCEPT ![k] = [tokens |-> 0, last |-> clock]]
  /\ UNCHANGED <<clock, granted>>

Tick ==
  /\ clock < MaxTime
  /\ clock' = clock + 1
  /\ UNCHANGED <<bucket, granted>>

Next == Tick \/ \E k \in Keys : Grant(k) \/ Refuse(k)

Spec == Init /\ [][Next]_vars

------------------------------------------------------------------------------

\* The calls of a key allowed since a, against what burst and rate provide for.
Spent(k, a) == granted[k][a] - (Burst + Rate * (clock - a))

\* ratelimit.go:124-148: over every stretch of time that ends now, a key is
\* allowed at most its burst and what its rate adds in that time.
WithinRate == \A k \in Keys, a \in 0 .. clock : Spent(k, a) <= 0

\* A call is refused exactly when one more would break that bound: an idle key
\* gets its burst back, and no call is refused that burst and rate provide for.
Exact == \A k \in Keys : (Available(k) = 0) <=> (\E a \in 0 .. clock : Spent(k, a) = 0)

==============================================================================
