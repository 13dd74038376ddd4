------------------------------ MODULE FrameCache ------------------------------
(***************************************************************************)
(* What the interface cache.Cache promises, whatever the backend and       *)
(* however it makes room: Retrieve answers nil, or the value of the last   *)
(* Store under that key if that entry has neither expired nor been         *)
(* deleted.  It never answers an overwritten, a deleted, an expired or     *)
(* another key's value.                                                    *)
(***************************************************************************)
EXTENDS CacheInterface

VARIABLES
  clock,   \* time.Now()
  last,    \* the entry the last Store of each key made, Nil once deleted
  reply    \* the answer of the last Retrieve: its key and its value

vars == <<clock, last, reply>>

NoReply == [key |-> Nil, value |-> Nil]

Init ==
  /\ clock = 0
  /\ last = [k \in Keys |-> Nil]
  /\ reply = NoReply

Store(k, v) ==
  /\ last' = Put(last, k, v, clock)
  /\ UNCHANGED <<clock, reply>>

Retrieve(k) ==
  /\ \E v \in Answers(last, k, clock) : reply' = [key |-> k, value |-> v]
  /\ UNCHANGED <<clock, last>>

Delete(k) ==
  /\ last' = Drop(last, {k})
  /\ UNCHANGED <<clock, reply>>

Tick ==
  /\ clock' = clock + 1
  /\ UNCHANGED <<last, reply>>

Next ==
  \/ \E k \in Keys, v \in Values : Store(k, v)
  \/ \E k \in Keys : Retrieve(k) \/ Delete(k)
  \/ Tick

Spec == Init /\ [][Next]_vars

==============================================================================
