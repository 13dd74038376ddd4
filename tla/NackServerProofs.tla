--------------------------- MODULE NackServerProofs ---------------------------
(***************************************************************************)
(* Proofs about the reader and its worker pool, for any set of workers,    *)
(* any capacity of the channel and any number of datagrams.                *)
(*                                                                         *)
(* The properties count the places a NACK is in.  The invariant says the   *)
(* same without counting: the places are pairwise disjoint, hold no NACK   *)
(* twice, and leave out only the one in the reader's hands.                *)
(***************************************************************************)
EXTENDS NackServer, FiniteSetTheorems, FunctionTheorems, TLAPS

\* The NACK the reader has read and not yet sent to the channel.
Offered(d) == reader = "offer" /\ d = buf

Fresh(d) == d \in 1 .. arrived /\ handled[d] = 0 /\ ~Offered(d)

Hands == {w \in Workers : pool[w].pc = "busy"}

\* Where the goroutines may be, relative to each other.
RunOK ==
  /\ closed => reader \in {"wait", "returned"}
  /\ reader \in {"listen", "returned"} => \A w \in Workers : pool[w] = Exited
  /\ \A w \in Workers : pool[w] # Exited => conn = "open"
  /\ reader = "offer" => buf = arrived /\ buf \in Datagrams /\ handled[buf] = 0
  /\ Len(requests) <= Capacity

\* The channel holds NACKs nobody has handled, each once.
QueueOK ==
  \A i \in 1 .. Len(requests) :
    /\ Fresh(requests[i])
    /\ \A j \in 1 .. Len(requests) : requests[i] = requests[j] => i = j

\* So do the workers' hands, and they share none with the channel.
HandOK ==
  \A w \in Hands :
    /\ Fresh(pool[w].req)
    /\ \A x \in Hands : pool[w].req = pool[x].req => w = x
    /\ \A i \in 1 .. Len(requests) : requests[i] # pool[w].req

\* Nothing is handled twice, or before it has been read.
HandledOK ==
  \A d \in Datagrams : handled[d] \in {0, 1} /\ (handled[d] = 1 => d \in 1 .. arrived)

Placed(d) ==
  \/ \E i \in 1 .. Len(requests) : requests[i] = d
  \/ \E w \in Hands : pool[w].req = d
  \/ handled[d] = 1

\* Nothing is lost but what the reader held when it gave up.
AccountOK ==
  \A d \in 1 .. arrived : Placed(d) \/ (d = buf /\ (reader = "offer" \/ closed))

IInv == TypeOK /\ RunOK /\ QueueOK /\ HandOK /\ HandledOK /\ AccountOK

------------------------------------------------------------------------------

\* A worker is in its select, gone, or busy with a datagram.
LEMMA PoolType ==
  ASSUME TypeOK, NEW w \in Workers
  PROVE  /\ pool[w].pc \in {"select", "exited", "busy"}
         /\ pool[w].pc = "select" <=> pool[w] = Selecting
         /\ pool[w].pc = "exited" <=> pool[w] = Exited
         /\ pool[w].pc = "busy" => pool[w].req \in Datagrams /\ pool[w] = Busy(pool[w].req)
<1>1. pool[w] \in {Selecting, Exited} \cup {Busy(d) : d \in Datagrams}
  BY DEF TypeOK
<1>2. CASE pool[w] = Selecting
  BY <1>2 DEF Selecting, Exited
<1>3. CASE pool[w] = Exited
  BY <1>3 DEF Selecting, Exited
<1>4. ASSUME NEW d \in Datagrams, pool[w] = Busy(d) PROVE pool[w].pc = "busy" /\ pool[w].req = d
  BY <1>4 DEF Busy
<1> QED
  BY <1>1, <1>2, <1>3, <1>4 DEF Busy, Selecting, Exited

\* Steps of the reader that neither take a NACK in nor pass one on.
LEMMA ReaderKeeps ==
  ASSUME IInv, TypeOK', RunOK', UNCHANGED <<requests, pool, arrived, handled, buf>>,
         reader' # "offer", closed => closed', reader = "offer" => closed'
  PROVE  IInv'
<1>1. Hands' = Hands
  BY DEF Hands
<1>2. \A d : Fresh(d) => Fresh(d)'
  BY DEF Fresh, Offered
<1>3. QueueOK' /\ HandOK'
  BY <1>1, <1>2 DEF IInv, QueueOK, HandOK
<1>4. HandledOK' /\ AccountOK'
  BY <1>1 DEF IInv, HandledOK, AccountOK, Placed
<1> QED
  BY <1>3, <1>4 DEF IInv

\* The invariant holds before Run has bound its socket.
LEMMA InitIInv == Init => IInv
<1> SUFFICES ASSUME Init PROVE IInv
  OBVIOUS
<1>1. TypeOK
  <2>1. arrived \in 0 .. MaxArrivals /\ requests \in Seq(Datagrams)
    BY ServerAssumption DEF Init
  <2>2. pool \in [Workers -> {Selecting, Exited} \cup {Busy(d) : d \in Datagrams}]
    BY DEF Init
  <2>3. handled \in [Datagrams -> Nat]
    BY DEF Init
  <2> QED
    BY <2>1, <2>2, <2>3, Zenon DEF Init, TypeOK
<1>2. Hands = {} /\ Len(requests) = 0 /\ 1 .. arrived = {}
  BY DEF Init, Hands, Exited
<1>3. RunOK
  BY <1>2, ServerAssumption DEF Init, RunOK
<1>4. QueueOK /\ HandOK /\ AccountOK
  BY <1>2 DEF QueueOK, HandOK, AccountOK
<1>5. HandledOK
  BY DEF Init, HandledOK
<1> QED
  BY <1>1, <1>3, <1>4, <1>5 DEF IInv

\* Binding the socket and starting the workers keep the invariant.
LEMMA ListenIInv == IInv /\ Listen => IInv'
<1> SUFFICES ASSUME IInv, Listen PROVE IInv'
  OBVIOUS
<1>1. Hands = {} /\ Hands' = {}
  BY DEF IInv, RunOK, Listen, Hands, Exited, Selecting
<1>2. TypeOK'
  BY DEF IInv, TypeOK, Listen
<1>3. RunOK'
  BY DEF IInv, RunOK, Listen
<1>4. \A d : Fresh(d) => Fresh(d)'
  BY DEF Fresh, Offered, Listen
<1>5. QueueOK' /\ HandOK'
  BY <1>1, <1>4 DEF IInv, QueueOK, HandOK, Listen
<1>6. HandledOK' /\ AccountOK'
  BY <1>1 DEF IInv, HandledOK, AccountOK, Placed, Listen
<1> QED
  BY <1>2, <1>3, <1>5, <1>6 DEF IInv

\* So do the select, a read that brings nothing, and the return from wg.Wait.
LEMMA PollIInv == IInv /\ (Poll \/ ReadNothing \/ WaitReturn) => IInv'
<1> SUFFICES ASSUME IInv, Poll \/ ReadNothing \/ WaitReturn PROVE IInv'
  OBVIOUS
<1>1. TypeOK'
  BY Zenon DEF IInv, TypeOK, Poll, ReadNothing, WaitReturn, Shut
<1>2. RunOK'
  BY DEF IInv, RunOK, Poll, ReadNothing, WaitReturn, Shut
<1>3. /\ UNCHANGED <<requests, pool, arrived, handled, buf>>
      /\ reader' # "offer" /\ reader # "offer" /\ (closed => closed')
  BY DEF IInv, RunOK, Poll, ReadNothing, WaitReturn, Shut
<1> QED
  BY <1>1, <1>2, <1>3, ReaderKeeps

\* A NACK that is read is new: it is in no other place yet.
LEMMA ReadNackIInv == IInv /\ ReadNack => IInv'
<1> SUFFICES ASSUME IInv, ReadNack PROVE IInv'
  OBVIOUS
<1>0. arrived \in Nat /\ MaxArrivals \in Nat /\ arrived < MaxArrivals
  BY ServerAssumption DEF IInv, TypeOK, ReadNack
<1>1. TypeOK'
  BY <1>0 DEF IInv, TypeOK, ReadNack, Datagrams
<1>2. arrived + 1 \in Datagrams /\ handled[arrived + 1] = 0
  BY <1>0 DEF IInv, HandledOK, Datagrams
<1>3. RunOK'
  BY <1>2 DEF IInv, RunOK, ReadNack
<1>4. Hands' = Hands /\ requests' = requests /\ pool' = pool /\ handled' = handled
  BY DEF ReadNack, Hands
<1>5. \A d : Fresh(d) => Fresh(d)'
  BY <1>0 DEF Fresh, Offered, ReadNack
<1>6. QueueOK' /\ HandOK'
  BY <1>4, <1>5 DEF IInv, QueueOK, HandOK
<1>7. HandledOK'
  BY <1>0 DEF IInv, HandledOK, ReadNack
<1>8. AccountOK'
  <2> SUFFICES ASSUME NEW d \in 1 .. arrived', d # arrived + 1 PROVE Placed(d)'
    BY DEF AccountOK, ReadNack
  <2>1. d \in 1 .. arrived /\ reader # "offer" /\ ~closed
    BY <1>0 DEF ReadNack, IInv, RunOK
  <2> QED
    BY <1>4, <2>1 DEF IInv, AccountOK, Placed
<1> QED
  BY <1>1, <1>3, <1>6, <1>7, <1>8 DEF IInv

\* The send moves the NACK from the reader's buffer to the channel, or drops it.
LEMMA OfferIInv == IInv /\ Offer => IInv'
<1> SUFFICES ASSUME IInv, Offer PROVE IInv'
  OBVIOUS
<1>1. CASE cancelled /\ Shut /\ UNCHANGED requests
  <2>1. TypeOK' /\ RunOK'
    BY <1>1 DEF IInv, TypeOK, RunOK, Offer, Shut
  <2> QED
    BY <1>1, <2>1, ReaderKeeps DEF Offer, Shut
<1>2. CASE /\ Len(requests) < Capacity /\ requests' = Append(requests, buf)
           /\ reader' = "select" /\ UNCHANGED closed
  <2>0. /\ requests \in Seq(Datagrams) /\ buf \in Datagrams /\ handled[buf] = 0
        /\ buf = arrived /\ reader = "offer" /\ buf \in 1 .. arrived /\ ~closed
    BY DEF IInv, TypeOK, RunOK, Offer, Datagrams
  <2>1. /\ Len(requests') = Len(requests) + 1 /\ Len(requests) \in Nat
        /\ requests'[Len(requests) + 1] = buf
        /\ \A i \in 1 .. Len(requests) : requests'[i] = requests[i]
    BY <1>2, <2>0
  <2>2. UNCHANGED <<cancelled, conn, buf, pool, arrived, handled>> /\ Hands' = Hands
    BY DEF Offer, Hands
  <2>3. TypeOK'
    BY <1>2, <2>0, <2>2 DEF IInv, TypeOK
  <2>4. RunOK'
    BY <1>2, <2>0, <2>1, <2>2, ServerAssumption DEF IInv, RunOK
  <2>5. \A d : Fresh(d) => Fresh(d)' /\ d # buf
    BY <1>2, <2>0, <2>2 DEF Fresh, Offered
  <2>6. Fresh(buf)'
    BY <1>2, <2>0, <2>2 DEF Fresh, Offered
  <2>7. \A i \in 1 .. Len(requests) : requests[i] # buf
    BY <2>5 DEF IInv, QueueOK
  <2>8. \A i \in 1 .. Len(requests') : i \in 1 .. Len(requests) \/ i = Len(requests) + 1
    BY <2>1
  <2>9. QueueOK'
    <3> SUFFICES ASSUME NEW i \in 1 .. Len(requests')
                 PROVE  /\ Fresh(requests[i])'
                        /\ \A j \in 1 .. Len(requests') : requests'[i] = requests'[j] => i = j
      BY Zenon DEF QueueOK
    <3>1. CASE i \in 1 .. Len(requests)
      <4>1. Fresh(requests[i]) /\ requests'[i] = requests[i] /\ requests[i] # buf
        BY <2>1, <2>7, <3>1 DEF IInv, QueueOK
      <4>2. \A j \in 1 .. Len(requests') : requests'[i] = requests'[j] => i = j
        BY <2>1, <2>8, <3>1, <4>1 DEF IInv, QueueOK
      <4>3. Fresh(requests[i])'
        BY <2>5, <4>1
      <4> QED
        BY <4>2, <4>3
    <3>2. CASE i = Len(requests) + 1
      BY <2>1, <2>2, <2>6, <2>7, <2>8, <3>2
    <3> QED
      BY <2>8, <3>1, <3>2
  <2>10. HandOK'
    BY <2>1, <2>2, <2>5, <2>8 DEF IInv, HandOK
  <2>11. HandledOK'
    BY <2>2 DEF IInv, HandledOK
  <2>12. AccountOK'
    <3> SUFFICES ASSUME NEW d \in 1 .. arrived PROVE Placed(d)'
      BY <2>2 DEF AccountOK
    <3>1. CASE d = buf
      BY <2>1, <3>1 DEF Placed
    <3>2. CASE d # buf
      <4>1. Placed(d)
        BY <3>2 DEF IInv, AccountOK
      <4> QED
        BY <2>1, <2>2, <4>1 DEF Placed
    <3> QED
      BY <3>1, <3>2
  <2> QED
    BY <2>3, <2>4, <2>9, <2>10, <2>11, <2>12 DEF IInv
<1> QED
  BY <1>1, <1>2 DEF Offer

\* A worker takes the NACK out of the channel as it takes it in hand.
LEMMA TakeIInv ==
  ASSUME IInv, NEW w \in Workers, Take(w)
  PROVE  IInv'
<1> DEFINE d == Head(requests)
<1>0. /\ requests \in Seq(Datagrams) /\ requests # << >> /\ Len(requests) \in Nat \ {0}
      /\ d = requests[1] /\ d \in Datagrams
  BY DEF IInv, TypeOK, Take
<1>1. /\ requests' \in Seq(Datagrams) /\ Len(requests') = Len(requests) - 1
      /\ \A i \in 1 .. Len(requests') : i + 1 \in 1 .. Len(requests) /\ requests'[i] = requests[i + 1]
  BY <1>0 DEF Take
<1>2. UNCHANGED <<cancelled, conn, reader, buf, closed, arrived, handled>>
  BY DEF Take
<1>3. /\ pool' \in [Workers -> {Selecting, Exited} \cup {Busy(x) : x \in Datagrams}]
      /\ pool'[w] = Busy(d) /\ \A x \in Workers \ {w} : pool'[x] = pool[x]
  BY <1>0 DEF IInv, TypeOK, Take
<1>4. /\ w \notin Hands /\ Hands' = Hands \cup {w}
      /\ pool'[w].req = d /\ \A x \in Hands : pool'[x] = pool[x]
  BY <1>3 DEF Hands, Take, Selecting, Busy
<1>5. TypeOK'
  BY <1>1, <1>2, <1>3 DEF IInv, TypeOK
<1>6. RunOK'
  <2>1. conn = "open" /\ reader \notin {"listen", "returned"}
    BY DEF IInv, RunOK, Take, Selecting, Exited
  <2>2. Len(requests') <= Capacity
    BY <1>0, <1>1, ServerAssumption DEF IInv, RunOK
  <2> QED
    BY <1>2, <2>1, <2>2 DEF IInv, RunOK
<1> HIDE DEF d
<1>7. \A x : Fresh(x) => Fresh(x)'
  BY <1>2 DEF Fresh, Offered
<1>8. QueueOK'
  BY <1>0, <1>1, <1>7 DEF IInv, QueueOK
<1>9. Fresh(d) /\ \A i \in 1 .. Len(requests') : requests'[i] # d
  BY <1>0, <1>1 DEF IInv, QueueOK
<1>10. \A x \in Hands : pool[x].req # d /\ Fresh(pool[x].req)
  BY <1>0 DEF IInv, HandOK
<1>11. HandOK'
  <2> SUFFICES ASSUME NEW x \in Hands'
               PROVE  /\ Fresh(pool[x].req)'
                      /\ \A y \in Hands' : pool'[x].req = pool'[y].req => x = y
                      /\ \A i \in 1 .. Len(requests') : requests'[i] # pool'[x].req
    BY Zenon DEF HandOK
  <2>1. CASE x = w
    BY <1>4, <1>7, <1>9, <1>10, <2>1
  <2>2. CASE x \in Hands
    <3>1. pool'[x].req = pool[x].req /\ pool[x].req # d /\ Fresh(pool[x].req)
      BY <1>4, <1>10, <2>2
    <3>2. \A y \in Hands' : pool'[x].req = pool'[y].req => x = y
      BY <1>4, <2>2, <3>1 DEF IInv, HandOK
    <3>3. \A i \in 1 .. Len(requests') : requests'[i] # pool'[x].req
      BY <1>1, <2>2, <3>1 DEF IInv, HandOK
    <3> QED
      BY <1>7, <3>1, <3>2, <3>3
  <2> QED
    BY <1>4, <2>1, <2>2
<1>12. HandledOK'
  BY <1>2 DEF IInv, HandledOK
<1>13. AccountOK'
  <2>1. ASSUME NEW x, Placed(x) PROVE Placed(x)'
    <3>1. CASE \E i \in 1 .. Len(requests) : requests[i] = x
      <4>1. PICK i \in 1 .. Len(requests) : requests[i] = x
        BY <3>1
      <4>2. CASE i = 1
        BY <1>0, <1>4, <4>1, <4>2 DEF Placed
      <4>3. CASE i # 1
        <5>1. i - 1 \in 1 .. Len(requests') /\ requests'[i - 1] = x
          BY <1>0, <1>1, <4>1, <4>3
        <5> QED
          BY <5>1 DEF Placed
      <4> QED
        BY <4>2, <4>3
    <3>2. CASE \E y \in Hands : pool[y].req = x
      BY <1>4, <3>2 DEF Placed
    <3>3. CASE handled[x] = 1
      BY <1>2, <3>3 DEF Placed
    <3> QED
      BY <2>1, <3>1, <3>2, <3>3 DEF Placed
  <2> QED
    BY <1>2, <2>1 DEF IInv, AccountOK
<1> QED
  BY <1>5, <1>6, <1>8, <1>11, <1>12, <1>13 DEF IInv

\* A handled NACK leaves the worker's hand for good.
LEMMA FinishIInv ==
  ASSUME IInv, NEW w \in Workers, Finish(w)
  PROVE  IInv'
<1> DEFINE d == pool[w].req
<1>0. w \in Hands /\ d \in Datagrams /\ d \in 1 .. arrived /\ Fresh(d) /\ handled[d] = 0
  BY PoolType DEF IInv, HandOK, Hands, Finish, Fresh
<1>1. UNCHANGED <<cancelled, conn, reader, buf, requests, closed, arrived>>
  BY DEF Finish
<1>2. /\ pool' \in [Workers -> {Selecting, Exited} \cup {Busy(x) : x \in Datagrams}]
      /\ pool'[w] = Selecting /\ \A x \in Workers \ {w} : pool'[x] = pool[x]
  BY DEF IInv, TypeOK, Finish
<1>3. /\ handled' \in [Datagrams -> Nat] /\ handled'[d] = 1
      /\ \A x \in Datagrams \ {d} : handled'[x] = handled[x]
  BY <1>0 DEF IInv, TypeOK, Finish
<1>4. Hands' = Hands \ {w} /\ \A x \in Hands' : pool'[x] = pool[x]
  BY <1>2 DEF Hands, Selecting
<1> HIDE DEF d
<1>5. TypeOK'
  BY <1>1, <1>2, <1>3 DEF IInv, TypeOK
<1>6. RunOK'
  <2>1. pool[w] # Exited
    BY DEF Finish, Exited
  <2>2. conn = "open" /\ reader \notin {"listen", "returned"}
    BY <2>1 DEF IInv, RunOK
  <2>3. reader = "offer" => handled'[buf] = 0
    BY <1>0, <1>3, Zenon DEF IInv, RunOK, Fresh, Offered
  <2> QED
    BY <1>1, <2>2, <2>3 DEF IInv, RunOK
<1>7. \A x \in Datagrams \ {d} : Fresh(x) => Fresh(x)'
  BY <1>1, <1>3 DEF Fresh, Offered
<1>8. 1 .. arrived \subseteq Datagrams
  BY ServerAssumption DEF IInv, TypeOK, Datagrams
<1>9. \A i \in 1 .. Len(requests) : requests[i] \in Datagrams \ {d}
  BY <1>0, <1>8 DEF IInv, QueueOK, HandOK, Fresh, d
<1>10. QueueOK'
  BY <1>1, <1>7, <1>9 DEF IInv, QueueOK
<1>11. \A x \in Hands' : pool[x].req \in Datagrams \ {d}
  BY <1>0, <1>4, <1>8 DEF IInv, HandOK, Fresh, d
<1>12. HandOK'
  BY <1>1, <1>4, <1>7, <1>11 DEF IInv, HandOK
<1>13. HandledOK'
  BY <1>0, <1>1, <1>3 DEF IInv, HandledOK
<1>14. AccountOK'
  <2>1. ASSUME NEW x \in Datagrams, Placed(x) PROVE Placed(x)'
    <3>1. CASE x = d
      BY <1>3, <3>1 DEF Placed
    <3>2. CASE x # d
      BY <1>1, <1>3, <1>4, <2>1, <3>2 DEF Placed, d
    <3> QED
      BY <3>1, <3>2
  <2> QED
    BY <1>1, <1>8, <2>1 DEF IInv, AccountOK
<1> QED
  BY <1>5, <1>6, <1>10, <1>12, <1>13, <1>14 DEF IInv

\* A worker that returns has nothing in hand.
LEMMA ExitIInv ==
  ASSUME IInv, NEW w \in Workers, Exit(w)
  PROVE  IInv'
<1>1. UNCHANGED <<cancelled, conn, reader, buf, requests, closed, arrived, handled>>
  BY DEF Exit
<1>2. /\ pool' \in [Workers -> {Selecting, Exited} \cup {Busy(x) : x \in Datagrams}]
      /\ pool'[w] = Exited /\ \A x \in Workers \ {w} : pool'[x] = pool[x]
  BY DEF IInv, TypeOK, Exit
<1>3. Hands' = Hands /\ \A x \in Hands : pool'[x] = pool[x]
  BY <1>2 DEF Hands, Exited, Exit, Selecting
<1>4. TypeOK'
  BY <1>1, <1>2 DEF IInv, TypeOK
<1>5. RunOK'
  BY <1>1, <1>2 DEF IInv, RunOK
<1>6. \A d : Fresh(d) => Fresh(d)'
  BY <1>1 DEF Fresh, Offered
<1>7. QueueOK' /\ HandOK'
  BY <1>1, <1>3, <1>6 DEF IInv, QueueOK, HandOK
<1>8. HandledOK' /\ AccountOK'
  BY <1>1, <1>3 DEF IInv, HandledOK, AccountOK, Placed
<1> QED
  BY <1>4, <1>5, <1>7, <1>8 DEF IInv

\* Cancelling the context moves nothing.
LEMMA IdleIInv == IInv /\ (Cancel \/ UNCHANGED vars) => IInv'
<1> SUFFICES ASSUME IInv, Cancel \/ UNCHANGED vars PROVE IInv'
  OBVIOUS
<1>1. UNCHANGED <<conn, reader, buf, requests, closed, pool, arrived, handled>>
  BY DEF Cancel, vars
<1>2. TypeOK'
  BY Zenon DEF IInv, TypeOK, Cancel, vars
<1>3. RunOK' /\ HandledOK' /\ Hands' = Hands
  BY <1>1 DEF IInv, RunOK, HandledOK, Hands
<1>4. \A d : (Fresh(d) => Fresh(d)') /\ (Placed(d) => Placed(d)')
  BY <1>1, <1>3 DEF Fresh, Offered, Placed
<1>5. QueueOK' /\ HandOK' /\ AccountOK'
  BY <1>1, <1>3, <1>4 DEF IInv, QueueOK, HandOK, AccountOK
<1> QED
  BY <1>2, <1>3, <1>5 DEF IInv

\* Run and its workers (server.go) keep the invariant: whatever the order of
\* reads, sends, takes and cancellation, NACKs stay in disjoint places.
THEOREM Invariance == Spec => []IInv
<1>1. IInv /\ [Next]_vars => IInv'
  BY ListenIInv, PollIInv, ReadNackIInv, OfferIInv, TakeIInv, FinishIInv, ExitIInv, IdleIInv
     DEF Next, Read
<1> QED
  BY <1>1, InitIInv, PTL DEF Spec

------------------------------------------------------------------------------
(* What the invariant says of the places, counted *)

\* A set with no two elements and, if need be, at least one.
LEMMA AtMostOne ==
  ASSUME NEW S, \A x, y \in S : x = y
  PROVE  IF S = {} THEN Cardinality(S) = 0 ELSE Cardinality(S) = 1
<1>1. CASE S = {}
  BY <1>1, FS_EmptySet
<1>2. CASE S # {}
  <2>1. PICK x \in S : S = {x}
    BY <1>2
  <2> QED
    BY <1>2, <2>1, FS_Singleton
<1> QED
  BY <1>1, <1>2

\* Disjoint places without repetition, counted, are EachOnce.
LEMMA IInvEachOnce == IInv => EachOnce
<1> SUFFICES ASSUME IInv, NEW d \in 1 .. arrived
             PROVE  LET seen == Cardinality(InQueue(d)) + Cardinality(InHand(d)) + handled[d]
                    IN  IF reader = "offer" /\ d = buf THEN seen = 0
                        ELSE seen <= 1 /\ (~closed => seen = 1)
  BY DEF EachOnce
<1>0. d \in Datagrams /\ handled[d] \in {0, 1}
  BY ServerAssumption DEF IInv, TypeOK, HandledOK, Datagrams
<1>1. InHand(d) = {w \in Hands : pool[w].req = d}
  BY PoolType DEF IInv, InHand, Hands, Busy
<1>2. /\ \A i, j \in InQueue(d) : i = j
      /\ \A w, x \in InHand(d) : w = x
  BY <1>1 DEF IInv, QueueOK, HandOK, InQueue
<1>3. /\ IF InQueue(d) = {} THEN Cardinality(InQueue(d)) = 0 ELSE Cardinality(InQueue(d)) = 1
      /\ IF InHand(d) = {} THEN Cardinality(InHand(d)) = 0 ELSE Cardinality(InHand(d)) = 1
  BY <1>2, AtMostOne
<1>4. InQueue(d) # {} => InHand(d) = {} /\ Fresh(d)
  BY <1>1 DEF IInv, QueueOK, HandOK, InQueue
<1>5. InHand(d) # {} => Fresh(d)
  BY <1>1 DEF IInv, HandOK
<1>6. Fresh(d) => handled[d] = 0 /\ ~(reader = "offer" /\ d = buf)
  BY DEF Fresh, Offered
<1>7. reader = "offer" /\ d = buf => handled[d] = 0
  BY DEF IInv, RunOK
<1>8. ~closed /\ ~(reader = "offer" /\ d = buf) =>
        InQueue(d) # {} \/ InHand(d) # {} \/ handled[d] = 1
  BY <1>1 DEF IInv, AccountOK, Placed, InQueue
<1> QED
  BY <1>0, <1>3, <1>4, <1>5, <1>6, <1>7, <1>8

\* The size of an interval of numbers.
LEMMA UpTo ==
  ASSUME NEW n \in Nat
  PROVE  IsFiniteSet(1 .. n) /\ Cardinality(1 .. n) = n
<1>1. 1 \in Int /\ n \in Int
  OBVIOUS
<1>2. IsFiniteSet(1 .. n) /\ Cardinality(1 .. n) = IF 1 > n THEN 0 ELSE n - 1 + 1
  BY <1>1, FS_Interval, Zenon
<1> QED
  BY <1>2

\* What Run leaves behind is in the channel or in the reader's buffer.
LEMMA IInvShutdownLoss == IInv => ShutdownLoss
<1> DEFINE Unhandled == {d \in 1 .. arrived : handled[d] = 0}
           Queued == {requests[i] : i \in 1 .. Len(requests)}
<1> SUFFICES ASSUME IInv, reader = "returned" PROVE Cardinality(Unhandled) <= Capacity + 1
  BY DEF ShutdownLoss
<1>0. Len(requests) \in Nat /\ Len(requests) <= Capacity /\ Capacity \in Nat
  BY ServerAssumption DEF IInv, TypeOK, RunOK
<1>1. Hands = {}
  BY DEF IInv, RunOK, Hands, Exited
<1>2. Unhandled \subseteq Queued \cup {buf}
  BY <1>1 DEF IInv, AccountOK, Placed
<1>3. IsFiniteSet(Queued) /\ Cardinality(Queued) <= Len(requests) /\ Cardinality(Queued) \in Nat
  <2> DEFINE f == [i \in 1 .. Len(requests) |-> requests[i]]
  <2>1. IsFiniteSet(1 .. Len(requests)) /\ Cardinality(1 .. Len(requests)) = Len(requests)
    BY <1>0, UpTo
  <2>2. f \in Surjection(1 .. Len(requests), Queued)
    BY DEF Surjection
  <2> HIDE DEF f, Queued
  <2>3. IsFiniteSet(Queued) /\ Cardinality(Queued) <= Cardinality(1 .. Len(requests))
    BY <2>1, <2>2, FS_Surjection
  <2> QED
    BY <2>1, <2>3, FS_CardinalityType
<1> HIDE DEF Queued, Unhandled
<1>4. /\ IsFiniteSet(Queued \cup {buf})
      /\ \/ Cardinality(Queued \cup {buf}) = Cardinality(Queued)
         \/ Cardinality(Queued \cup {buf}) = Cardinality(Queued) + 1
  BY <1>3, FS_AddElement, SMTT(30)
<1>5. /\ Cardinality(Unhandled) <= Cardinality(Queued \cup {buf})
      /\ Cardinality(Unhandled) \in Nat
  BY <1>2, <1>4, FS_Subset, FS_CardinalityType
<1> QED
  BY <1>0, <1>3, <1>4, <1>5

------------------------------------------------------------------------------

\* The server's variables keep their types.
THEOREM TypeCorrect == Spec => []TypeOK
<1>1. IInv => TypeOK
  BY DEF IInv
<1> QED
  BY <1>1, Invariance, PTL

\* server.go:103, 143-146: however many workers there are, none ever answers
\* through a socket that Run has closed.
THEOREM SocketOutlivesWorkersHolds == Spec => []SocketOutlivesWorkers
<1>1. IInv => SocketOutlivesWorkers
  BY DEF IInv, RunOK, SocketOutlivesWorkers, Exited
<1> QED
  BY <1>1, Invariance, PTL

\* server.go:140-186: for every pool and every capacity of the channel, a NACK
\* that has been read is in one place or handled once, and none is lost before
\* the shutdown.
THEOREM EachOnceHolds == Spec => []EachOnce
  BY IInvEachOnce, Invariance, PTL

\* server.go:118, 127-136: when Run has returned, at most a channel's worth of
\* NACKs and the one in the reader's hands have gone unhandled.
THEOREM ShutdownLossHolds == Spec => []ShutdownLoss
  BY IInvShutdownLoss, Invariance, PTL

==============================================================================
