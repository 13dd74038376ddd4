------------------------------ MODULE NackServer ------------------------------
(***************************************************************************)
(* server.Run: the goroutine that reads NACK datagrams from the socket,    *)
(* the bounded channel it passes them on by, the worker pool, and how all  *)
(* of it stops when the context is cancelled.  What a worker does with a   *)
(* request (processNACK) is module Endpoint's; here it is busy, and then   *)
(* done.                                                                   *)
(*                                                                         *)
(* Datagrams are numbered in the order in which they are read.             *)
(***************************************************************************)
EXTENDS Naturals, Sequences, FiniteSets

CONSTANTS
  Workers,      \* worker goroutines (nack-workers)
  Capacity,     \* capacity of the channel requests (100 in the code)
  MaxArrivals   \* bound on the NACK datagrams that arrive

ASSUME ServerAssumption ==
  /\ Capacity \in Nat \ {0}
  /\ MaxArrivals \in Nat

VARIABLES
  cancelled,   \* ctx.Done() is closed
  conn,        \* the socket: unbound, open or closed
  reader,      \* where Run is
  buf,         \* the datagram in the read buffer
  requests,    \* the channel's buffer
  closed,      \* the channel has been closed
  pool,        \* what each worker is doing, and its request
  arrived,     \* number of NACK datagrams read
  handled      \* history: how often each datagram has been handled

vars == <<cancelled, conn, reader, buf, requests, closed, pool, arrived, handled>>

Datagrams == 1 .. MaxArrivals

Selecting == [pc |-> "select", req |-> 0]
Exited == [pc |-> "exited", req |-> 0]
Busy(d) == [pc |-> "busy", req |-> d]

TypeOK ==
  /\ cancelled \in BOOLEAN /\ closed \in BOOLEAN
  /\ conn \in {"unbound", "open", "closed"}
  /\ reader \in {"listen", "select", "read", "offer", "wait", "returned"}
  /\ buf \in Datagrams \cup {0}
  /\ requests \in Seq(Datagrams)
  /\ pool \in [Workers -> {Selecting, Exited} \cup {Busy(d) : d \in Datagrams}]
  /\ arrived \in 0 .. MaxArrivals
  /\ handled \in [Datagrams -> Nat]

Init ==
  /\ cancelled = FALSE /\ closed = FALSE
  /\ conn = "unbound"
  /\ reader = "listen"
  /\ buf = 0
  /\ requests = << >>
  /\ pool = [w \in Workers |-> Exited]
  /\ arrived = 0
  /\ handled = [d \in Datagrams |-> 0]

------------------------------------------------------------------------------
(* The reading goroutine *)

\* ListenPacket succeeds and the workers are started, or Run returns an error.
Listen ==
  /\ reader = "listen"
  /\ \/ /\ conn' = "open" /\ reader' = "select"
        /\ pool' = [w \in Workers |-> Selecting]
     \/ /\ reader' = "returned"
        /\ UNCHANGED <<conn, pool>>
  /\ UNCHANGED <<cancelled, buf, requests, closed, arrived, handled>>

\* close(requests), after which Run waits for the workers.
Shut == closed' = TRUE /\ reader' = "wait"

\* The select at the head of the loop: it reads unless the context is done.
Poll ==
  /\ reader = "select"
  /\ \/ cancelled /\ Shut
     \/ ~cancelled /\ reader' = "read" /\ UNCHANGED closed
  /\ UNCHANGED <<cancelled, conn, buf, requests, pool, arrived, handled>>

\* ReadFrom brings no NACK: its deadline passes, it fails, or the datagram has
\* another size.  After a failure the context is looked at once more.
ReadNothing ==
  /\ reader = "read"
  /\ \/ reader' = "select" /\ UNCHANGED closed
     \/ cancelled /\ Shut
  /\ UNCHANGED <<cancelled, conn, buf, requests, pool, arrived, handled>>

\* ReadFrom fills the buffer with a datagram of the size of a NACK.
ReadNack ==
  /\ reader = "read"
  /\ arrived < MaxArrivals
  /\ arrived' = arrived + 1
  /\ buf' = arrived + 1
  /\ reader' = "offer"
  /\ UNCHANGED <<cancelled, conn, requests, closed, pool, handled>>

\* A plausible slip: the send does not watch the context.
OfferBlindly ==
  /\ reader = "offer"
  /\ Len(requests) < Capacity
  /\ requests' = Append(requests, buf)
  /\ reader' = "select"
  /\ UNCHANGED <<cancelled, conn, buf, closed, pool, arrived, handled>>

\* A copy of the datagram is sent to the channel, which blocks as long as the
\* channel is full; a cancelled context ends the wait, and may also win when
\* there is room.
Offer ==
  /\ reader = "offer"
  /\ \/ /\ Len(requests) < Capacity
        /\ requests' = Append(requests, buf)
        /\ reader' = "select"
        /\ UNCHANGED closed
     \/ cancelled /\ Shut /\ UNCHANGED requests
  /\ UNCHANGED <<cancelled, conn, buf, pool, arrived, handled>>

\* A plausible slip: Run returns without waiting for the workers.
ReturnAtOnce ==
  /\ reader = "wait"
  /\ reader' = "returned"
  /\ conn' = "closed"
  /\ UNCHANGED <<cancelled, buf, requests, closed, pool, arrived, handled>>

\* wg.Wait returns, then Run, which closes the socket.
WaitReturn ==
  /\ reader = "wait"
  /\ \A w \in Workers : pool[w] = Exited
  /\ reader' = "returned"
  /\ conn' = "closed"
  /\ UNCHANGED <<cancelled, buf, requests, closed, pool, arrived, handled>>

------------------------------------------------------------------------------
(* The workers *)

\* A plausible slip: requests share the read buffer.
TakeFromBuffer(w) ==
  /\ pool[w] = Selecting
  /\ requests # << >>
  /\ pool' = [pool EXCEPT ![w] = Busy(buf)]
  /\ requests' = Tail(requests)
  /\ UNCHANGED <<cancelled, conn, reader, buf, closed, arrived, handled>>

\* The select takes a request, which it may also do when the context is done,
\* and when the channel has been closed and still holds some.
Take(w) ==
  /\ pool[w] = Selecting
  /\ requests # << >>
  /\ pool' = [pool EXCEPT ![w] = Busy(Head(requests))]
  /\ requests' = Tail(requests)
  /\ UNCHANGED <<cancelled, conn, reader, buf, closed, arrived, handled>>

\* A plausible slip: the worker does not loop.
FinishAndExit(w) ==
  /\ pool[w].pc = "busy"
  /\ handled' = [handled EXCEPT ![pool[w].req] = @ + 1]
  /\ pool' = [pool EXCEPT ![w] = Exited]
  /\ UNCHANGED <<cancelled, conn, reader, buf, requests, closed, arrived>>

\* A plausible slip: the handler gives up once the context is done.
FinishUnlessCancelled(w) ==
  /\ pool[w].pc = "busy"
  /\ handled' = IF cancelled THEN handled ELSE [handled EXCEPT ![pool[w].req] = @ + 1]
  /\ pool' = [pool EXCEPT ![w] = Selecting]
  /\ UNCHANGED <<cancelled, conn, reader, buf, requests, closed, arrived>>

\* A plausible slip: the worker holds on to a request it is done with.
FinishStale(w) ==
  /\ pool[w].pc = "busy"
  /\ handled' = [handled EXCEPT ![pool[w].req] = @ + 1]
  /\ pool' = [pool EXCEPT ![w].pc = "select"]
  /\ UNCHANGED <<cancelled, conn, reader, buf, requests, closed, arrived>>

\* processNACK returns.
Finish(w) ==
  /\ pool[w].pc = "busy"
  /\ handled' = [handled EXCEPT ![pool[w].req] = @ + 1]
  /\ pool' = [pool EXCEPT ![w] = Selecting]
  /\ UNCHANGED <<cancelled, conn, reader, buf, requests, closed, arrived>>

\* The select finds the context done, or the channel closed and empty.
Exit(w) ==
  /\ pool[w] = Selecting
  /\ cancelled \/ (closed /\ requests = << >>)
  /\ pool' = [pool EXCEPT ![w] = Exited]
  /\ UNCHANGED <<cancelled, conn, reader, buf, requests, closed, arrived, handled>>

------------------------------------------------------------------------------

\* main cancels the context.
Cancel ==
  /\ ~cancelled
  /\ cancelled' = TRUE
  /\ UNCHANGED <<conn, reader, buf, requests, closed, pool, arrived, handled>>

Read == Poll \/ ReadNothing \/ ReadNack \/ Offer \/ WaitReturn

Next ==
  \/ Listen \/ Cancel \/ Read
  \/ \E w \in Workers : Take(w) \/ Finish(w) \/ Exit(w)

Spec == Init /\ [][Next]_vars

\* Goroutines run: ReadFrom has a deadline of 100 ms, so that the reader never
\* stops but on a full channel; processNACK returns (Endpoint!WorkersFinish).
Fairness ==
  /\ WF_vars(Listen) /\ WF_vars(Read)
  /\ \A w \in Workers : WF_vars(Take(w)) /\ WF_vars(Finish(w)) /\ WF_vars(Exit(w))

FairSpec == Spec /\ Fairness

------------------------------------------------------------------------------
(* Properties *)

\* server.go:103, 143-146: the socket is open as long as a worker may answer a
\* listener through it; Run closes it when every worker has gone.
SocketOutlivesWorkers ==
  \A w \in Workers : pool[w].pc = "busy" => conn = "open"

InQueue(d) == {i \in 1 .. Len(requests) : requests[i] = d}
InHand(d) == {w \in Workers : pool[w] = Busy(d)}

\* server.go:173-178: every NACK that has been read is in exactly one place, or
\* has been handled exactly once, until Run gives up; none is handled twice
\* and none is overwritten by the next one read into the buffer.
EachOnce ==
  \A d \in 1 .. arrived :
    LET seen == Cardinality(InQueue(d)) + Cardinality(InHand(d)) + handled[d]
    IN  IF reader = "offer" /\ d = buf THEN seen = 0
        ELSE seen <= 1 /\ (~closed => seen = 1)

\* server.go:118, 127-136: a shutdown loses the NACKs in the channel and the
\* one in the reader's hands, and no more: what a worker has taken it handles.
ShutdownLoss ==
  reader = "returned" =>
    Cardinality({d \in 1 .. arrived : handled[d] = 0}) <= Capacity + 1

\* server.go:140-186: once the context is cancelled Run returns, also when the
\* channel is full and when workers are busy.
Stops == cancelled ~> reader = "returned"

\* server.go:117-138: a NACK that has entered the channel is handled, unless
\* the endpoint is shut down.
Served ==
  \A d \in Datagrams : (InQueue(d) # {}) ~> (handled[d] > 0 \/ cancelled)

==============================================================================
