------------------------------- MODULE Ingress --------------------------------
(***************************************************************************)
(* ingress.Run as a user of the process's table of file descriptors: the   *)
(* socket it opens, the loop that receives from it, and the goroutine that *)
(* closes it when the context is cancelled while the loop may be anywhere. *)
(* The kernel resolves a descriptor when a system call starts, and gives a *)
(* new file the lowest descriptor that is free.  Other parts of the        *)
(* process (Redis connections, HTTP requests) come and go in that table.   *)
(* What is done with a frame is module Endpoint's.                         *)
(***************************************************************************)
EXTENDS FiniteSetsExt

CONSTANT MaxFd   \* size of the table of descriptors

VARIABLES
  cancelled,   \* ctx.Done() is closed
  ready,       \* Recorder.readyCount
  ingress,     \* where Run is
  fd,          \* its descriptor
  closer,      \* the goroutine that closes it: not there, waiting, done
  fds          \* the table: whose file each descriptor stands for

vars == <<cancelled, ready, ingress, fd, closer, fds>>

Free == {d \in 1 .. MaxFd : fds[d] = "free"}

TypeOK ==
  /\ ingress \in {"open", "join", "call", "recv", "steal", "process", "returned"}
  /\ fd \in 0 .. MaxFd
  /\ closer \in {"none", "waiting", "done"}
  /\ fds \in [1 .. MaxFd -> {"free", "ingress", "other"}]

Init ==
  /\ ingress = "open" /\ fd = 0 /\ closer = "none"
  /\ fds = [d \in 1 .. MaxFd |-> "free"]

CloseFd == fds' = [fds EXCEPT ![fd] = "free"]

\* A socket that cannot be bound is closed again.
openRawSocket ==
  /\ ingress = "open"
  /\ \/ /\ Free # {}
        /\ fd' = Min(Free)
        /\ fds' = [fds EXCEPT ![Min(Free)] = "ingress"]
        /\ ingress' = "join"
     \/ ingress' = "returned" /\ UNCHANGED <<fd, fds>>
  /\ UNCHANGED <<cancelled, ready, closer>>

\* Every group is joined, the worker is ready and the closer started; or the
\* socket is closed and Run returns an error.
Join ==
  /\ ingress = "join"
  /\ \/ /\ ingress' = "call" /\ ready' = ready + 1 /\ closer' = "waiting"
        /\ UNCHANGED fds
     \/ ingress' = "returned" /\ CloseFd /\ UNCHANGED <<ready, closer>>
  /\ UNCHANGED <<cancelled, fd>>

\* A plausible slip: Run closes the socket it opened on its way out as well.
ReturnClosing == ingress' = "returned" /\ ready' = ready - 1 /\ CloseFd

\* A plausible slip: the worker is not signed off.
ReturnReady == ingress' = "returned" /\ UNCHANGED <<ready, fds>>

\* Run returns, and the worker is signed off.
Return == ingress' = "returned" /\ ready' = ready - 1 /\ UNCHANGED fds

\* Recvfrom starts: with the ingress socket, with whatever file the descriptor
\* stands for by now, or with none (EBADF).
Recvfrom ==
  /\ ingress = "call"
  /\ \/ fds[fd] = "ingress" /\ ingress' = "recv" /\ UNCHANGED <<ready, fds>>
     \/ fds[fd] = "other" /\ ingress' = "steal" /\ UNCHANGED <<ready, fds>>
     \/ fds[fd] = "free" /\ Return
  /\ UNCHANGED <<cancelled, fd, closer>>

\* It ends with a frame, or with nothing (EINTR, an empty datagram).
RecvfromYields ==
  /\ ingress \in {"recv", "steal"}
  /\ ingress' \in {"process", "call"}
  /\ UNCHANGED <<cancelled, ready, fd, closer, fds>>

\* It times out, or fails in a way that makes Run look at the context.
RecvfromFails ==
  /\ ingress \in {"recv", "steal"}
  /\ \/ cancelled /\ Return
     \/ ~cancelled /\ ingress' = "call" /\ UNCHANGED <<ready, fds>>
  /\ UNCHANGED <<cancelled, fd, closer>>

\* EINVAL.
RecvfromInvalid ==
  /\ ingress \in {"recv", "steal"}
  /\ Return
  /\ UNCHANGED <<cancelled, fd, closer>>

processFrame ==
  /\ ingress = "process"
  /\ ingress' = "call"
  /\ UNCHANGED <<cancelled, ready, fd, closer, fds>>

\* A plausible slip: it does not wait.
CloseAtOnce ==
  /\ closer = "waiting"
  /\ closer' = "done"
  /\ CloseFd
  /\ UNCHANGED <<cancelled, ready, ingress, fd>>

\* The other goroutine: <-ctx.Done(), and the descriptor is closed.
Close ==
  /\ closer = "waiting" /\ cancelled
  /\ closer' = "done"
  /\ CloseFd
  /\ UNCHANGED <<cancelled, ready, ingress, fd>>

\* Another part of the process opens a file, or closes one of its own.
Other ==
  /\ \/ Free # {} /\ fds' = [fds EXCEPT ![Min(Free)] = "other"]
     \/ \E d \in 1 .. MaxFd : fds[d] = "other" /\ fds' = [fds EXCEPT ![d] = "free"]
  /\ UNCHANGED <<cancelled, ready, ingress, fd, closer>>

Run ==
  \/ openRawSocket \/ Join \/ processFrame
  \/ Recvfrom \/ RecvfromYields \/ RecvfromFails \/ RecvfromInvalid

==============================================================================
