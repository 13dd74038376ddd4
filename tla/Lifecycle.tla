------------------------------ MODULE Lifecycle -------------------------------
(***************************************************************************)
(* The process: main.run builds the parts of the endpoint one after the    *)
(* other, starts their goroutines, waits for a signal, and takes all of it *)
(* down again; an error on the way unwinds what has been deferred so far.  *)
(* The NACK server, ingress and the beacon are those of their own modules, *)
(* here side by side in one process, with the cache-size sampler, the      *)
(* metrics server and its /readyz.                                         *)
(*                                                                         *)
(* Before signal.Notify (main.go:309) a signal ends the process at once;   *)
(* that, like a crash, takes everything with it and is left out.           *)
(***************************************************************************)
EXTENDS Config, FiniteSets

CONSTANTS
  Flags, Envs,    \* command lines and environments, as partial functions
  Addrs,          \* global-unicast addresses the egress interface may have
  Workers, Capacity, MaxArrivals,   \* of NackServer
  MaxFd                             \* of Ingress

ASSUME LifecycleAssumption ==
  /\ Capacity \in Nat \ {0} /\ MaxArrivals \in Nat /\ MaxFd \in Nat
  /\ \A values \in Flags \cup Envs : Readable(values)

VARIABLES
  settings,    \* the configuration
  pc,          \* where run is
  defers,      \* its deferred calls
  resource,    \* cache, Redis for dedup, egress sockets: not there, open, closed
  started,     \* the goroutines run has started: those the WaitGroup counts
  cancelled, done,   \* ctx and the channel done are closed
  draining, ready,   \* of the metrics recorder
  bound,       \* the address the NACK socket is bound to
  nackIP,      \* the address that is advertised
  http, sampler,                                                  \* goroutines
  conn, reader, buf, requests, closed, pool, arrived, handled,    \* NackServer
  ingress, fd, closer, fds,                                       \* Ingress
  beacon, conns, adverts                                          \* Beacon

Server == INSTANCE NackServer
Ingress == INSTANCE Ingress
Beacon == INSTANCE Beacon

runVars == <<pc, defers, resource, started, cancelled, done, draining, bound, nackIP>>
metricsVars == <<http, sampler>>
serverVars == <<conn, reader, buf, requests, closed, pool, arrived, handled>>
ingressVars == <<ingress, fd, closer, fds>>
beaconVars == <<beacon, conns, adverts>>

vars == <<settings, runVars, ready, metricsVars, serverVars, ingressVars, beaconVars>>

Resources == {"cache", "dedup", "egress"}
Goroutines == {"metrics", "sampler", "ingress", "server", "beacon"}

TypeOK ==
  /\ pc \in {"load", "cache", "dedup", "resolve", "retrans", "bind", "start", "beacon",
             "signal", "drain", "cancel", "done", "wait", "flush", "unwind", "exited"}
  /\ defers \in Seq(Resources \cup {"cancel"})
  /\ resource \in [Resources -> {"none", "open", "closed"}]
  /\ started \in SUBSET Goroutines
  /\ cancelled \in BOOLEAN /\ done \in BOOLEAN /\ draining \in BOOLEAN
  /\ ready \in Nat
  /\ {bound, nackIP} \subseteq Addrs \cup {Empty, settings.nackAddr}
  /\ http \in {"serving", "returned"}
  /\ sampler \in {"select", "sample", "returned"}
  /\ Server!TypeOK /\ Ingress!TypeOK

Init ==
  /\ \E f \in Flags, e \in Envs : settings = Settings(f, e)
  /\ pc = "load" /\ defers = << >> /\ started = {}
  /\ resource = [r \in Resources |-> "none"]
  /\ done = FALSE /\ draining = FALSE /\ ready = 0
  /\ bound = Empty /\ nackIP = Empty
  /\ http = "serving" /\ sampler = "select"
  /\ Server!Init /\ Ingress!Init /\ Beacon!Init

------------------------------------------------------------------------------
(* run, up to its last goroutine *)

\* An error: run returns it, and the deferred calls are made.
Fail == pc' = "unwind" /\ UNCHANGED <<defers, resource>>

Acquire(r, next) ==
  /\ resource' = [resource EXCEPT ![r] = "open"]
  /\ defers' = Append(defers, r)
  /\ pc' = next

\* config.Load, and metrics.New, which may fail.
Load ==
  /\ pc = "load"
  /\ \/ Valid(settings) /\ pc' = "cache" /\ UNCHANGED <<defers, resource>>
     \/ Fail
  /\ UNCHANGED <<started, cancelled, done, draining, bound, nackIP>>

\* Redis must have an address and answer.
OpenCache ==
  /\ pc = "cache"
  /\ \/ /\ settings.backend = "memory" \/ settings.redisAddr # Empty
        /\ Acquire("cache", "dedup")
     \/ settings.backend = "redis" /\ Fail
  /\ UNCHANGED <<started, cancelled, done, draining, bound, nackIP>>

\* Redis for the dedup gate only; the endpoint also runs without it.
OpenDedup ==
  /\ pc = "dedup"
  /\ \/ settings.backend = "memory" /\ settings.redisAddr # Empty /\ Acquire("dedup", "resolve")
     \/ pc' = "resolve" /\ UNCHANGED <<defers, resource>>
  /\ UNCHANGED <<started, cancelled, done, draining, bound, nackIP>>

\* net.InterfaceByName, for ingress and again for egress.
Resolve ==
  /\ pc = "resolve"
  /\ \/ settings.mcIface \in Interfaces /\ pc' = "retrans" /\ UNCHANGED <<defers, resource>>
     \/ Fail
  /\ UNCHANGED <<started, cancelled, done, draining, bound, nackIP>>

OpenRetrans ==
  /\ pc = "retrans"
  /\ Acquire("egress", "bind") \/ Fail
  /\ UNCHANGED <<started, cancelled, done, draining, bound, nackIP>>

\* The configured address, or the one the interface happens to have.
pickBeaconNACKAddr == IF settings.nackAddr # Empty THEN {settings.nackAddr} ELSE Addrs

\* The address to bind to, the server, ingress and the context.
Bind ==
  /\ pc = "bind"
  /\ \/ /\ bound' \in pickBeaconNACKAddr
        /\ defers' = Append(defers, "cancel")
        /\ pc' = "start"
        /\ UNCHANGED resource
     \/ settings.nackAddr = Empty /\ Fail /\ UNCHANGED bound
  /\ UNCHANGED <<started, cancelled, done, draining, nackIP>>

\* The goroutines in the order they are started; only the in-memory cache has a
\* size to sample.
StartOrder ==
  IF settings.backend = "memory" THEN <<"metrics", "sampler", "ingress", "server">>
  ELSE <<"metrics", "ingress", "server">>

Start ==
  /\ pc = "start"
  /\ LET n == Cardinality(started) + 1
     IN  /\ started' = started \cup {StartOrder[n]}
         /\ pc' = IF n = Len(StartOrder) THEN "beacon" ELSE "start"
  /\ UNCHANGED <<defers, resource, cancelled, done, draining, bound, nackIP>>

\* The address is picked once more, and an error leaves run by a return.
StartBeacon ==
  /\ pc = "beacon"
  /\ \/ /\ ~settings.beacon /\ pc' = "signal"
        /\ UNCHANGED <<defers, resource, started, nackIP>>
     \/ /\ settings.beacon
        /\ nackIP' \in pickBeaconNACKAddr
        /\ started' = started \cup {"beacon"}
        /\ pc' = "signal"
        /\ UNCHANGED <<defers, resource>>
     \/ /\ settings.beacon /\ settings.nackAddr = Empty
        /\ Fail
        /\ UNCHANGED <<started, nackIP>>
  /\ UNCHANGED <<cancelled, done, draining, bound>>

Startup ==
  \/ Load \/ OpenCache \/ OpenDedup \/ Resolve \/ OpenRetrans \/ Bind
  \/ Start \/ StartBeacon

------------------------------------------------------------------------------
(* run, from the signal to its end *)

\* The signal arrives.
Signal ==
  /\ pc = "signal"
  /\ draining' = (settings.drain > 0)
  /\ pc' = IF settings.drain > 0 THEN "drain" ELSE "cancel"
  /\ UNCHANGED <<defers, resource, started, cancelled, done, bound, nackIP>>

\* time.Sleep returns.
Drained ==
  /\ pc = "drain" /\ pc' = "cancel"
  /\ UNCHANGED <<defers, resource, started, cancelled, done, draining, bound, nackIP>>

Cancel ==
  /\ pc = "cancel" /\ pc' = "done"
  /\ cancelled' = TRUE
  /\ UNCHANGED <<defers, resource, started, done, draining, bound, nackIP>>

\* A plausible slip: the channel done is forgotten.
ForgetDone ==
  /\ pc = "done" /\ pc' = "wait"
  /\ UNCHANGED <<defers, resource, started, cancelled, done, draining, bound, nackIP>>

CloseDone ==
  /\ pc = "done" /\ pc' = "wait"
  /\ done' = TRUE
  /\ UNCHANGED <<defers, resource, started, cancelled, draining, bound, nackIP>>

Returned ==
  {g \in Goroutines :
     \/ g = "metrics" /\ http = "returned"
     \/ g = "sampler" /\ sampler = "returned"
     \/ g = "ingress" /\ ingress = "returned"
     \/ g = "server" /\ reader = "returned"
     \/ g = "beacon" /\ beacon = "returned"}

\* A plausible slip: the server's goroutine is not added to the WaitGroup.
WaitForSome ==
  /\ pc = "wait" /\ started \ {"server"} \subseteq Returned
  /\ pc' = "flush"
  /\ UNCHANGED <<defers, resource, started, cancelled, done, draining, bound, nackIP>>

\* wg.Wait returns.
Wait ==
  /\ pc = "wait" /\ started \subseteq Returned
  /\ pc' = "flush"
  /\ UNCHANGED <<defers, resource, started, cancelled, done, draining, bound, nackIP>>

\* rec.Shutdown, which has a timeout, and run returns.
Flush ==
  /\ pc = "flush" /\ pc' = "unwind"
  /\ UNCHANGED <<defers, resource, started, cancelled, done, draining, bound, nackIP>>

\* The deferred calls, the last one first; then the process ends.
Unwind ==
  /\ pc = "unwind"
  /\ IF defers = << >>
     THEN pc' = "exited" /\ UNCHANGED <<defers, resource, cancelled>>
     ELSE LET d == defers[Len(defers)]
          IN  /\ defers' = SubSeq(defers, 1, Len(defers) - 1)
              /\ resource' = [r \in Resources |-> IF r = d THEN "closed" ELSE resource[r]]
              /\ cancelled' = (cancelled \/ d = "cancel")
              /\ UNCHANGED pc
  /\ UNCHANGED <<started, done, draining, bound, nackIP>>

Shutdown == Drained \/ Cancel \/ CloseDone \/ Wait \/ Flush \/ Unwind

------------------------------------------------------------------------------
(* The goroutines, as long as there is a process *)

Running(g) == g \in started /\ pc # "exited"

\* Serve shuts the HTTP server down, which has a timeout, and returns.
ServeMetrics ==
  /\ http = "serving" /\ done
  /\ http' = "returned"
  /\ UNCHANGED sampler

SampleTick ==
  /\ sampler = "select" /\ sampler' = "sample"
  /\ UNCHANGED http

\* rec.CacheSize(sizer.Len()).
Sample ==
  /\ sampler = "sample" /\ sampler' = "select"
  /\ UNCHANGED http

SamplerReturns ==
  /\ sampler = "select" /\ cancelled
  /\ sampler' = "returned"
  /\ UNCHANGED http

\* A plausible slip: a server that cannot listen is signed off all the same.
ListenSignedOff ==
  /\ Server!Listen
  /\ ready' = IF conn' = "open" THEN ready + 1 ELSE ready - 1

\* The server signs on as a ready worker right after it has its socket, and off
\* right before it closes it (server.go:99-109): here it does both at once.
Listen ==
  /\ Server!Listen
  /\ ready' = IF conn' = "open" THEN ready + 1 ELSE ready

\* A plausible slip: the goroutine runs the server in a loop.
ServerRestarts ==
  /\ reader = "wait" /\ \A w \in Workers : pool[w] = Server!Exited
  /\ reader' = "listen" /\ conn' = "closed"
  /\ ready' = ready - 1
  /\ UNCHANGED <<buf, requests, closed, pool, arrived, handled>>

ServerReturns ==
  /\ Server!WaitReturn
  /\ ready' = ready - 1

Read ==
  /\ Server!Poll \/ Server!ReadNothing \/ Server!ReadNack \/ Server!Offer
  /\ UNCHANGED ready

Work(w) ==
  /\ Server!Take(w) \/ Server!Finish(w) \/ Server!Exit(w)
  /\ UNCHANGED ready

Serve == Listen \/ Read \/ ServerReturns \/ \E w \in Workers : Work(w)

------------------------------------------------------------------------------

NextRun ==
  /\ Startup \/ Signal \/ Shutdown
  /\ UNCHANGED <<settings, ready, metricsVars, serverVars, ingressVars, beaconVars>>

NextMetrics ==
  /\ \/ Running("metrics") /\ ServeMetrics
     \/ Running("sampler") /\ (SampleTick \/ Sample \/ SamplerReturns)
  /\ UNCHANGED <<settings, runVars, ready, serverVars, ingressVars, beaconVars>>

NextServer ==
  /\ Running("server") /\ Serve
  /\ UNCHANGED <<settings, runVars, metricsVars, ingressVars, beaconVars>>

\* Recvfrom, and the goroutine that closes the socket, which nobody waits for;
\* other parts of the process use descriptors while it runs.
NextIngress ==
  /\ Running("ingress") /\ (Ingress!Run \/ Ingress!Close \/ Ingress!Other)
  /\ UNCHANGED <<settings, runVars, metricsVars, serverVars, beaconVars>>

NextBeacon ==
  /\ Running("beacon") /\ Beacon!Run
  /\ UNCHANGED <<settings, runVars, ready, metricsVars, serverVars, ingressVars>>

Next == NextRun \/ NextMetrics \/ NextServer \/ NextIngress \/ NextBeacon

Spec == Init /\ [][Next]_vars

\* Goroutines run; sleeps, timeouts and the writes to sockets end.  A select
\* between a tick and the cancelled context does not take ticks for ever, since
\* they are seconds apart; nor does a foreign socket bring a datagram whenever
\* ingress asks it for one.  Signals need never come.
Fairness ==
  /\ WF_vars(NextRun /\ Startup) /\ WF_vars(NextRun /\ Shutdown)
  /\ WF_vars(NextMetrics /\ ServeMetrics) /\ WF_vars(NextMetrics /\ Sample)
  /\ SF_vars(NextMetrics /\ SamplerReturns)
  /\ WF_vars(NextServer /\ (Listen \/ Read \/ ServerReturns))
  /\ \A w \in Workers : WF_vars(NextServer /\ Work(w))
  /\ WF_vars(NextIngress /\ Ingress!Run) /\ WF_vars(NextIngress /\ Ingress!Close)
  /\ SF_vars(NextIngress /\ ingress = "steal" /\ Ingress!RecvfromFails)
  /\ WF_vars(NextBeacon) /\ SF_vars(NextBeacon /\ beacon' = "returned")

FairSpec == Spec /\ Fairness

------------------------------------------------------------------------------
(* Properties *)

Busy == \E w \in Workers : pool[w].pc = "busy"

\* A goroutine is in the middle of using the resource.
InUse(r) ==
  \/ Busy
  \/ r = "cache" /\ (ingress = "process" \/ sampler = "sample")

\* main.go:134, 143, 192, 214, 319-321: what has been opened is closed when no
\* goroutine uses it any more; only an error of the beacon's address leaves run
\* without waiting, and then the context is cancelled before anything is closed.
ResourcesOutliveUsers ==
  \A r \in Resources :
    InUse(r) =>
      \/ resource[r] = "open"
      \/ resource[r] = "none" /\ r = "dedup"
      \/ cancelled /\ ~done

\* main.go:253-259, server.go:94-186: the server inside the process behaves as
\* the server on its own does: it is started once and cancelled at most once, and
\* nothing else in the process touches its socket, its channel or its workers.
ImplementsServer == Server!Spec

\* ingress.go:104-107: Run closes the descriptor it opened, once, and never
\* one that by then stands for a file of somebody else.
OwnDescriptorOnly ==
  [][(ingress' # ingress \/ closer' # closer) =>
       \A d \in 1 .. MaxFd : fds[d] = "other" => fds'[d] = "other"]_vars

\* ingress.go:104-111: before the shutdown ingress receives from its own socket
\* only; afterwards the descriptor may have been closed and reused under it.
ForeignOnlyAtShutdown == ingress = "steal" => cancelled

\* The components that are up.
Serving ==
  {c \in {"ingress", "server"} :
     \/ c = "ingress" /\ ingress \notin {"open", "join", "returned"}
     \/ c = "server" /\ conn = "open"}

\* metrics.go:315-331, with NumWorkers = 1 (config.go:234).
handleReadyz == ~draining /\ ready >= 1

\* metrics.go:270-276, 315-331: the ready count is that of the components that are
\* up: one that failed to start or has stopped is not counted, whichever way it
\* went, and none is counted twice.  So /readyz never answers 200 with nothing
\* up.  (With one of the two up it does, since it compares the count with 1.)
ReadyCountsServing ==
  /\ ready = Cardinality(Serving)
  /\ Serving = {} => ~handleReadyz

\* configuration.md:246-250, beacon.go:162, config.go:275: three times the interval
\* an ADVERT carries is no less than the time to the next one, up to the width
\* of the field.
AdvertOutlivesInterval ==
  \A a \in adverts : settings.interval < 65536000 => 3000 * a.interval >= settings.interval

ControlGroups == {CtrlGroupControl, CtrlGroupBeacon, CtrlGroupSubtreeAnnounce}

\* config.go:205-211, main.go:331-350: with the settings Load accepts, the groups
\* ingress joins are control groups and the shards, of which none is a control
\* group, the beacon's included, at the same time.
ShardsApart ==
  pc = "cache" => buildGroups(settings) \ ControlGroups = 0 .. NumGroups(settings) - 1

\* config.go:333-351: digits without 0x are read as the decimal number they are,
\* or refused; a decimal number that is too large is never taken for a
\* hexadecimal one.
GroupIDNotMisread ==
  LET g == settings.groupID
  IN  pc = "cache" /\ ~g.prefixed /\ (\A i \in DOMAIN g.digits : g.digits[i] <= 9)
        => parseGroupID(g) = {Value(g.digits, 10)}

\* main.go:308-328: once the signal has come, or run has failed, the process
\* ends, wherever its goroutines are.
ShutsDown == (pc \in {"drain", "cancel", "unwind"}) ~> (pc = "exited")

==============================================================================
