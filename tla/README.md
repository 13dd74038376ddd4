# TLA+ model of the retry endpoint

This directory holds a formal model of the retry endpoint: TLA+ modules
translated from the Go source, TLC configurations that check them on small
instances, and TLAPS proofs that hold for every instance. `PROJECT.json` maps
each definition to the lines it models.

## The system

A retry endpoint listens to the multicast frames of a network, caches them, and
multicasts a cached frame again when a listener reports a gap with a NACK.

| Part | Source | State | Operations | Modelled by |
|---|---|---|---|---|
| Ingress | `ingress/` | receive buffer, raw socket | receive, decode, store; open, join, close | `Endpoint` (frames), `Ingress` (socket) |
| Cache interface | `cache/cache.go` | map with deadlines | Store, Retrieve, Delete | `CacheInterface`, `FrameCache` |
| In-memory cache | `cache/memory/` | map, sweeper goroutine | the same, eviction, sweep, Close | `MemoryCache` |
| Redis cache | `cache/redis/` | keys in Redis | Set, Get, SetNX, Ping, Close | `Endpoint`, `Lifecycle` (as used) |
| NACK server | `server/` `Run` | socket, channel, pool | listen, read, queue, take, stop | `NackServer` |
| NACK handler | `server/` `processNACK` | one NACK per worker | validate, limit, look up, send, respond | `Endpoint` |
| Retransmitter | `retransmit/` | mutex, egress sockets, dedup keys | claim, derive group, write | `Endpoint`; open and close in `Lifecycle` |
| Sliding windows | `ratelimit/` | timestamps per key | Allow | `SlidingWindow` |
| Token buckets | `ratelimit/` | buckets per key | Allow | `TokenBucket` |
| Tiers | `ratelimit/`, `server/` | the four limiters | New, Allow, AllowChain, AllowGroup | `RateLimit` |
| Beacon | `beacon/` | sockets, ticker | dial, send an ADVERT, stop | `Beacon` |
| Readiness | `metrics/` | ready count, draining | sign on and off, /readyz, Serve | `Lifecycle` |
| Lifecycle | `main.go` | context, wait group, deferred calls | start, drain, cancel, wait, unwind | `Lifecycle` |
| Configuration | `config/` | none | precedence, validation, derived settings | `Config` |

How they interact: one ingress goroutine stores frames under HashKey and SeqNum.
One goroutine reads NACKs and hands them to a pool of workers over a channel of
capacity 100. A worker asks the rate limiter, looks the frame up, asks the group
tier, passes the dedup gate (SET NX in a Redis that instances share), takes the
retransmitter's mutex, writes the frame to every egress interface and answers
the listener with an ACK; a miss is answered with a MISS. `main.run` opens the
resources one after the other, starts the goroutines, waits for a signal and takes
everything down in the reverse order. Several instances run side by side.

What makes it hard: workers of several processes race for one frame; calls to
Redis fail before or after they took effect; a process dies between its claim
and its sends; the receive buffer is overwritten while workers read slices of
it; the limiters read the clock before they take their mutex, and requests
overtake each other between tiers; the cache expires, evicts and sweeps under its
readers; a shutdown finds the channel full, the workers busy and a descriptor
closed under a system call. `PROJECT.json` lists each of these hazards at its line.

## Modules

| Module | Models |
|---|---|
| `CacheInterface` | operators on a map with deadlines, and what a Retrieve may answer |
| `FrameCache` | what a cache promises: an answer is nil or the last value stored, before its deadline |
| `MemoryCache` | `cache/memory`, shown to implement `FrameCache` |
| `SlidingWindow` | `slidingWindowLimiter` and `sequenceLimiter`, which differ in the type of the key only |
| `TokenBucket` | `tokenBucketLimiter` over the bucket of `golang.org/x/time/rate` |
| `RateLimit` | the four tiers as `processNACK` uses them: two instances of each limiter |
| `NackServer` | `server.Run` |
| `Endpoint` | ingress, `processNACK`, `Retransmit`, in one or more instances |
| `Ingress` | `ingress.Run` as a user of file descriptors |
| `Config` | `config.Load`, `buildGroups`, `beaconGroups` as operators |
| `Beacon` | `beacon.Run` |
| `Lifecycle` | `main.run` with `NackServer`, `Ingress` and `Beacon` as its goroutines |
| `MCEndpoint`, `MCRateLimit`, `MCLifecycle` | the frames, limits and settings of the small instances |
| `MemoryCacheProofs`, `NackServerProofs` | theorems about the module of that name |
| `LimiterProofs` | theorems about `SlidingWindow` and `TokenBucket` |
| `EndpointProofs`, `EndpointRedisProofs` | theorems about `Endpoint`, under either backend and under Redis |
| `RateLimitProofs`, `RateLimitBounds` | theorems about `RateLimit`: that the tiers are used as specified, and the bounds that follow |
| `LifecycleProofs` | theorems about `Lifecycle` and, through it, `Config`, `Ingress` and `Beacon` |

**CacheInterface and FrameCache.** A cache is a function from keys to entries or
Nil. A backend may forget an entry whenever it likes, so nil is always an
answer; a value is one only up to its deadline (`Live`, from
`time.Now().After(e.expires)`).

**MemoryCache.** `Evicted` is the map after the eviction loop: at the limit any
one key may go, because the order of a Go map iteration is unspecified, and it
goes also when the stored key is already there, so that an overwrite may cost another
key its entry. `NoNeedlessLoss` allows that: it says that a Store costs at most one
live entry, and none below the limit. `GCTick`, `sweepExpired` and
`StopGC` are the cases of the sweeping goroutine, `Close` the blocked sender.
`last` is history (the entry the last Store made), and the refinement mapping
into `FrameCache` (`Interface`) is the identity on `clock`, `last` and `reply`.

**SlidingWindow.** `Allow` is two actions, because `time.Now()` comes before
`Lock`: `Sample`, and `Decide` with the pruning and the decision. Timestamps are
records that carry, as history, when the admission really happened.

**TokenBucket.** A call is one action, `Grant` or `Refuse`: the map's lock covers
only the making of a limiter, which is idempotent, and the limiter of
`golang.org/x/time/rate` (external) reads the clock next to its own lock. Callers
that overtake each other between the two gain the rate times that moment; that this
never makes a token is an assumption of the model. The library keeps tokens as of the last use and
adds what elapsed time is worth; the model does the same in whole tokens and ticks.
`granted` is history: how many calls of a key were allowed at or after each time.

**RateLimit.** A request is source, HashKey, SeqNum and group, and is at one place:
before a tier, in a sliding window's `Allow` with its clock reading (`sequenceLock`,
`chainLock`), at the lookup, or at its outcome. Each action is the step of one
tier, taken from that tier's module by INSTANCE, together with the way the request
goes. The operators before the ASSUME are `ratelimit.New`: defaults, aliases, and
the truncation of the chain rate (rates are in thousandths). The lookup may find
the frame or not.

**NackServer.** `reader` is where `Run` is: before ListenPacket, in its first
select, in `ReadFrom`, in the send to the channel, in `wg.Wait`, or returned. A
select with several ready cases may take any. Workers are in their select, busy or
gone.

**Endpoint.** A frame is the four fields the code reads: version, HashKey,
SeqNum, TxID. The four `process...Frame` functions of ingress treat their frames
alike and are one action, `processFrame`. A worker's program counter is the next
thing processNACK does that another goroutine can interleave with: `lookup`,
`group` (the tier after the lookup), `dedup`, `lock`, `send`. `EnterGate` and
`Suppressed` are the two ways out of the dedup gate; a SetNX that fails may or
may not have set the key. `WriteTo` is one write; the last one also releases the
mutex and responds, as the code does before anyone else can tell.
`stored`, `sent`, `answered` and `lost` are history; `lost` has the SeqNums of
claims that came to nothing, by a SetNX whose reply was lost, a failed write or a
crash. The answer of the rate limiter is a free choice (`Discard`, `Accept`, and the
throttled branch of `AllowGroup`).

Under Redis the cache holds copies. The in-memory cache keeps the slice it is
given, which is a slice of the receive buffer, so `Bytes` is then whatever the
buffer holds: while `Recvfrom` is writing (a data race) each field may be the old
or the new one.

**Lifecycle, Ingress, Beacon, Config.** `pc` is the next statement of `run` that can
fail or that another goroutine can see; `defers` is the stack of deferred calls, and
an early return goes to `unwind`, which makes them in reverse. A goroutine is a set
of actions that are enabled once it has been started and until the process has
exited; those of the server, of ingress and of the beacon are the actions of their
modules, with the ready count added where the code signs on and off (for the server
in one step with the opening and the closing of its socket, which are the statements
next to it; in between /readyz may for a moment count one less than are up). The raw socket
of ingress is not known to Go's poller: `Recvfrom` uses a number, a second goroutine
closes it when the context is cancelled, and `fds` is the kernel's table, in which
the rest of the process opens and closes files. `Init` chooses flags and environment;
`Settings` is their precedence, `Valid` the checks of `Load` and `parseGroupID` the
parsing of a group ID, on sequences of digits.

External and modelled from its use: `frame.Decode*` (`Decodes`), the shard
engine (`GroupIndex`), the record `Frame`, the arithmetic of the token bucket, the
control-group indexes of package shard, and the kernel's table of descriptors.

## Runs

| Run | Bounds | Shows |
|---|---|---|
| `sliding_window` | 2 callers, 2 keys, Max 1, Window 2, 4 ticks, 2 calls each | `StampBound`, `CommitBound`, `SelfHeals` |
| `sliding_window_memory` | the same, fair | violated: `QuietEntriesReleased` |
| `rate_limit` | 2 workers, 1 source, stamped and unstamped, 2 SeqNums, limits of 1 and 2, 2 ticks, 3 requests | `SourceBound`, `GapBound`, `FlowBound`, `RetransmitBound`: what a source, a gap, a flow, a group get in any stretch of time; `BucketsExact`; `ChargesMatch`: what each tier was charged |
| `rate_limit_order` | the same | violated: `RefusedByChainIsFree` |
| `memory_cache` | 3 keys, 2 values, limit 2, TTL 1, 3 ticks, fair | `WithinLimit`, `NoNeedlessLoss`, `ImplementsCache`, `CloseReturns` |
| `nack_server` | 2 workers, capacity 2, 5 NACKs, fair | `SocketOutlivesWorkers`, `EachOnce`, `ShutdownLoss`, `Stops`, `Served` |
| `endpoint_redis` | 2 instances, 2 interfaces, 2 NACKs, 2 frames, all faults | what is sent (`SentIsRequested`), how often (`OncePerWindow`), what an ACK means (`AckMeansEverywhere`, `AckIsHonest`, `SuppressedUnlessLost`) |
| `endpoint_memory` | 1 instance without Redis, 2 workers, 2 NACKs, 2 frames, crashes and egress errors, fair | `AckIsHonest`, `WorkersFinish` |
| `lifecycle` | 1 worker, 1 NACK, 1 descriptor; memory and Redis, drain or not, beacon or not; group IDs up to 5 digits and other settings at their edges; any step of the start fails; fair | see below |
| `endpoint_aliasing`, `endpoint_flows`, `endpoint_redis_down` | as small as shows it | violated, see below |

`lifecycle` checks that resources are closed after their last use
(`ResourcesOutliveUsers`, but for one early return, see below), that the ready count
is that of the components that are up, so that /readyz never answers 200 with none
(`ReadyCountsServing`), that the
server in the process does nothing that `NackServer` does not (`ImplementsServer`), that
ingress closes no file but its own (`OwnDescriptorOnly`) and reads from another one
only during a shutdown (`ForeignOnlyAtShutdown`), that an endpoint that is up is
not evicted by listeners for the interval it advertises (`AdvertOutlivesInterval`, for
intervals that fit the field), that with the settings `Load` accepts no shard has the
index of a control group (`ShardsApart`) and no decimal group ID is taken for a
hexadecimal one (`GroupIDNotMisread`), and
that the process ends (`ShutsDown`).

Why these bounds are enough to meet the interesting cases. A limiter shows its
worst with two callers, of which one samples early and decides late, and a clock
that outlasts the window twice. Three requests at limits of one and two fill each
tier and leave one to be refused there, by either worker, and two ticks empty the
windows and refill the group's bucket. The cache has one key more than its limit,
and time for an entry to expire and be stored again. Five NACKs fill a channel of
two, two workers and the reader's hand. Two instances with one NACK each race at
the gate, and the clock passes both the TTL and the dedup window. One descriptor is
reused as soon as it is closed, so the table needs no second one for ingress to meet
somebody else's file; one NACK and one worker are enough for a use of the cache
during every step of a shutdown, since `nack_server` has the larger pool and
`ImplementsServer` connects the two. The settings at the edges come with an ingress
interface that does not exist, so that the process ends soon after Load. Where
deadlock is not checked, the system (a server that has returned, a process that has
exited) or the bounds end it.

Fairness. `SlidingWindow` and `Endpoint`: a goroutine that can run does (WF), and
Go's mutex hands itself to a waiter after 1 ms (SF on `Lock`). `NackServer`:
`ReadFrom` has a deadline of 100 ms, and `processNACK` returns, which is what
`WorkersFinish` says. `MemoryCache`: a Go select picks among ready cases at
random, so a case that is ready again and again is taken (SF on `StopGC`).
`Lifecycle`: the same of each goroutine; the sampler's and the beacon's ticks are
seconds apart, so their select gets to the cancelled context (SF); a descriptor that
has become somebody else's does not bring ingress a datagram each time it asks
(SF on `RecvfromFails` there; the socket timeout of ingress is its own socket's). A
signal need never come.

## Disagreements found

Each is a run in which a statement of the documentation or of a comment fails.

- `endpoint_aliasing`: with the in-memory cache another frame is sent than the
  one cached, because the cache keeps a slice of the receive buffer.
- `endpoint_flows`: the dedup key is the SeqNum alone, so that flows suppress
  each other; the documentation says HashKey and SeqNum.
- `endpoint_redis_down`: when SET NX fails, NACKs are suppressed and acknowledged
  for a frame nobody sent. The same follows an egress error, or a crash between
  claim and send, since the claim stays in Redis. `SuppressedUnlessLost` says that
  there is no other way, as long as no two flows share a SeqNum (`endpoint_flows` is
  what happens when they do).
- `sliding_window_memory`: entries of quiet keys are never released.
- `rate_limit_order`: the tier per SeqNum is asked before the one per source and
  flow, so a request the latter refuses has used up a request of its SeqNum; the
  documentation and a comment have them the other way round.

Read off the model without a run of their own: the eviction of the in-memory cache
takes any entry, where the comment says the oldest and `configuration.md` the least
recently used one; the retransmission counter also
counts suppressed frames; /readyz answers 200 with only one of ingress and server
up, also while the other is starting, where `configuration.md` says 503
(`ReadyCountsServing` is about the count and leaves open with what it is compared);
the beacon goes on advertising when either has stopped; the draining state
never reaches the ADVERTs; the address that is bound and the one that is advertised
are looked up separately and may differ when none is configured, where
`architecture.md` says that responses always come from the advertised one; when the
second lookup fails, `run` returns without waiting for the goroutines and closes what
they use, with the context cancelled first; `beacon-scope` has `link` in its help and refuses it,
accepts `org`, and sends to three scopes for `both`; an interval from 65536 s on
does not fit the ADVERT; a TTL or dedup window of 0 is no expiry in Redis; the chain tier's alias settings have no effect
because the setting they stand in for has a default.

In real time, as opposed to its own timestamps, the sliding window lets through up
to one request per worker more than its limit; `CommitBound` states the bound.
Counted by the time a request was taken up there is no excess: `GapBound` and
`FlowBound`.

## Proofs

TLAPS checks these for every value of the constants that satisfies the named
assumptions (`WindowAssumption`, `CacheAssumption`, `MemoryAssumption`,
`ServerAssumption`, `EndpointAssumption`, `LimitsAssumption`,
`LifecycleAssumption`; `Natural` for `TokenBucket`, which has none of its own).
`LifecycleAssumption` takes command lines and environments to be any that package
flag and the readers of the environment let through: numbers where numbers are
expected, digits for the group ID. `EndpointAssumption` leaves out a dedup window of 0
and, under Redis, a TTL of 0, which Redis takes for no expiry. The bounds (`MaxTime`, `MaxCalls`,
`MaxNacks`, `MaxRecv`, `MaxArrivals`) are arbitrary numbers.

`LimiterProofs`, for the sliding window: `TypeCorrect`, `StampBoundHolds`,
`CommitBoundHolds`, `SelfHealsHolds`. The bound on timestamps is not inductive by itself: a caller
with an old timestamp prunes with an old cutoff. The invariant `IInv` adds that
an entry holds at most Max admissions, all of its own key, and among them every
one that is still in the window that ends now; that no call has a reading of the
clock from the future; and that the calls of one caller do not overlap. For
`CommitBound`, admissions of the last window are those with a timestamp in it (at
most Max) and those with an older one, of which each caller has at most one:
whatever it sampled later has a later timestamp.

`LimiterProofs`, for the token bucket: `BucketHolds`. A key is allowed at most burst
plus rate times time over every stretch that ends now, and refused only when one more would break
that. The invariant relates the two: what was allowed since a, less what burst and
rate provide for, plus the tokens at hand (`Balance`) is never positive, and is zero
for some a. A grant moves one from the tokens to what was allowed; a tick adds the
rate to both sides unless the bucket is full, and then the balance since now is zero.

`RateLimitProofs`, `RateLimitBounds`. `UsesTiers` is a refinement: each of the four tiers, as the workers use it, behaves as its own
module says, so the theorems about the tiers hold of them in the process
(`IPTier`, `GroupTier`, `SequenceTier`, `ChainTier`). What is left is to count.
`Counted` says that the requests past a tier are no more than what it gave, for
every key and since every time, and exactly as many in all for the two windows; that
is inductive only with `Calls` (a worker that waits for a window's lock has its own
request's key there, and a clock reading no older than the request) and with the fact
that a ticket is never given twice. From it follow `SourceBoundHolds`,
`GapBoundHolds`, `FlowBoundHolds`, `RetransmitBoundHolds`, `ChargesMatchHolds`, and
from the tiers alone `BucketsExactHolds`.

`MemoryCacheProofs`: `TypeCorrect`, `WithinLimitHolds`, `NoNeedlessLossHolds`,
`ImplementsCacheHolds`. `IInv` adds to the limit that whatever the map holds is what
was stored last under its key. Evictions, deletes and sweeps only take entries out,
so what Retrieve finds is an answer the interface allows; every other step of the
goroutine and of Close maps to a stutter.

`NackServerProofs`: `TypeCorrect`, `SocketOutlivesWorkersHolds`, `EachOnceHolds`,
`ShutdownLossHolds`. `EachOnce` counts places, which is awkward to carry through a
step; `IInv` says it without counting: the channel, the workers' hands and the
handled NACKs are pairwise disjoint, none holds a NACK twice, and together they leave
out only the one in the reader's buffer, until it has been sent or for good once the
channel has been closed. That exception is what makes `ShutdownLoss` a bound of
Capacity + 1.

`EndpointProofs` and `EndpointRedisProofs` are in layers. `Typed` (types, what a worker knows at each point,
and that a slice is read only from a filled buffer) is inductive alone. Relative
to it:

- `AckMeansEverywhereHolds`, from: a worker that is sending has written to every
  interface that is not left to do;
- `AckIsHonestHolds`, from: every cached entry stems from a frame that was stored,
  with the deadline it got then, and what a worker found was live at its lookup;
- `SentIsRequestedHolds`, for the Redis cache: entries sit under their own key, and
  a worker's frame, TxID and group belong together;
- `OncePerWindowHolds`, for the Redis cache: the passages through the gate, of
  workers on their way to send and of datagrams sent, are a window apart, and Redis
  holds the claim to the end of each window. A claim is made only once the last has
  run out; a claim made by a failed call only lengthens it;
- `SuppressedUnlessLostHolds`, for the Redis cache and flows that share no SeqNum:
  a claim Redis holds belongs to a worker on its way to send, to a frame that was
  sent, or to one that is lost.

The last three are in `EndpointRedisProofs`; they are false of the in-memory cache, where the bytes sent are not those
found.

`LifecycleProofs`: all safety properties of the `lifecycle` run, its action property
and its refinement. They share one invariant, `IInv` (`Invariance`), which follows
how far `run` has come:

- `Configured`: past `Load` the settings are valid, and they never change;
- `Begins`: goroutines are started in the order of `main.go`, and one that has not
  been started has done nothing;
- `Held`: what `run` has opened is not closed while it starts, serves or waits, and
  the deferred `cancel` is the next call to be run, before any `Close`;
- `Orderly`: `run` unwinds before it has started anything, after every goroutine it
  started has returned, or by the beacon's early return, and then with the context
  cancelled before anything is closed. `ResourcesOutliveUsersHolds` is this, with
  the goroutines that use each resource. `done` is closed only after the
  cancellation, which is why that early return is told apart from a shutdown;
- `Pooled`: the server's socket is open between `Listen` and `WaitReturn`, and no
  worker runs outside;
- `Descriptor`: while the closing goroutine waits, the descriptor it will close is
  the receiver's, and it stops waiting only once the context is cancelled.
  `OwnDescriptorOnlyHolds` and `ForeignOnlyAtShutdownHolds` are its two sides: what
  is closed, and what is read after that. That the lowest free descriptor is one
  that nobody holds (`OpenedFree`) needs a least element (`Least`);
- `Counted`: the ready count is the number of components between signing on and
  off (`ReadyCountsServingHolds`);
- `Advertised`: every ADVERT carries the loaded interval. In whole seconds, and
  modulo 2^16, three of it cover the interval (`ThreeIntervals`), for
  `AdvertOutlivesIntervalHolds`.

`ShardsApartHolds` needs only that `Valid` settings have their shards below the control
groups (`ShardsBelowControl`, for every width).
`GroupIDNotMisreadHolds` is about every sequence of digits. `Value` is a recursive
function, and what it computes is shown by induction over the digits, which rests
on the least-number principle (`Least`, `Induction`) instead of the library's
induction rules: read in base 16, the same digits give no less than in base 10
(`LargerBase`), so digits too large for 16 bits as a decimal are too large as a
hexadecimal number as well.

`ImplementsServerHolds` is the refinement of `NackServer` by the process: a step of
the server's goroutines is that step of `NackServer`, the first of `Cancel` and the
deferred cancel is its `Cancel`, and everything else is a stutter. So the theorems of
`NackServerProofs` hold in the process (`ServerInProcess`), and they give
`TypeCorrect` its last part.

Only model-checked: liveness (`WorkersFinish`, `Stops`, `Served`, `CloseReturns`,
`ShutsDown`), since fairness and ENABLED are out of the prover's reach. The
properties of the five runs that end in a violation are false, and the Redis
properties of `EndpointRedisProofs` are false of the in-memory cache.

## Not modelled

- The Redis client's retries and connection pool, and `Delete` under Redis, which
  nothing calls.
- Counters, gauges and exporters of `metrics`: output that nothing reads back.
- Settings nothing else depends on (ports, log level, exporter addresses), the number
  of NACK workers (any set, with the default for numbers below 1 left out), the
  parsing of numbers and durations by package flag, negative values of
  `rl-sequence-max` (the allocation of the first entry panics) and of the IP tier.
- Socket options, log output, and the wire format beyond the fields that are read.
- A signal before `signal.Notify`, which ends the process at once, as a crash does.
- Zero durations in Redis, which keep a key for ever.
- What a conversion to 16 bits gives for an interval beyond them: Go leaves it open,
  the model takes the low bits, and no property speaks of that range.
- Fractions of tokens and of ticks: rates are whole tokens per tick.
- The limiter's answers inside `Endpoint`: there they are a free choice, which covers
  every answer `RateLimit` gives.
