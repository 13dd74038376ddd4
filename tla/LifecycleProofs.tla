---------------------------- MODULE LifecycleProofs ----------------------------
(***************************************************************************)
(* Proofs about the process, for any settings, pool, channel, number of    *)
(* datagrams and table of descriptors.                                     *)
(*                                                                         *)
(* None of the properties is inductive.  What they rest on is how far run  *)
(* has come: which goroutines it has started, what it holds and has        *)
(* deferred, and in which of three ways it has come to its end.            *)
(***************************************************************************)
EXTENDS Lifecycle, FiniteSetTheorems, WellFoundedInduction, TLAPS

(* Numbers *)

\* A set of numbers that is not empty has a least one.
LEMMA Least ==
  ASSUME NEW S \in SUBSET Nat, S # {}
  PROVE  \E x \in S : \A y \in S : x <= y
<1> DEFINE R == OpToRel(<, Nat)
<1>1. IsWellFoundedOn(R, Nat)
  BY NatLessThanWellFounded, Zenon
<1>2. \A y \in Nat, z \in Nat : <<y, z>> \in R <=> y < z
  BY DEF OpToRel
<1> HIDE DEF R
<1>3. PICK x \in S : \A y \in S : <<y, x>> \notin R
  BY <1>1, WFMin, Zenon
<1>4. ASSUME NEW y \in S PROVE x <= y
  <2>1. x \in Nat /\ y \in Nat
    OBVIOUS
  <2>2. ~(y < x)
    BY <1>2, <1>3, <2>1, Zenon
  <2> QED
    BY <2>1, <2>2
<1> QED
  BY <1>4

\* A set that holds 0, and with a number the next one, holds all of them.
LEMMA Induction ==
  ASSUME NEW T, 0 \in T, \A n \in Nat : n \in T => n + 1 \in T
  PROVE  Nat \subseteq T
<1> SUFFICES ASSUME Nat \ T # {} PROVE FALSE
  OBVIOUS
<1>1. PICK x \in Nat \ T : \A y \in Nat \ T : x <= y
  BY Least, Zenon
<1>2. x - 1 \in Nat /\ x - 1 \notin Nat \ T
  BY <1>1
<1>3. x = (x - 1) + 1
  BY <1>1
<1>4. x \in T
  BY <1>2, <1>3
<1> QED
  BY <1>1, <1>4

------------------------------------------------------------------------------
(* config.Load *)

\* f[i] is the value of the first i digits, for up to n digits.
Reads(f, digits, base, n) ==
  f = [i \in 0 .. n |-> IF i = 0 THEN 0 ELSE f[i - 1] * base + digits[i]]

\* Digits have a value: reading them one by one is a function.
LEMMA DigitsRead ==
  ASSUME NEW digits, NEW base
  PROVE  \A n \in Nat : \E f : Reads(f, digits, base, n)
<1> DEFINE T == {n \in Nat : \E f : Reads(f, digits, base, n)}
<1>1. 0 \in T
  <2> DEFINE f == [i \in 0 .. 0 |-> 0]
  <2>1. f = [i \in 0 .. 0 |-> IF i = 0 THEN 0 ELSE f[i - 1] * base + digits[i]]
    OBVIOUS
  <2>2. Reads(f, digits, base, 0)
    BY <2>1 DEF Reads
  <2> QED
    BY <2>2
<1>2. ASSUME NEW n \in Nat, n \in T PROVE n + 1 \in T
  <2>1. PICK f : Reads(f, digits, base, n)
    BY <1>2
  <2> DEFINE g == [i \in 0 .. n + 1 |-> IF i = n + 1 THEN f[n] * base + digits[n + 1] ELSE f[i]]
  <2>2. \A i \in 0 .. n : g[i] = f[i] /\ f[i] = IF i = 0 THEN 0 ELSE f[i - 1] * base + digits[i]
    BY <2>1 DEF Reads
  <2>3. g[n + 1] = f[n] * base + digits[n + 1] /\ g = [i \in 0 .. n + 1 |-> g[i]]
    OBVIOUS
  <2> HIDE DEF g
  <2>4. ASSUME NEW i \in 0 .. n + 1
        PROVE  g[i] = IF i = 0 THEN 0 ELSE g[i - 1] * base + digits[i]
    <3>1. CASE i = n + 1
      BY <2>2, <2>3, <3>1
    <3>2. CASE i \in 0 .. n /\ i # 0
      <4>1. i - 1 \in 0 .. n
        BY <3>2
      <4> QED
        BY <2>2, <3>2, <4>1
    <3>3. CASE i = 0
      <4>1. 0 \in 0 .. n
        OBVIOUS
      <4> QED
        BY <2>2, <3>3, <4>1
    <3> QED
      BY <3>1, <3>2, <3>3
  <2>5. Reads(g, digits, base, n + 1)
    BY <2>3, <2>4, Zenon DEF Reads
  <2> QED
    BY <2>5
<1> HIDE DEF T
<1>3. Nat \subseteq T
  BY <1>1, <1>2, Induction
<1> QED
  BY <1>3 DEF T

\* Value is that of all digits.
LEMMA ValueReads ==
  ASSUME NEW digits \in Seq(Nat), NEW base
  PROVE  \E f : Reads(f, digits, base, Len(digits)) /\ Value(digits, base) = f[Len(digits)]
<1> DEFINE v == CHOOSE v : v = [i \in 0 .. Len(digits) |->
                                  IF i = 0 THEN 0 ELSE v[i - 1] * base + digits[i]]
<1>1. Value(digits, base) = v[Len(digits)]
  BY DEF Value
<1>2. Reads(v, digits, base, Len(digits))
  BY DigitsRead DEF Reads
<1> QED
  BY <1>1, <1>2, Zenon

\* The same digits are worth no less in a larger base.
LEMMA LargerBase ==
  ASSUME NEW digits \in Seq(Nat)
  PROVE  Value(digits, 10) \in Nat /\ Value(digits, 16) \in Nat
         /\ Value(digits, 10) <= Value(digits, 16)
<1>1. PICK f : Reads(f, digits, 10, Len(digits)) /\ Value(digits, 10) = f[Len(digits)]
  BY ValueReads
<1>2. PICK g : Reads(g, digits, 16, Len(digits)) /\ Value(digits, 16) = g[Len(digits)]
  BY ValueReads
<1> DEFINE n == Len(digits)
           T == {i \in Nat : i <= n => f[i] \in Nat /\ g[i] \in Nat /\ f[i] <= g[i]}
<1>3. n \in Nat /\ \A i \in 1 .. n : digits[i] \in Nat
  OBVIOUS
<1>4. \A i \in 0 .. n : /\ f[i] = IF i = 0 THEN 0 ELSE f[i - 1] * 10 + digits[i]
                        /\ g[i] = IF i = 0 THEN 0 ELSE g[i - 1] * 16 + digits[i]
  BY <1>1, <1>2, <1>3, Zenon DEF Reads
<1> HIDE DEF n
<1>5. 0 \in T
  BY <1>3, <1>4
<1>6. ASSUME NEW i \in Nat, i \in T PROVE i + 1 \in T
  <2> SUFFICES ASSUME i + 1 <= n
               PROVE  f[i + 1] \in Nat /\ g[i + 1] \in Nat /\ f[i + 1] <= g[i + 1]
    OBVIOUS
  <2>1. f[i] \in Nat /\ g[i] \in Nat /\ f[i] <= g[i] /\ digits[i + 1] \in Nat
    BY <1>3, <1>6
  <2>2. f[i + 1] = f[i] * 10 + digits[i + 1] /\ g[i + 1] = g[i] * 16 + digits[i + 1]
    <3>1. i + 1 \in 0 .. n /\ i + 1 # 0 /\ (i + 1) - 1 = i
      BY <1>3
    <3> QED
      BY <1>4, <3>1
  <2>3. \A x, y, d \in Nat : x <= y => /\ x * 10 + d \in Nat /\ y * 16 + d \in Nat
                                       /\ x * 10 + d <= y * 16 + d
    OBVIOUS
  <2>4. /\ f[i] * 10 + digits[i + 1] \in Nat /\ g[i] * 16 + digits[i + 1] \in Nat
        /\ f[i] * 10 + digits[i + 1] <= g[i] * 16 + digits[i + 1]
    BY <2>1, <2>3, Zenon
  <2> QED
    BY <2>2, <2>4, Zenon
<1> HIDE DEF T
<1>7. Nat \subseteq T
  BY <1>5, <1>6, Induction, Zenon
<1> QED
  BY <1>1, <1>2, <1>3, <1>7 DEF T, n

\* Decimal digits that are a number of 16 bits in either base are one in base 10.
LEMMA DecimalDigits ==
  ASSUME NEW digits \in Seq(Nat), \A i \in DOMAIN digits : digits[i] <= 9,
         ParseUint(digits, 10) # {} \/ ParseUint(digits, 16) # {}
  PROVE  ParseUint(digits, 10) = {Value(digits, 10)}
<1> DEFINE x == Value(digits, 10)
           y == Value(digits, 16)
<1>1. digits # << >>
  BY DEF ParseUint
<1>2. \A i \in DOMAIN digits : ~(digits[i] >= 10) /\ ~(digits[i] >= 16)
  OBVIOUS
<1>3. /\ ParseUint(digits, 10) = {v \in {x} : v <= 65535}
      /\ ParseUint(digits, 16) = {v \in {y} : v <= 65535}
  BY <1>1, <1>2 DEF ParseUint
<1>4. x \in Nat /\ y \in Nat /\ x <= y
  BY LargerBase
<1> HIDE DEF x, y
<1>5. x <= 65535
  BY <1>3, <1>4
<1>6. ParseUint(digits, 10) = {x}
  BY <1>3, <1>5
<1> QED
  BY <1>6 DEF x

\* A group ID that parses at all, and whose digits are decimal ones, is read as
\* a decimal number.
LEMMA DecimalIsDecimal ==
  ASSUME NEW s \in [prefixed : BOOLEAN, digits : Seq(Nat)], ~s.prefixed,
         \A i \in DOMAIN s.digits : s.digits[i] <= 9, parseGroupID(s) # {}
  PROVE  parseGroupID(s) = {Value(s.digits, 10)}
<1>1. s.digits \in Seq(Nat)
  OBVIOUS
<1>2. ParseUint(s.digits, 10) # {} \/ ParseUint(s.digits, 16) # {}
  BY DEF parseGroupID
<1>3. ParseUint(s.digits, 10) = {Value(s.digits, 10)}
  BY <1>1, <1>2, DecimalDigits
<1> QED
  BY <1>3, Zenon DEF parseGroupID

------------------------------------------------------------------------------
(* How far run has come *)

Starting == {"load", "cache", "dedup", "resolve", "retrans", "bind"}
Up == {"start", "beacon", "signal", "drain", "cancel"}
Stopping == {"done", "wait", "flush"}
Ended == {"unwind", "exited"}

RunTypes ==
  /\ pc \in Starting \cup Up \cup Stopping \cup Ended
  /\ defers \in Seq(Resources \cup {"cancel"})
  /\ resource \in [Resources -> {"none", "open", "closed"}]
  /\ cancelled \in BOOLEAN /\ done \in BOOLEAN /\ draining \in BOOLEAN
  /\ {bound, nackIP} \subseteq Addrs \cup {Empty, settings.nackAddr}
  /\ http \in {"serving", "returned"}
  /\ sampler \in {"select", "sample", "returned"}

\* Nothing runs with settings that Load has not accepted.
Configured ==
  /\ DOMAIN settings = DOMAIN Defaults /\ Readable(settings)
  /\ pc \notin {"load"} \cup Ended \/ started # {} => Valid(settings)

\* The first n goroutines run starts.
Begun(n) == {StartOrder[i] : i \in 1 .. n}

\* Goroutines are started in order, and do nothing before.
Begins ==
  /\ started \subseteq Goroutines
  /\ pc \in Starting => started = {}
  /\ pc = "start" => \E n \in 0 .. Len(StartOrder) - 1 : started = Begun(n)
  /\ "sampler" \notin started => sampler = "select"
  /\ "ingress" \notin started => ingress = "open"
  /\ "server" \notin started => reader = "listen"
  /\ "beacon" \notin started => adverts = {}

\* Nothing has been closed, and the next deferred call cancels the context.
Intact ==
  /\ resource["cache"] = "open" /\ resource["egress"] = "open" /\ resource["dedup"] # "closed"
  /\ defers # << >> /\ defers[Len(defers)] = "cancel"

\* What run has opened it holds until it unwinds.
Held ==
  /\ pc \in Starting => \A r \in Resources : resource[r] # "closed"
  /\ pc \in {"dedup", "resolve", "retrans", "bind"} => resource["cache"] = "open"
  /\ pc = "bind" => resource["egress"] = "open"
  /\ pc \in Up \cup Stopping => Intact

\* The order of the shutdown, and the ways run comes to its end: before it has
\* started a goroutine, after all of them have returned, or by the beacon's
\* error, after which the context is cancelled first.
Orderly ==
  /\ cancelled => pc \in Stopping \cup Ended
  /\ pc \in Stopping => cancelled
  /\ done => cancelled /\ pc \in {"wait", "flush"} \cup Ended
  /\ pc \in {"wait", "flush"} => done
  /\ pc = "flush" => started \subseteq Returned
  /\ pc \in Ended =>
       \/ started = {}
       \/ done /\ started \subseteq Returned
       \/ cancelled /\ ~done
       \/ pc = "unwind" /\ ~done /\ Intact

\* The server has its socket from Listen to WaitReturn, and its workers no longer.
Pooled ==
  /\ reader \in {"select", "read", "offer", "wait"} <=> conn = "open"
  /\ reader \in {"listen", "returned"} => \A w \in Workers : pool[w] = Server!Exited

\* The descriptor is that of the ingress socket until the context is cancelled.
Descriptor ==
  /\ Ingress!TypeOK
  /\ ingress = "join" \/ closer = "waiting" => fd \in 1 .. MaxFd /\ fds[fd] = "ingress"
  /\ ingress \in {"open", "join"} => closer = "none"
  /\ closer = "none" => ingress \in {"open", "join", "returned"}
  /\ closer = "done" \/ ingress = "steal" => cancelled

\* The receiver counts itself ready from its socket to its return.
Receiving == ingress \in {"call", "recv", "steal", "process"}

\* The readiness count is that of the services that serve.
Counted == ready = (IF Receiving THEN 1 ELSE 0) + (IF conn = "open" THEN 1 ELSE 0)

\* Every ADVERT carries the interval that was loaded.
Advertised == \A a \in adverts : a.interval = advertInterval(settings)

IInv ==
  /\ RunTypes /\ Configured /\ Begins /\ Held /\ Orderly
  /\ Pooled /\ Descriptor /\ Counted /\ Advertised

------------------------------------------------------------------------------
(* The invariant holds when main starts *)

\* What the user has not set has a default of its type (config.go:98-200).
LEMMA SettingsReadable ==
  ASSUME NEW f \in Flags, NEW e \in Envs
  PROVE  DOMAIN Settings(f, e) = DOMAIN Defaults /\ Readable(Settings(f, e))
<1>1. Readable(f) /\ Readable(e)
  BY LifecycleAssumption
<1> DEFINE numbers == {"drain", "bits", "tier", "preference", "interval"}
<1>2. ASSUME NEW k \in numbers PROVE Defaults[k] \in Int
  BY <1>2 DEF Defaults
<1>3. Defaults["groupID"] \in [prefixed : BOOLEAN, digits : Seq(Nat)]
  BY DEF Defaults
<1>4. ASSUME NEW k \in DOMAIN Defaults
      PROVE  Settings(f, e)[k] = IF k \in DOMAIN f THEN f[k]
                                 ELSE IF k \in DOMAIN e THEN e[k] ELSE Defaults[k]
  BY DEF Settings
<1>5. DOMAIN Settings(f, e) = DOMAIN Defaults
  BY DEF Settings
<1>6. ASSUME NEW k \in DOMAIN Settings(f, e) \cap numbers PROVE Settings(f, e)[k] \in Int
  BY <1>1, <1>2, <1>4, <1>5, <1>6 DEF Readable
<1>7. "groupID" \in DOMAIN Settings(f, e) =>
        Settings(f, e)["groupID"] \in [prefixed : BOOLEAN, digits : Seq(Nat)]
  BY <1>1, <1>3, <1>4, <1>5 DEF Readable
<1> QED
  BY <1>5, <1>6, <1>7, Zenon DEF Readable

\* Before main's first statement nothing is started, open or sent.
LEMMA InitIInv == Init => IInv
<1> SUFFICES ASSUME Init PROVE IInv
  OBVIOUS
<1> USE DEF Starting, Up, Stopping, Ended
<1>1. RunTypes
  <2>1. defers \in Seq(Resources \cup {"cancel"}) /\ cancelled = FALSE
    BY DEF Init, Server!Init
  <2> QED
    BY <2>1, Zenon DEF Init, RunTypes, Resources
<1>2. Configured
  BY SettingsReadable DEF Init, Configured
<1>3. Begins
  BY DEF Init, Begins, Server!Init, Ingress!Init, Beacon!Init
<1>4. Held /\ Orderly
  BY DEF Init, Held, Orderly, Server!Init
<1>5. Pooled /\ Advertised
  BY DEF Init, Pooled, Advertised, Server!Init, Beacon!Init
<1>6. Descriptor /\ Counted
  BY LifecycleAssumption
     DEF Init, Descriptor, Counted, Receiving, Server!Init, Ingress!Init, Ingress!TypeOK
<1> QED
  BY <1>1, <1>2, <1>3, <1>4, <1>5, <1>6 DEF IInv

------------------------------------------------------------------------------
(* Every step keeps it *)

\* Each part of the state is changed by the steps of its own goroutine only.
LEMMA Frames ==
  ASSUME [Next]_vars
  PROVE  /\ UNCHANGED settings
         /\ NextRun \/ UNCHANGED runVars
         /\ NextMetrics \/ UNCHANGED metricsVars
         /\ NextServer \/ UNCHANGED serverVars
         /\ NextIngress \/ UNCHANGED ingressVars
         /\ NextBeacon \/ UNCHANGED beaconVars
         /\ NextServer \/ NextIngress \/ UNCHANGED ready
<1>1. CASE NextRun
  BY <1>1, Zenon DEF NextRun
<1>2. CASE NextMetrics
  BY <1>2, Zenon DEF NextMetrics
<1>3. CASE NextServer
  BY <1>3, Zenon DEF NextServer
<1>4. CASE NextIngress
  BY <1>4, Zenon DEF NextIngress
<1>5. CASE NextBeacon
  BY <1>5, Zenon DEF NextBeacon
<1>6. CASE UNCHANGED vars
  BY <1>6, Zenon DEF vars
<1> QED
  BY <1>1, <1>2, <1>3, <1>4, <1>5, <1>6, Zenon DEF Next

\* The steps of run, one by one.
LEMMA RunSteps ==
  ASSUME NextRun
  PROVE  \/ Load \/ OpenCache \/ OpenDedup \/ Resolve \/ OpenRetrans \/ Bind \/ Start \/ StartBeacon
         \/ Signal \/ Drained \/ Cancel \/ CloseDone \/ Wait \/ Flush \/ Unwind
  BY Zenon DEF NextRun, Startup, Shutdown

\* What each step of run does to its place.
LEMMA RunTypesStep ==
  ASSUME IInv, [Next]_vars
  PROVE  RunTypes'
<1> USE DEF Starting, Up, Stopping, Ended
<1>0. RunTypes /\ UNCHANGED settings
  BY Frames DEF IInv
<1>1. http' \in {"serving", "returned"} /\ sampler' \in {"select", "sample", "returned"}
  BY <1>0, Frames
     DEF RunTypes, NextMetrics, metricsVars, ServeMetrics, SampleTick, Sample, SamplerReturns
<1>2. CASE UNCHANGED runVars
  BY <1>0, <1>1, <1>2 DEF RunTypes, runVars
<1>3. CASE NextRun
  <2>1. pc' \in Starting \cup Up \cup Stopping \cup Ended
    BY <1>0, <1>3, RunSteps, Zenon
       DEF RunTypes, Load, OpenCache, OpenDedup, Resolve, OpenRetrans, Bind, Start, StartBeacon,
           Fail, Acquire, Signal, Drained, Cancel, CloseDone, Wait, Flush, Unwind
  <2>2. resource' \in [Resources -> {"none", "open", "closed"}]
    BY <1>0, <1>3, RunSteps, Zenon
       DEF RunTypes, Load, OpenCache, OpenDedup, Resolve, OpenRetrans, Bind, Start, StartBeacon,
           Fail, Acquire, Signal, Drained, Cancel, CloseDone, Wait, Flush, Unwind
  <2>3. defers' \in Seq(Resources \cup {"cancel"})
    <3>1. UNCHANGED defers \/ Unwind
          \/ \E d \in Resources \cup {"cancel"} : defers' = Append(defers, d)
      BY <1>3, RunSteps, Zenon
         DEF Load, OpenCache, OpenDedup, Resolve, OpenRetrans, Bind, Start, StartBeacon,
             Fail, Acquire, Signal, Drained, Cancel, CloseDone, Wait, Flush, Resources
    <3> QED
      BY <1>0, <3>1 DEF RunTypes, Unwind
  <2>4. cancelled' \in BOOLEAN /\ done' \in BOOLEAN
    BY <1>0, <1>3, RunSteps, Zenon
       DEF RunTypes, Load, OpenCache, OpenDedup, Resolve, OpenRetrans, Bind, Start, StartBeacon,
           Signal, Drained, Cancel, CloseDone, Wait, Flush, Unwind
  <2>5. draining' \in BOOLEAN
    <3>1. (settings.drain > 0) \in BOOLEAN
      OBVIOUS
    <3> QED
      BY <1>0, <1>3, <3>1, RunSteps, Zenon
         DEF RunTypes, Load, OpenCache, OpenDedup, Resolve, OpenRetrans, Bind, Start, StartBeacon,
             Signal, Drained, Cancel, CloseDone, Wait, Flush, Unwind
  <2>6. {bound', nackIP'} \subseteq Addrs \cup {Empty, settings.nackAddr}
    BY <1>0, <1>3, RunSteps, Zenon
       DEF RunTypes, Load, OpenCache, OpenDedup, Resolve, OpenRetrans, Bind, Start, StartBeacon,
           Fail, Signal, Drained, Cancel, CloseDone, Wait, Flush, Unwind, pickBeaconNACKAddr
  <2> QED
    BY <1>0, <1>1, <2>1, <2>2, <2>3, <2>4, <2>5, <2>6, Zenon DEF RunTypes
<1> QED
  BY <1>2, <1>3, Frames

\* Past Load the settings are the ones it has accepted.
LEMMA ConfiguredStep ==
  ASSUME IInv, [Next]_vars
  PROVE  Configured'
<1> USE DEF Starting, Up, Stopping, Ended
<1>0. Configured /\ UNCHANGED settings
  BY Frames DEF IInv
<1>1. /\ Readable(settings)' /\ DOMAIN settings' = DOMAIN Defaults
      /\ Valid(settings)' <=> Valid(settings)
  BY <1>0 DEF Configured
<1>2. CASE UNCHANGED runVars
  BY <1>0, <1>1, <1>2 DEF Configured, runVars
<1>3. CASE NextRun
  <2>1. pc' \notin {"load"} \cup Ended \/ started' # {} =>
          \/ pc \notin {"load"} \cup Ended \/ started # {}
          \/ Valid(settings)
    BY <1>3, RunSteps, Zenon
       DEF Load, OpenCache, OpenDedup, Resolve, OpenRetrans, Bind, Start, StartBeacon,
           Fail, Acquire, Signal, Drained, Cancel, CloseDone, Wait, Flush, Unwind
  <2> QED
    BY <1>0, <1>1, <2>1 DEF Configured
<1> QED
  BY <1>2, <1>3, Frames

\* One element more.
LEMMA OneMore ==
  ASSUME NEW S, IsFiniteSet(S), NEW x, x \notin S, NEW n \in Nat, Cardinality(S) = n
  PROVE  IsFiniteSet(S \cup {x}) /\ Cardinality(S \cup {x}) = n + 1
  BY FS_AddElement

\* The first goroutines, counted.
LEMMA BegunSize ==
  ASSUME NEW n \in 0 .. Len(StartOrder)
  PROVE  Cardinality(Begun(n)) = n
<1>1. StartOrder = <<"metrics", "sampler", "ingress", "server">>
      \/ StartOrder = <<"metrics", "ingress", "server">>
  BY DEF StartOrder
<1>2. Begun(0) = {} /\ Begun(1) = {"metrics"}
  BY <1>1 DEF Begun
<1>3. Cardinality(Begun(0)) = 0
  BY <1>2, FS_EmptySet
<1>4. CASE StartOrder = <<"metrics", "sampler", "ingress", "server">>
  <2>1. /\ n \in 0 .. 4
        /\ Begun(2) = Begun(1) \cup {"sampler"} /\ "sampler" \notin Begun(1)
        /\ Begun(3) = Begun(2) \cup {"ingress"} /\ "ingress" \notin Begun(2)
        /\ Begun(4) = Begun(3) \cup {"server"} /\ "server" \notin Begun(3)
    BY <1>4 DEF Begun
  <2>2. IsFiniteSet(Begun(1)) /\ Cardinality(Begun(1)) = 1
    BY <1>2, FS_Singleton, Zenon
  <2>3. IsFiniteSet(Begun(2)) /\ Cardinality(Begun(2)) = 2
    BY <2>1, <2>2, OneMore
  <2>4. IsFiniteSet(Begun(3)) /\ Cardinality(Begun(3)) = 3
    BY <2>1, <2>3, OneMore
  <2>5. Cardinality(Begun(4)) = 4
    BY <2>1, <2>4, OneMore
  <2>6. n = 0 \/ n = 1 \/ n = 2 \/ n = 3 \/ n = 4
    BY <2>1
  <2> QED
    BY <1>3, <2>2, <2>3, <2>4, <2>5, <2>6, Zenon
<1>5. CASE StartOrder = <<"metrics", "ingress", "server">>
  <2>1. /\ n \in 0 .. 3
        /\ Begun(2) = Begun(1) \cup {"ingress"} /\ "ingress" \notin Begun(1)
        /\ Begun(3) = Begun(2) \cup {"server"} /\ "server" \notin Begun(2)
    BY <1>5 DEF Begun
  <2>2. IsFiniteSet(Begun(1)) /\ Cardinality(Begun(1)) = 1
    BY <1>2, FS_Singleton, Zenon
  <2>3. IsFiniteSet(Begun(2)) /\ Cardinality(Begun(2)) = 2
    BY <2>1, <2>2, OneMore
  <2>4. IsFiniteSet(Begun(3)) /\ Cardinality(Begun(3)) = 3
    BY <2>1, <2>3, OneMore
  <2>5. n = 0 \/ n = 1 \/ n = 2 \/ n = 3
    BY <2>1
  <2> QED
    BY <1>3, <2>2, <2>3, <2>4, <2>5, Zenon
<1> QED
  BY <1>1, <1>4, <1>5

\* Start starts the next goroutine in the order, and no other.
LEMMA StartNext ==
  ASSUME IInv, Start
  PROVE  \E n \in 1 .. Len(StartOrder) :
           /\ started' = Begun(n) /\ Begun(n) \subseteq Goroutines
           /\ pc' = IF n = Len(StartOrder) THEN "beacon" ELSE "start"
<1>1. PICK m \in 0 .. Len(StartOrder) - 1 : started = Begun(m)
  BY DEF IInv, Begins, Start
<1>2. Len(StartOrder) \in {3, 4} /\ \A i \in 1 .. Len(StartOrder) : StartOrder[i] \in Goroutines
  BY DEF StartOrder, Goroutines
<1>3. Cardinality(started) = m
  BY <1>1, <1>2, BegunSize
<1>4. Begun(m + 1) = Begun(m) \cup {StartOrder[m + 1]}
  BY <1>1, <1>2 DEF Begun
<1>5. started' = Begun(m + 1) /\ pc' = IF m + 1 = Len(StartOrder) THEN "beacon" ELSE "start"
  BY <1>1, <1>3, <1>4 DEF Start
<1>6. m + 1 \in 1 .. Len(StartOrder) /\ Begun(m + 1) \subseteq Goroutines
  BY <1>1, <1>2 DEF Begun
<1> QED
  BY <1>5, <1>6

\* A goroutine that has not been started takes no step.
LEMMA Unstarted ==
  ASSUME IInv, [Next]_vars
  PROVE  /\ "metrics" \in started \/ UNCHANGED http
         /\ "sampler" \in started \/ UNCHANGED sampler
         /\ "server" \in started \/ UNCHANGED serverVars
         /\ "ingress" \in started \/ UNCHANGED ingressVars
         /\ "beacon" \in started \/ UNCHANGED beaconVars
  BY Frames
     DEF NextMetrics, NextServer, NextIngress, NextBeacon, Running, metricsVars,
         ServeMetrics, SampleTick, Sample, SamplerReturns

\* Goroutines are only ever added.
LEMMA StartedGrows ==
  ASSUME IInv, [Next]_vars
  PROVE  started \subseteq started'
<1>1. CASE NextRun
  BY <1>1, RunSteps, Zenon
     DEF Load, OpenCache, OpenDedup, Resolve, OpenRetrans, Bind, Start, StartBeacon,
         Signal, Drained, Cancel, CloseDone, Wait, Flush, Unwind
<1>2. CASE UNCHANGED runVars
  BY <1>2 DEF runVars
<1> QED
  BY <1>1, <1>2, Frames

\* Only a goroutine that main has started takes a step.
LEMMA BeginsStep ==
  ASSUME IInv, [Next]_vars
  PROVE  Begins'
<1> USE DEF Starting, Up, Stopping, Ended
<1>0. Begins /\ UNCHANGED settings /\ StartOrder' = StartOrder
  BY Frames DEF IInv, StartOrder
<1>1. /\ "sampler" \notin started' => sampler' = "select"
      /\ "ingress" \notin started' => ingress' = "open"
      /\ "server" \notin started' => reader' = "listen"
      /\ "beacon" \notin started' => adverts' = {}
  BY <1>0, Unstarted, StartedGrows DEF Begins, serverVars, ingressVars, beaconVars
<1>2. CASE UNCHANGED runVars
  <2>1. UNCHANGED <<pc, started>> /\ \A n : Begun(n)' = Begun(n)
    BY <1>0, <1>2 DEF runVars, Begun
  <2> QED
    BY <1>0, <1>1, <2>1 DEF Begins
<1>3. CASE NextRun
  <2>1. CASE Start
    <3>1. PICK n \in 1 .. Len(StartOrder) :
                 /\ started' = Begun(n) /\ Begun(n) \subseteq Goroutines
                 /\ pc' = IF n = Len(StartOrder) THEN "beacon" ELSE "start"
      BY <2>1, StartNext
    <3>2. Begun(n)' = Begun(n) /\ (n # Len(StartOrder) => n \in 0 .. Len(StartOrder) - 1)
      BY <1>0, <3>1 DEF Begun
    <3>3. pc' = "start" => \E m \in 0 .. Len(StartOrder') - 1 : started' = Begun(m)'
      BY <1>0, <3>1, <3>2
    <3> QED
      BY <1>1, <3>1, <3>3, Zenon DEF Begins
  <2>2. CASE Bind
    <3>1. Begun(0)' = {} /\ 0 \in 0 .. Len(StartOrder') - 1
      BY DEF Begun, StartOrder
    <3>2. started' = {} /\ pc' \in {"start", "unwind"}
      BY <1>0, <2>2 DEF Begins, Bind, Fail
    <3> QED
      BY <1>1, <3>1, <3>2 DEF Begins
  <2>3. CASE ~Start /\ ~Bind
    <3>1. pc' # "start" /\ started' \subseteq Goroutines /\ (pc' \in Starting => started' = {})
      BY <1>0, <1>3, <2>3, RunSteps, Zenon
         DEF Begins, Load, OpenCache, OpenDedup, Resolve, OpenRetrans, StartBeacon, Goroutines,
             Fail, Acquire, Signal, Drained, Cancel, CloseDone, Wait, Flush, Unwind
    <3> QED
      BY <1>1, <3>1 DEF Begins
  <2> QED
    BY <2>1, <2>2, <2>3
<1> QED
  BY <1>2, <1>3, Frames

\* What run holds it closes only by its deferred calls, and these start with
\* the cancellation once there is something to cancel.
LEMMA HeldStep ==
  ASSUME IInv, [Next]_vars
  PROVE  Held'
<1> USE DEF Starting, Up, Stopping, Ended
<1>0. Held /\ RunTypes
  BY DEF IInv
<1>1. CASE UNCHANGED runVars
  BY <1>0, <1>1 DEF Held, Intact, runVars
<1>2. CASE NextRun
  <2>1. CASE Load \/ Resolve
    BY <1>0, <2>1 DEF Held, Load, Resolve, Fail
  <2>2. CASE OpenCache \/ OpenDedup \/ OpenRetrans
    BY <1>0, <2>2 DEF Held, RunTypes, Resources, OpenCache, OpenDedup, OpenRetrans, Fail, Acquire
  <2>3. CASE Bind
    <3>1. CASE pc' = "unwind"
      BY <3>1 DEF Held
    <3>2. CASE defers' = Append(defers, "cancel") /\ pc' = "start" /\ UNCHANGED resource
      <4>1. defers' # << >> /\ defers'[Len(defers')] = "cancel"
        BY <1>0, <3>2 DEF RunTypes
      <4> QED
        BY <1>0, <2>3, <3>2, <4>1 DEF Held, Intact, Bind, Resources
    <3> QED
      BY <2>3, <3>1, <3>2 DEF Bind, Fail
  <2>4. CASE Start
    BY <1>0, <2>4 DEF Held, Intact, Start
  <2>5. CASE StartBeacon
    BY <1>0, <2>5 DEF Held, Intact, StartBeacon, Fail
  <2>6. CASE Signal \/ Drained \/ Cancel \/ CloseDone \/ Wait
    BY <1>0, <2>6 DEF Held, Intact, Signal, Drained, Cancel, CloseDone, Wait
  <2>7. CASE Flush \/ Unwind
    BY <2>7 DEF Held, Flush, Unwind
  <2> QED
    BY <1>2, <2>1, <2>2, <2>3, <2>4, <2>5, <2>6, <2>7, RunSteps, Zenon
<1> QED
  BY <1>1, <1>2, Frames

\* A goroutine that has returned takes no step any more.
LEMMA ReturnedGrows ==
  ASSUME IInv, [Next]_vars
  PROVE  Returned \subseteq Returned'
<1>1. http = "returned" => http' = "returned"
  BY Frames DEF NextMetrics, metricsVars, ServeMetrics, SampleTick, Sample, SamplerReturns
<1>2. sampler = "returned" => sampler' = "returned"
  BY Frames DEF NextMetrics, metricsVars, ServeMetrics, SampleTick, Sample, SamplerReturns
<1>3. ingress = "returned" => ingress' = "returned"
  <2>1. CASE UNCHANGED ingressVars
    BY <2>1 DEF ingressVars
  <2>2. CASE NextIngress
    BY <2>2
       DEF NextIngress, Ingress!Run, Ingress!openRawSocket, Ingress!Join, Ingress!processFrame,
           Ingress!Recvfrom, Ingress!RecvfromYields, Ingress!RecvfromFails,
           Ingress!RecvfromInvalid, Ingress!Close, Ingress!Other
  <2> QED
    BY <2>1, <2>2, Frames
<1>4. reader = "returned" => reader' = "returned"
  <2>1. CASE UNCHANGED serverVars
    BY <2>1 DEF serverVars
  <2>2. CASE NextServer
    BY <2>2
       DEF NextServer, Serve, Listen, Read, ServerReturns, Work, Server!Listen, Server!Poll,
           Server!ReadNothing, Server!ReadNack, Server!Offer, Server!WaitReturn,
           Server!Take, Server!Finish, Server!Exit
  <2> QED
    BY <2>1, <2>2, Frames
<1>5. beacon = "returned" => beacon' = "returned"
  <2>1. CASE UNCHANGED beaconVars
    BY <2>1 DEF beaconVars
  <2>2. CASE NextBeacon
    BY <2>2 DEF NextBeacon, Beacon!Run, Beacon!Dial, Beacon!send, Beacon!Select
  <2> QED
    BY <2>1, <2>2, Frames
<1> QED
  BY <1>1, <1>2, <1>3, <1>4, <1>5, Zenon DEF Returned

\* However run comes to its end, what is in use is still there or the context
\* has been cancelled.
LEMMA OrderlyStep ==
  ASSUME IInv, [Next]_vars
  PROVE  Orderly'
<1> USE DEF Starting, Up, Stopping, Ended
<1>0. Orderly /\ RunTypes /\ Held /\ Begins
  BY DEF IInv
<1>1. Returned \subseteq Returned'
  BY ReturnedGrows
<1>2. CASE UNCHANGED runVars
  <2>1. UNCHANGED <<pc, started, cancelled, done>> /\ (Intact => Intact')
    BY <1>2 DEF runVars, Intact
  <2> QED
    BY <1>0, <1>1, <2>1 DEF Orderly
<1>3. CASE NextRun
  <2>1. CASE Load \/ OpenCache \/ OpenDedup \/ Resolve \/ OpenRetrans \/ Bind
    BY <1>0, <2>1
       DEF Orderly, Begins, Load, OpenCache, OpenDedup, Resolve, OpenRetrans, Bind, Fail, Acquire
  <2>2. CASE Start
    BY <1>0, <2>2 DEF Orderly, Start
  <2>3. CASE StartBeacon
    <3>1. Intact /\ (UNCHANGED <<defers, resource>> => Intact')
      BY <1>0, <2>3 DEF Held, StartBeacon, Intact
    <3> QED
      BY <1>0, <2>3, <3>1 DEF Orderly, StartBeacon, Fail
  <2>4. CASE Signal \/ Drained \/ Cancel \/ CloseDone
    BY <1>0, <2>4 DEF Orderly, Signal, Drained, Cancel, CloseDone
  <2>5. CASE Wait \/ Flush
    BY <1>0, <1>1, <2>5 DEF Orderly, Wait, Flush
  <2>6. CASE Unwind
    <3>1. UNCHANGED <<started, done>> /\ pc = "unwind" /\ pc' \in Ended /\ (cancelled => cancelled')
      BY <2>6, Zenon DEF Unwind
    <3>2. CASE Intact
      <4>1. cancelled' /\ pc' = "unwind"
        BY <2>6, <3>2, Zenon DEF Intact, Unwind
      <4> QED
        BY <1>0, <1>1, <3>1, <4>1 DEF Orderly
    <3>3. CASE ~Intact
      BY <1>0, <1>1, <2>6, <3>1, <3>3 DEF Orderly, Unwind
    <3> QED
      BY <3>2, <3>3
  <2> QED
    BY <1>3, <2>1, <2>2, <2>3, <2>4, <2>5, <2>6, RunSteps, Zenon
<1> QED
  BY <1>2, <1>3, Frames

\* The steps of the server, one by one.
LEMMA ServerSteps ==
  ASSUME NextServer
  PROVE  \/ Listen \/ ServerReturns \/ Server!Poll \/ Server!ReadNothing \/ Server!ReadNack
         \/ Server!Offer
         \/ \E w \in Workers : Server!Take(w) \/ Server!Finish(w) \/ Server!Exit(w)
  BY Zenon DEF NextServer, Serve, Read, Work

\* Start opens the server's socket and closes it after the last worker.
LEMMA PooledStep ==
  ASSUME IInv, [Next]_vars
  PROVE  Pooled'
<1>0. Pooled
  BY DEF IInv
<1>1. CASE UNCHANGED serverVars
  BY <1>0, <1>1 DEF Pooled, serverVars
<1>2. CASE NextServer
  <2>1. CASE Listen
    BY <1>0, <2>1 DEF Pooled, Listen, Server!Listen
  <2>2. CASE ServerReturns
    BY <1>0, <2>2 DEF Pooled, ServerReturns, Server!WaitReturn
  <2>3. CASE Server!Poll \/ Server!ReadNothing \/ Server!ReadNack \/ Server!Offer
    BY <1>0, <2>3
       DEF Pooled, Server!Poll, Server!ReadNothing, Server!ReadNack, Server!Offer, Server!Shut
  <2>4. ASSUME NEW w \in Workers, Server!Take(w) \/ Server!Finish(w) \/ Server!Exit(w)
        PROVE  Pooled'
    <3>1. pool[w] # Server!Exited
      BY <2>4
         DEF Server!Take, Server!Finish, Server!Exit, Server!Selecting, Server!Exited
    <3>2. reader \notin {"listen", "returned"} /\ UNCHANGED <<reader, conn>>
      BY <1>0, <2>4, <3>1 DEF Pooled, Server!Take, Server!Finish, Server!Exit
    <3> QED
      BY <1>0, <3>2 DEF Pooled
  <2> QED
    BY <1>2, <2>1, <2>2, <2>3, <2>4, ServerSteps
<1> QED
  BY <1>1, <1>2, Frames

\* The kernel has a lowest free descriptor to give, if any is free.
LEMMA LowestFree ==
  ASSUME Ingress!Free # {}
  PROVE  Ingress!Min(Ingress!Free) \in Ingress!Free
<1>1. Ingress!Free \in SUBSET Nat
  BY LifecycleAssumption DEF Ingress!Free
<1>2. \E x \in Ingress!Free : \A y \in Ingress!Free : x <= y
  BY <1>1, Least, Zenon
<1> QED
  BY <1>2, Zenon DEF Ingress!Min

\* Other parts of the process leave the descriptor of ingress alone.
LEMMA OtherFiles ==
  ASSUME Ingress!TypeOK, Ingress!Other
  PROVE  /\ fds' \in [1 .. MaxFd -> {"free", "ingress", "other"}]
         /\ \A d \in 1 .. MaxFd : fds[d] = "ingress" => fds'[d] = "ingress"
<1>1. CASE Ingress!Free # {} /\ fds' = [fds EXCEPT ![Ingress!Min(Ingress!Free)] = "other"]
  <2>1. Ingress!Min(Ingress!Free) \in 1 .. MaxFd /\ fds[Ingress!Min(Ingress!Free)] = "free"
    BY <1>1, LowestFree DEF Ingress!Free
  <2> QED
    BY <1>1, <2>1 DEF Ingress!TypeOK
<1>2. ASSUME NEW d \in 1 .. MaxFd, fds[d] = "other", fds' = [fds EXCEPT ![d] = "free"]
      PROVE  /\ fds' \in [1 .. MaxFd -> {"free", "ingress", "other"}]
             /\ \A x \in 1 .. MaxFd : fds[x] = "ingress" => fds'[x] = "ingress"
  BY <1>2 DEF Ingress!TypeOK
<1> QED
  BY <1>1, <1>2 DEF Ingress!Other

\* The descriptor ingress opens was free.
LEMMA OpenedFree ==
  ASSUME Ingress!TypeOK, Ingress!openRawSocket
  PROVE  \/ /\ fd' \in 1 .. MaxFd /\ fds[fd'] = "free" /\ ingress' = "join"
            /\ fds' = [fds EXCEPT ![fd'] = "ingress"]
         \/ ingress' = "returned" /\ UNCHANGED <<fd, fds>>
  BY LowestFree DEF Ingress!openRawSocket, Ingress!Free

\* The closing goroutine waits for the context with the receiver's own descriptor.
LEMMA DescriptorStep ==
  ASSUME IInv, [Next]_vars
  PROVE  Descriptor'
<1>0. Descriptor /\ Ingress!TypeOK /\ MaxFd \in Nat
  BY LifecycleAssumption DEF IInv, Descriptor
<1>1. CASE UNCHANGED ingressVars
  <2>1. cancelled => cancelled'
    <3>1. CASE NextRun
      BY <3>1, RunSteps, Zenon
         DEF Load, OpenCache, OpenDedup, Resolve, OpenRetrans, Bind, Start, StartBeacon,
             Signal, Drained, Cancel, CloseDone, Wait, Flush, Unwind
    <3>2. CASE UNCHANGED runVars
      BY <3>2 DEF runVars
    <3> QED
      BY <3>1, <3>2, Frames
  <2> QED
    BY <1>0, <1>1, <2>1 DEF Descriptor, Ingress!TypeOK, ingressVars
<1>2. CASE NextIngress
  <2>0. UNCHANGED cancelled
    BY <1>2 DEF NextIngress, runVars
  <2>1. CASE Ingress!openRawSocket
    <3>1. UNCHANGED closer /\ closer = "none"
      BY <1>0, <2>1 DEF Descriptor, Ingress!openRawSocket
    <3> QED
      BY <1>0, <2>0, <2>1, <3>1, OpenedFree DEF Descriptor, Ingress!TypeOK
  <2>2. CASE Ingress!Join
    BY <1>0, <2>0, <2>2 DEF Descriptor, Ingress!TypeOK, Ingress!Join, Ingress!CloseFd
  <2>3. CASE Ingress!processFrame \/ Ingress!RecvfromYields
    BY <1>0, <2>0, <2>3
       DEF Descriptor, Ingress!TypeOK, Ingress!processFrame, Ingress!RecvfromYields
  <2>4. CASE Ingress!Recvfrom
    BY <1>0, <2>0, <2>4 DEF Descriptor, Ingress!TypeOK, Ingress!Recvfrom, Ingress!Return
  <2>5. CASE Ingress!RecvfromFails \/ Ingress!RecvfromInvalid
    BY <1>0, <2>0, <2>5
       DEF Descriptor, Ingress!TypeOK, Ingress!RecvfromFails, Ingress!RecvfromInvalid,
           Ingress!Return
  <2>6. CASE Ingress!Close
    BY <1>0, <2>0, <2>6 DEF Descriptor, Ingress!TypeOK, Ingress!Close, Ingress!CloseFd
  <2>7. CASE Ingress!Other
    <3>1. UNCHANGED <<ingress, fd, closer>>
      BY <2>7 DEF Ingress!Other
    <3> QED
      BY <1>0, <2>0, <2>7, <3>1, OtherFiles DEF Descriptor, Ingress!TypeOK
  <2> QED
    BY <1>2, <2>1, <2>2, <2>3, <2>4, <2>5, <2>6, <2>7, Zenon DEF NextIngress, Ingress!Run
<1> QED
  BY <1>1, <1>2, Frames

\* Whoever comes up is counted, and whoever goes down no longer.
LEMMA CountedStep ==
  ASSUME IInv, [Next]_vars
  PROVE  Counted'
<1>0. Counted /\ Pooled
  BY DEF IInv
<1>1. CASE UNCHANGED <<ready, ingressVars, serverVars>>
  BY <1>0, <1>1 DEF Counted, Receiving, ingressVars, serverVars
<1>2. CASE NextServer
  <2>0. Receiving' = Receiving
    BY <1>2 DEF NextServer, Receiving, ingressVars
  <2>1. CASE Listen
    <3>1. conn # "open"
      BY <1>0, <2>1 DEF Pooled, Listen, Server!Listen
    <3> QED
      BY <1>0, <2>0, <2>1, <3>1 DEF Counted, Listen, Server!Listen
  <2>2. CASE ServerReturns
    <3>1. conn = "open"
      BY <1>0, <2>2 DEF Pooled, ServerReturns, Server!WaitReturn
    <3> QED
      BY <1>0, <2>0, <2>2, <3>1 DEF Counted, ServerReturns, Server!WaitReturn
  <2>3. CASE Read \/ \E w \in Workers : Work(w)
    <3>1. UNCHANGED <<ready, conn>>
      BY <2>3
         DEF Read, Work, Server!Poll, Server!ReadNothing, Server!ReadNack, Server!Offer,
             Server!Take, Server!Finish, Server!Exit
    <3> QED
      BY <1>0, <2>0, <3>1 DEF Counted
  <2> QED
    BY <1>2, <2>1, <2>2, <2>3, Zenon DEF NextServer, Serve
<1>3. CASE NextIngress
  <2>0. UNCHANGED conn
    BY <1>3 DEF NextIngress, serverVars
  <2>1. CASE Ingress!Join \/ Ingress!RecvfromInvalid \/ Ingress!RecvfromFails \/ Ingress!Recvfrom
    BY <1>0, <2>0, <2>1
       DEF Counted, Receiving, Ingress!Join, Ingress!RecvfromInvalid, Ingress!RecvfromFails,
           Ingress!Recvfrom, Ingress!Return
  <2>2. CASE Ingress!openRawSocket \/ Ingress!processFrame \/ Ingress!RecvfromYields
             \/ Ingress!Close \/ Ingress!Other
    <3>1. UNCHANGED ready /\ Receiving' = Receiving
      BY <2>2
         DEF Receiving, Ingress!openRawSocket, Ingress!processFrame, Ingress!RecvfromYields,
             Ingress!Close, Ingress!Other
    <3> QED
      BY <1>0, <2>0, <3>1 DEF Counted
  <2> QED
    BY <1>3, <2>1, <2>2, Zenon DEF NextIngress, Ingress!Run
<1> QED
  BY <1>1, <1>2, <1>3, Frames, Zenon

\* An ADVERT carries the interval of the settings that were loaded.
LEMMA AdvertisedStep ==
  ASSUME IInv, [Next]_vars
  PROVE  Advertised'
<1>0. Advertised /\ UNCHANGED settings
  BY Frames DEF IInv
<1>1. adverts' = adverts
      \/ adverts' = adverts \cup {[addr |-> nackIP, interval |-> advertInterval(settings)]}
  <2>1. CASE NextBeacon
    BY <2>1
       DEF NextBeacon, Beacon!Run, Beacon!Dial, Beacon!send, Beacon!Select, Beacon!buildADVERT,
           Beacon!advertInterval, advertInterval
  <2>2. CASE UNCHANGED beaconVars
    BY <2>2 DEF beaconVars
  <2> QED
    BY <2>1, <2>2, Frames
<1> QED
  BY <1>0, <1>1 DEF Advertised, advertInterval

\* main.run and its goroutines keep the invariant, wherever an error or the
\* signal finds them.
THEOREM Invariance == Spec => []IInv
<1>1. IInv /\ [Next]_vars => IInv'
  BY RunTypesStep, ConfiguredStep, BeginsStep, HeldStep, OrderlyStep, PooledStep,
     DescriptorStep, CountedStep, AdvertisedStep DEF IInv
<1> QED
  BY <1>1, InitIInv, PTL DEF Spec

------------------------------------------------------------------------------
(* What follows from it *)

\* A goroutine that is using something has been started and has not returned.
LEMMA UsersRun ==
  ASSUME IInv, NEW r \in Resources, InUse(r)
  PROVE  started # {} /\ ~(started \subseteq Returned)
<1>1. CASE Busy
  <2>1. PICK w \in Workers : pool[w].pc = "busy"
    BY <1>1 DEF Busy
  <2>2. pool[w] # Server!Exited
    BY <2>1 DEF Server!Exited
  <2>3. reader # "listen" /\ reader # "returned"
    BY <2>2 DEF IInv, Pooled
  <2> QED
    BY <2>3 DEF IInv, Begins, Returned
<1>2. CASE ingress = "process"
  BY <1>2 DEF IInv, Begins, Returned
<1>3. CASE sampler = "sample"
  BY <1>3 DEF IInv, Begins, Returned
<1> QED
  BY <1>1, <1>2, <1>3 DEF InUse

\* main.go:134, 143, 192, 214, 319-321: whatever the settings and however many
\* workers there are, nothing is closed under a goroutine that uses it, unless
\* the beacon's address could not be found; then the context is cancelled first.
THEOREM ResourcesOutliveUsersHolds == Spec => []ResourcesOutliveUsers
<1>1. IInv => ResourcesOutliveUsers
  <2> SUFFICES ASSUME IInv, NEW r \in Resources, InUse(r)
               PROVE  \/ resource[r] = "open"
                      \/ resource[r] = "none" /\ r = "dedup"
                      \/ cancelled /\ ~done
    BY DEF ResourcesOutliveUsers
  <2>1. started # {} /\ ~(started \subseteq Returned)
    BY UsersRun
  <2>2. Intact \/ (cancelled /\ ~done)
    BY <2>1 DEF IInv, RunTypes, Begins, Held, Orderly, Starting, Up, Stopping, Ended
  <2> QED
    BY <2>2 DEF IInv, RunTypes, Intact, Resources
<1> QED
  BY <1>1, Invariance, PTL

\* ingress.go:104-111: with any table of descriptors, ingress receives from
\* nothing but its own socket before the context is cancelled.
THEOREM ForeignOnlyAtShutdownHolds == Spec => []ForeignOnlyAtShutdown
<1>1. IInv => ForeignOnlyAtShutdown
  BY DEF IInv, Descriptor, ForeignOnlyAtShutdown
<1> QED
  BY <1>1, Invariance, PTL

\* metrics.go:270-276, 315-331: the count behind /readyz is that of the components
\* that are up, so that it never answers 200 when there is none.
THEOREM ReadyCountsServingHolds == Spec => []ReadyCountsServing
<1>1. IInv => ReadyCountsServing
  <2> SUFFICES ASSUME IInv PROVE ReadyCountsServing
    OBVIOUS
  <2>1. Serving = (IF Receiving THEN {"ingress"} ELSE {})
                    \cup (IF conn = "open" THEN {"server"} ELSE {})
    BY DEF IInv, Descriptor, Ingress!TypeOK, Serving, Receiving
  <2>2. /\ Cardinality({}) = 0
        /\ Cardinality({"ingress"}) = 1 /\ Cardinality({"server"}) = 1
    BY FS_EmptySet, FS_Singleton, Zenon
  <2>3. Cardinality({"ingress"} \cup {"server"}) = 2
    <3>1. IsFiniteSet({"ingress"}) /\ "server" \notin {"ingress"}
      BY FS_Singleton, Zenon
    <3>2. Cardinality({"ingress"} \cup {"server"}) = Cardinality({"ingress"}) + 1
      BY <3>1, FS_AddElement
    <3> QED
      BY <2>2, <3>2
  <2>4. ready = Cardinality(Serving)
    <3>1. CASE Receiving /\ conn = "open"
      BY <2>1, <2>3, <3>1 DEF IInv, Counted
    <3>2. CASE Receiving /\ conn # "open"
      <4>1. Serving = {"ingress"}
        BY <2>1, <3>2
      <4> QED
        BY <2>2, <3>2, <4>1 DEF IInv, Counted
    <3>3. CASE ~Receiving /\ conn = "open"
      <4>1. Serving = {"server"}
        BY <2>1, <3>3
      <4> QED
        BY <2>2, <3>3, <4>1 DEF IInv, Counted
    <3>4. CASE ~Receiving /\ conn # "open"
      <4>1. Serving = {}
        BY <2>1, <3>4
      <4> QED
        BY <2>2, <3>4, <4>1 DEF IInv, Counted
    <3> QED
      BY <3>1, <3>2, <3>3, <3>4
  <2>5. Serving = {} => ~(ready >= 1)
    BY <2>2, <2>4
  <2> QED
    BY <2>4, <2>5 DEF ReadyCountsServing, handleReadyz
<1> QED
  BY <1>1, Invariance, PTL

\* The settings have the types Load gives them.
LEMMA SettingsTyped ==
  ASSUME IInv
  PROVE  /\ settings.interval \in Int
         /\ settings.groupID \in [prefixed : BOOLEAN, digits : Seq(Nat)]
<1>1. DOMAIN settings = DOMAIN Defaults /\ Readable(settings)
  BY DEF IInv, Configured
<1>2. {"interval", "groupID"} \subseteq DOMAIN Defaults
  BY DEF Defaults
<1> QED
  BY <1>1, <1>2 DEF Readable

\* Whole seconds, three times over, cover every interval from one second on, as
\* long as they fit into 16 bits (beacon.go:162).
LEMMA ThreeIntervals ==
  ASSUME NEW i \in Int, i >= 1000, i < 65536000
  PROVE  3000 * ((i \div 1000) % 65536) >= i
  OBVIOUS

\* config.go:275, beacon.go:162: for every interval Load accepts and the field of
\* the ADVERT can hold, listeners that wait three advertised intervals do not
\* give up on an endpoint that sends.
THEOREM AdvertOutlivesIntervalHolds == Spec => []AdvertOutlivesInterval
<1>1. IInv => AdvertOutlivesInterval
  <2> SUFFICES ASSUME IInv, NEW a \in adverts, settings.interval < 65536000
               PROVE  3000 * a.interval >= settings.interval
    BY DEF AdvertOutlivesInterval
  <2>1. started # {}
    BY DEF IInv, Begins
  <2>2. Valid(settings) /\ Readable(settings)
    BY <2>1 DEF IInv, Configured
  <2>3. settings.interval >= 1000
    BY <2>2 DEF Valid, ValidWithin
  <2>4. settings.interval \in Int
    BY SettingsTyped
  <2>5. a.interval = (settings.interval \div 1000) % 65536
    BY DEF IInv, Advertised, advertInterval
  <2> QED
    BY <2>3, <2>4, <2>5, ThreeIntervals
<1> QED
  BY <1>1, Invariance, PTL

\* Shards of up to 15 bits stay below the control groups (config.go:207-211).
LEMMA ShardsBelowControl ==
  ASSUME NEW bits \in 1 .. 15
  PROVE  2 ^ bits \in Nat /\ 2 ^ bits <= CtrlGroupSubtreeAnnounce
<1>1. \/ bits = 1 \/ bits = 2 \/ bits = 3 \/ bits = 4 \/ bits = 5
      \/ bits = 6 \/ bits = 7 \/ bits = 8 \/ bits = 9 \/ bits = 10
      \/ bits = 11 \/ bits = 12 \/ bits = 13 \/ bits = 14 \/ bits = 15
  OBVIOUS
<1> DEFINE Fits(n) == 2 ^ n \in Nat /\ 2 ^ n <= CtrlGroupSubtreeAnnounce
<1>2. /\ Fits(1) /\ Fits(2) /\ Fits(3) /\ Fits(4) /\ Fits(5) /\ Fits(6) /\ Fits(7) /\ Fits(8)
      /\ Fits(9) /\ Fits(10) /\ Fits(11) /\ Fits(12) /\ Fits(13) /\ Fits(14) /\ Fits(15)
  BY DEF CtrlGroupSubtreeAnnounce
<1>3. Fits(bits)
  <2> HIDE DEF Fits
  <2> QED
    BY <1>1, <1>2, Zenon
<1> QED
  BY <1>3

\* config.go:205-211, main.go:331-350: for all settings that Load accepts, ingress
\* joins the shards' groups and control groups, and no shard is a control group.
THEOREM ShardsApartHolds == Spec => []ShardsApart
<1>1. IInv => ShardsApart
  <2> SUFFICES ASSUME IInv, pc = "cache"
               PROVE  buildGroups(settings) \ ControlGroups = 0 .. NumGroups(settings) - 1
    BY DEF ShardsApart
  <2>1. Valid(settings)
    BY DEF IInv, Configured, Ended
  <2>2. settings.bits \in 1 .. 15
    BY <2>1, Zenon DEF Valid, ValidWithin
  <2>3. NumGroups(settings) \in Nat /\ NumGroups(settings) <= CtrlGroupSubtreeAnnounce
    BY <2>2, ShardsBelowControl, Zenon DEF NumGroups
  <2>4. ASSUME NEW c \in ControlGroups PROVE c \notin 0 .. NumGroups(settings) - 1
    <3>1. c \in Nat /\ CtrlGroupSubtreeAnnounce \in Nat /\ CtrlGroupSubtreeAnnounce <= c
      BY DEF ControlGroups, CtrlGroupControl, CtrlGroupBeacon, CtrlGroupSubtreeAnnounce
    <3> QED
      BY <2>3, <3>1
  <2>5. /\ 0 .. NumGroups(settings) - 1 \subseteq buildGroups(settings)
        /\ buildGroups(settings) \subseteq (0 .. NumGroups(settings) - 1) \cup ControlGroups
    BY Zenon DEF buildGroups, ControlGroups
  <2> QED
    BY <2>4, <2>5, Zenon
<1> QED
  BY <1>1, Invariance, PTL

\* config.go:333-351: digits of any number and any value: a decimal number is
\* read as such or refused.
THEOREM GroupIDNotMisreadHolds == Spec => []GroupIDNotMisread
<1>1. IInv => GroupIDNotMisread
  <2> SUFFICES ASSUME IInv, pc = "cache", ~settings.groupID.prefixed,
                      \A i \in DOMAIN settings.groupID.digits : settings.groupID.digits[i] <= 9
               PROVE  parseGroupID(settings.groupID) = {Value(settings.groupID.digits, 10)}
    BY DEF GroupIDNotMisread
  <2>1. Valid(settings)
    BY DEF IInv, Configured, Ended
  <2>2. parseGroupID(settings.groupID) # {}
    BY <2>1, Zenon DEF Valid, ValidWithin
  <2> QED
    BY <2>2, SettingsTyped, DecimalIsDecimal
<1> QED
  BY <1>1, Invariance, PTL

\* What ingress does to the table of descriptors when it or its closer moves.
LEMMA OwnDescriptor ==
  ASSUME IInv, [Next]_vars, ingress' # ingress \/ closer' # closer, NEW d \in 1 .. MaxFd,
         fds[d] = "other"
  PROVE  fds'[d] = "other"
<1>0. Descriptor /\ Ingress!TypeOK
  BY DEF IInv, Descriptor
<1>1. NextIngress
  BY Frames DEF ingressVars
<1>2. CASE Ingress!openRawSocket
  BY <1>0, <1>2, OpenedFree, Zenon DEF Ingress!TypeOK
<1>3. CASE Ingress!Join
  BY <1>0, <1>3, Zenon DEF Descriptor, Ingress!TypeOK, Ingress!Join, Ingress!CloseFd
<1>4. CASE Ingress!Close
  BY <1>0, <1>4 DEF Descriptor, Ingress!TypeOK, Ingress!Close, Ingress!CloseFd
<1>5. CASE \/ Ingress!processFrame \/ Ingress!Recvfrom \/ Ingress!RecvfromYields
           \/ Ingress!RecvfromFails \/ Ingress!RecvfromInvalid
  BY <1>5
     DEF Ingress!processFrame, Ingress!Recvfrom, Ingress!RecvfromYields,
         Ingress!RecvfromFails, Ingress!RecvfromInvalid, Ingress!Return
<1>6. ~Ingress!Other
  BY DEF Ingress!Other
<1> QED
  BY <1>1, <1>2, <1>3, <1>4, <1>5, <1>6, Zenon DEF NextIngress, Ingress!Run

\* ingress.go:104-107: of any number of descriptors, Run closes its own, once,
\* wherever the cancellation finds its loop.
THEOREM OwnDescriptorOnlyHolds == Spec => OwnDescriptorOnly
<1>1. IInv /\ [Next]_vars =>
        [(ingress' # ingress \/ closer' # closer) =>
           \A d \in 1 .. MaxFd : fds[d] = "other" => fds'[d] = "other"]_vars
  BY OwnDescriptor
<1> QED
  BY <1>1, Invariance, PTL DEF Spec, OwnDescriptorOnly

------------------------------------------------------------------------------
(* The server in the process *)

\* main.go:253-259, server.go:94-186: with any pool and channel, what the process
\* does to its server is what the server does on its own: it is started once,
\* and its context is cancelled once, by run or by a deferred call.
THEOREM ImplementsServerHolds == Spec => ImplementsServer
<1>1. Init => Server!Init
  BY DEF Init
<1>2. IInv /\ [Next]_vars => [Server!Next]_(Server!vars)
  <2> SUFFICES ASSUME IInv, [Next]_vars PROVE [Server!Next]_(Server!vars)
    OBVIOUS
  <2>1. CASE NextServer
    <3>1. UNCHANGED cancelled
      BY <2>1 DEF NextServer, runVars
    <3> QED
      BY <2>1, <3>1, ServerSteps, Zenon
         DEF Listen, ServerReturns, Server!Next, Server!Read
  <2>2. CASE UNCHANGED serverVars /\ UNCHANGED cancelled
    BY <2>2 DEF Server!vars, serverVars
  <2>3. CASE UNCHANGED serverVars /\ NextRun
    <3>1. cancelled' = cancelled \/ (~cancelled /\ cancelled')
      BY <2>3, RunSteps, Zenon
         DEF Load, OpenCache, OpenDedup, Resolve, OpenRetrans, Bind, Start, StartBeacon,
             Signal, Drained, Cancel, CloseDone, Wait, Flush, Unwind, IInv, RunTypes, Orderly,
             Stopping, Ended
    <3>2. CASE ~cancelled /\ cancelled'
      <4>1. cancelled' = TRUE
        BY <3>2, RunTypesStep DEF RunTypes
      <4> QED
        BY <2>3, <3>2, <4>1 DEF Server!Cancel, Server!Next, serverVars
    <3> QED
      BY <2>2, <2>3, <3>1, <3>2
  <2> QED
    BY <2>1, <2>2, <2>3, Frames DEF runVars
<1> QED
  BY <1>1, <1>2, Invariance, PTL DEF Spec, ImplementsServer, Server!Spec

SP == INSTANCE NackServerProofs

\* Sets are counted alike in all modules.
LEMMA SameCount == \A S : SP!Cardinality(S) = Server!Cardinality(S)
  BY DEF SP!Cardinality, Server!Cardinality, SP!IsFiniteSet, Server!IsFiniteSet

\* What has been proved of the server on its own holds of it in the process.
LEMMA ServerInside ==
  Spec => [](/\ Server!TypeOK /\ Server!SocketOutlivesWorkers
             /\ Server!EachOnce /\ Server!ShutdownLoss)
<1>1. Server!Init => SP!Init
  BY DEF Server!Init, SP!Init, Server!Exited, SP!Exited, Server!Datagrams, SP!Datagrams
<1>2. [Server!Next]_(Server!vars) => [SP!Next]_(SP!vars)
  BY Zenon
     DEF Server!Next, SP!Next, Server!vars, SP!vars, Server!Listen, SP!Listen, Server!Cancel,
         SP!Cancel, Server!Read, SP!Read, Server!Poll, SP!Poll, Server!ReadNothing,
         SP!ReadNothing, Server!ReadNack, SP!ReadNack, Server!Offer, SP!Offer,
         Server!WaitReturn, SP!WaitReturn, Server!Take, SP!Take, Server!Finish, SP!Finish,
         Server!Exit, SP!Exit, Server!Shut, SP!Shut, Server!Exited, SP!Exited,
         Server!Selecting, SP!Selecting, Server!Busy, SP!Busy
<1>3. SP!Spec => [](SP!TypeOK /\ SP!SocketOutlivesWorkers /\ SP!EachOnce /\ SP!ShutdownLoss)
  <2>1. SP!Spec => []SP!TypeOK
    BY SP!TypeCorrect, LifecycleAssumption
  <2>2. SP!Spec => []SP!SocketOutlivesWorkers
    BY SP!SocketOutlivesWorkersHolds, LifecycleAssumption
  <2>3. SP!Spec => []SP!EachOnce
    BY SP!EachOnceHolds, LifecycleAssumption
  <2>4. SP!Spec => []SP!ShutdownLoss
    BY SP!ShutdownLossHolds, LifecycleAssumption
  <2> QED
    BY <2>1, <2>2, <2>3, <2>4, PTL
<1>4. SP!TypeOK => Server!TypeOK
  BY Zenon
     DEF SP!TypeOK, Server!TypeOK, Server!Datagrams, SP!Datagrams, Server!Exited, SP!Exited,
         Server!Selecting, SP!Selecting, Server!Busy, SP!Busy
<1>5. SP!SocketOutlivesWorkers => Server!SocketOutlivesWorkers
  BY DEF SP!SocketOutlivesWorkers, Server!SocketOutlivesWorkers
<1>6. SP!EachOnce => Server!EachOnce
  <2>1. \A d : SP!InQueue(d) = Server!InQueue(d) /\ SP!InHand(d) = Server!InHand(d)
    BY DEF SP!InQueue, Server!InQueue, SP!InHand, Server!InHand, SP!Busy, Server!Busy
  <2> QED
    BY <2>1, SameCount DEF SP!EachOnce, Server!EachOnce
<1>7. SP!ShutdownLoss => Server!ShutdownLoss
  BY SameCount DEF SP!ShutdownLoss, Server!ShutdownLoss
<1> QED
  BY <1>1, <1>2, <1>3, <1>4, <1>5, <1>6, <1>7, ImplementsServerHolds, PTL
     DEF ImplementsServer, Server!Spec, SP!Spec

\* The variables of the process and of all its parts keep their types.
THEOREM TypeCorrect == Spec => []TypeOK
<1>1. IInv /\ Server!TypeOK => TypeOK
  <2> SUFFICES ASSUME IInv, Server!TypeOK PROVE TypeOK
    OBVIOUS
  <2>1. ready \in Nat
    BY DEF IInv, Counted
  <2> QED
    BY <2>1, Zenon
       DEF IInv, RunTypes, Begins, Descriptor, TypeOK, Starting, Up, Stopping, Ended
<1> QED
  BY <1>1, Invariance, ServerInside, PTL

\* server.go:103-186 as main.go runs it: through start, drain, shutdown and failed
\* starts, each NACK is in one place or handled once, the socket outlives the
\* workers, and no more is lost than the channel and the reader hold.
THEOREM ServerInProcess ==
  Spec => [](Server!EachOnce /\ Server!SocketOutlivesWorkers /\ Server!ShutdownLoss)
  BY ServerInside, PTL
==============================================================================
