-------------------------------- MODULE Config --------------------------------
(***************************************************************************)
(* config.Load: how flags, environment and defaults make the settings,     *)
(* what it refuses, and what is derived from what it accepts.  Settings    *)
(* nothing else depends on (ports, log level, metrics) are left out; those *)
(* of the limiters are module RateLimit's, and the number of NACK workers  *)
(* is the size of a constant.  Durations are in milliseconds.              *)
(***************************************************************************)
EXTENDS Integers, Sequences

CONSTANT Interfaces   \* names of the host's network interfaces

\* The empty string, which stands for a setting that has not been made.
Empty == ""

Defaults ==
  [mcIface |-> "eth0", backend |-> "memory", redisAddr |-> Empty,
   egress |-> <<"eth0">>, scope |-> "site", groupID |-> [prefixed |-> TRUE, digits |-> <<0, 0, 0, 11>>],
   subtree |-> FALSE, drain |-> 0,
   bits |-> 8, beacon |-> TRUE, tier |-> 0, preference |-> 128, interval |-> 60000,
   beaconScope |-> "site", nackAddr |-> Empty]

\* The values a flag or a variable of a number, or of digits, can have: the
\* others do not get past package flag, and past the readers of the environment.
Readable(values) ==
  /\ \A k \in DOMAIN values \cap {"drain", "bits", "tier", "preference", "interval"} :
       values[k] \in Int
  /\ "groupID" \in DOMAIN values =>
       values["groupID"] \in [prefixed : BOOLEAN, digits : Seq(Nat)]

\* A flag overrides the environment, which overrides the default.  env has the
\* variables that are set to a value of their type: others do not count.
Settings(flags, env) ==
  [k \in DOMAIN Defaults |->
     IF k \in DOMAIN flags THEN flags[k]
     ELSE IF k \in DOMAIN env THEN env[k] ELSE Defaults[k]]

\* The two leading bytes of the multicast addresses of each scope.
Scopes == [link |-> 65282, site |-> 65285, org |-> 65288, global |-> 65294]

Value(digits, base) ==
  LET v[i \in 0 .. Len(digits)] == IF i = 0 THEN 0 ELSE v[i - 1] * base + digits[i]
  IN  v[Len(digits)]

\* strconv.ParseUint(s, base, 16): the number, or nothing.
ParseUint(digits, base) ==
  IF digits = << >> \/ \E i \in DOMAIN digits : digits[i] >= base THEN {}
  ELSE {v \in {Value(digits, base)} : v <= 65535}

\* A plausible slip: digits are hexadecimal unless they do not parse as such.
parseHexFirst(s) ==
  IF s.prefixed \/ ParseUint(s.digits, 16) # {} THEN ParseUint(s.digits, 16)
  ELSE ParseUint(s.digits, 10)

\* Digits after 0x, and digits that are no decimal number, are hexadecimal.
parseGroupID(s) ==
  IF s.prefixed \/ ParseUint(s.digits, 10) = {} THEN ParseUint(s.digits, 16)
  ELSE ParseUint(s.digits, 10)

\* The elements of a comma-separated list, without the empty ones.
EgressIfaces(s) == SelectSeq(s.egress, LAMBDA name : name # Empty)

BeaconScopeByte == [site |-> 5, org |-> 8, global |-> 14, both |-> 255, all |-> 255]

\* Load returns no error, given the bounds on bits and on the interval.  A
\* negative number in the environment becomes an unsigned one far above these.
ValidWithin(s, maxBits, minInterval) ==
  /\ s.bits \in 1 .. maxBits
  /\ s.scope \in DOMAIN Scopes
  /\ parseGroupID(s.groupID) # {}
  /\ s.backend \in {"redis", "memory"}
  /\ \A i \in DOMAIN EgressIfaces(s) : EgressIfaces(s)[i] \in Interfaces
  /\ EgressIfaces(s) # << >>
  /\ s.beaconScope \in DOMAIN BeaconScopeByte
  /\ s.tier \in 0 .. 255 /\ s.preference \in 0 .. 255
  /\ s.interval >= minInterval
  /\ s.nackAddr # "invalid"

\* A plausible slip: the width of a shard index is taken for the bound on bits.
ValidUpTo16(s) == ValidWithin(s, 16, 1000)

\* A plausible slip: intervals below a second pass.
ValidAnyInterval(s) == ValidWithin(s, 15, 0)

Valid(s) == ValidWithin(s, 15, 1000)

NumGroups(s) == 2 ^ s.bits

------------------------------------------------------------------------------
(* Groups: what main.buildGroups and beacon.beaconGroups make of them *)

\* Group indexes of the control plane (package shard).
CtrlGroupControl == 65534
CtrlGroupBeacon == 65533
CtrlGroupSubtreeAnnounce == 65531

\* The groups ingress joins: every shard, block control, subtrees when enabled.
buildGroups(s) ==
  (0 .. NumGroups(s) - 1) \cup {CtrlGroupControl}
    \cup (IF s.subtree THEN {CtrlGroupSubtreeAnnounce} ELSE {})

\* The scopes ADVERTs are sent to.
beaconGroups(s) ==
  {scope \in {"site", "org", "global"} :
     BeaconScopeByte[s.beaconScope] \in {BeaconScopeByte[scope], 255}}

\* The interval an ADVERT carries: whole seconds, 16 bits.  Go leaves open what the
\* conversion of a larger number gives; this is its low bits, as on amd64.
advertInterval(s) == (s.interval \div 1000) % 65536

==============================================================================
