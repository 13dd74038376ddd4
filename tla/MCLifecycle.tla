----------------------------- MODULE MCLifecycle -----------------------------
(***************************************************************************)
(* Lifecycle for TLC: the ways the process can be configured to run, and   *)
(* settings at the edges of what Load accepts, with a process that ends    *)
(* soon after because its ingress interface does not exist.                *)
(***************************************************************************)
EXTENDS Lifecycle, TLC

\* Digits, hexadecimal ones among them, up to as many as 65535 has.
GroupIDs ==
  [prefixed : BOOLEAN, digits : UNION {[1 .. n -> {0, 6, 9, 11}] : n \in 0 .. 5}]

Edge(k, values) == {[mcIface |-> "absent"] @@ (k :> v) : v \in values}

MCFlags ==
  {[beacon |-> FALSE, redisAddr |-> "redis", drain |-> 1000], [interval |-> 999], [drain |-> 0],
   [backend |-> "redis", redisAddr |-> "redis", interval |-> 1999],
   [backend |-> "redis", redisAddr |-> "redis", interval |-> 65535999, nackAddr |-> "a2"]}
    \cup Edge("groupID", GroupIDs)
    \cup Edge("bits", {0, 1, 15, 16})
    \cup Edge("egress", {<< >>, <<"">>, <<"", "eth0">>, <<"eth9">>})
    \cup Edge("beaconScope", {"link", "site", "both"})

\* Nothing, and a backend without an address.
MCEnvs == {<< >>, [backend |-> "redis"]}

==============================================================================
