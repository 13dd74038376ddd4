-------------------------------- MODULE Beacon --------------------------------
(***************************************************************************)
(* beacon.Run: one socket for each beacon group that can be dialled, an    *)
(* ADVERT to each at once and at every tick, until the context is          *)
(* cancelled.                                                              *)
(***************************************************************************)
EXTENDS Config

VARIABLES
  settings,    \* the configuration
  cancelled,   \* ctx.Done() is closed
  nackIP,      \* the address the sender was given
  beacon,      \* where Run is
  conns,       \* the groups it has a socket for
  adverts      \* history: the ADVERTs that have gone out

beaconVars == <<beacon, conns, adverts>>

Init == beacon = "dial" /\ conns = {} /\ adverts = {}

\* A group that cannot be dialled is left out; without any Run returns.
Dial ==
  /\ beacon = "dial"
  /\ conns' \in SUBSET beaconGroups(settings)
  /\ beacon' = IF conns' = {} THEN "returned" ELSE "send"
  /\ UNCHANGED adverts

\* The payload, which is built once.
buildADVERT == [addr |-> nackIP, interval |-> advertInterval(settings)]

\* Each write may fail; nothing is made of that.
send ==
  /\ beacon = "send"
  /\ adverts' \in {adverts, adverts \cup {buildADVERT}}
  /\ beacon' = "select"
  /\ UNCHANGED conns

\* A tick that is due when the context is cancelled may still win.
Select ==
  /\ beacon = "select"
  /\ \/ cancelled /\ beacon' = "returned" /\ conns' = {}
     \/ beacon' = "send" /\ UNCHANGED conns
  /\ UNCHANGED adverts

Run == Dial \/ send \/ Select

==============================================================================
