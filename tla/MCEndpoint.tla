------------------------------ MODULE MCEndpoint ------------------------------
(* Small instances of module Endpoint. *)
EXTENDS Endpoint, TLC

NackFor(h, s) == [valid |-> TRUE, hash |-> h, start |-> s, end |-> s]

\* One flow: a transaction frame, a block control frame and one the proxy has
\* not stamped.
OneFlow ==
  {[ver |-> 2, hash |-> 1, seq |-> 2, tx |-> 1],
   [ver |-> 4, hash |-> 1, seq |-> 1, tx |-> 2],
   [ver |-> 2, hash |-> 1, seq |-> 0, tx |-> 1]}

OneFlowKeys == {1} \X {0, 1, 2}

\* The last one asks for a range of frames.
OneFlowNacks ==
  {NackFor(1, 1), NackFor(1, 2),
   [valid |-> TRUE, hash |-> 1, start |-> 1, end |-> 2]}

\* Two flows whose frames carry the same sequence number.
TwoFlows ==
  {[ver |-> 2, hash |-> 1, seq |-> 1, tx |-> 1],
   [ver |-> 2, hash |-> 2, seq |-> 1, tx |-> 2]}

TwoFlowsKeys == {1, 2} \X {1}

TwoFlowsNacks == {NackFor(1, 1), NackFor(2, 1)}

Interchangeable ==
  Permutations(Instances) \cup Permutations(Workers) \cup Permutations(Ifaces)

==============================================================================
