----------------------------- MODULE MCRateLimit -----------------------------
(***************************************************************************)
(* RateLimit for TLC: limits of one, windows of different lengths, and     *)
(* settings that New replaces (the alias of the chain tier).               *)
(***************************************************************************)
EXTENDS RateLimit, TLC

MCLimits ==
  [ipRate |-> 0, ipBurst |-> 2, senderRate |-> 1500, senderWindow |-> 2,
   chainRate |-> 0, chainWindow |-> 0, sequenceMax |-> 1, sequenceWindow |-> 2,
   groupRate |-> 1, groupBurst |-> 1]

Symmetry == Permutations(Workers) \cup Permutations(SeqNums)

==============================================================================
