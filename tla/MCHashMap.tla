----------------------------- MODULE MCHashMap -----------------------------
(* Instances of HashMap for TLC *)
EXTENDS HashMap

\* The capacities of map.c from level 2 on
MCprimes == [l \in FirstLevel .. LastLevel |-> CASE l = 2 -> 5 [] l = 3 -> 7]
=============================================================================
