-------------------------- MODULE MCCircularQueue --------------------------
(* An instance of CircularQueue for TLC *)
EXTENDS CircularQueue

CONSTANTS p1, p2

\* Three elements go through two slots, so that begin comes round.
MCItemsEach == p1 :> 2 @@ p2 :> 1

\* Bound: once threads have raced, two at most are in a call at the same time.
\* Before that all are.
RacesOfTwo ==
    raced => \E t, u \in Threads : t # u /\ pc[t] = "idle" /\ pc[u] = "idle"
=============================================================================
