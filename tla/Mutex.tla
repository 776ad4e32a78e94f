------------------------------- MODULE Mutex -------------------------------
(***************************************************************************)
(* What mutex_acquire and mutex_release of sync.h promise: the mutex goes  *)
(* to one thread at a time, from nobody, and comes back to nobody. Which   *)
(* of the waiting threads is next is not part of the promise.              *)
(***************************************************************************)
CONSTANT Threads

VARIABLE owners  \* the threads between mutex_acquire and mutex_release

Init == owners = {}

Acquire(t) == owners = {} /\ owners' = {t}

Release(t) == owners = {t} /\ owners' = {}

Next == \E t \in Threads : Acquire(t) \/ Release(t)

Spec == Init /\ [][Next]_owners
=============================================================================
