--------------------------- MODULE SleepingMutex ---------------------------
(***************************************************************************)
(* How threads wait for a mutex of sync.h, for the modules whose threads   *)
(* use one. That it excludes is what module Scheduler shows of the code;   *)
(* here a thread that cannot have it leaves the run ring, and is back on   *)
(* it when a release has woken it. The first try is made with interrupts   *)
(* off. A woken thread tries again with interrupts on, and a tick may find *)
(* it between its failed test and its sleep: then it may have missed its   *)
(* wakeup, and its links are in disorder. Such a tick is the user's to     *)
(* model; it sets broken and empties the set of the sleeping threads: who  *)
(* sleeps and who is woken is not known any more, so everybody may run.    *)
(***************************************************************************)
CONSTANT Threads

VARIABLES
    owners,   \* the threads between mutex_acquire and mutex_release
    waiting,  \* the threads on the waiting_list
    try,      \* "first", "again" after a sleep, "failed" between a failed
              \* test-and-set and the sleep on it
    broken    \* history: a tick fell into the middle of a change to a list

Promise == INSTANCE Mutex

Init ==
    /\ Promise!Init
    /\ waiting = {} /\ try = [t \in Threads |-> "first"] /\ broken = FALSE

\* Thread t gets off the run ring and on the waiting list.
Sleeps(t) == waiting' = (IF broken THEN waiting ELSE waiting \union {t})

\* The test-and-set finds the mutex free.
Acquire(t) ==
    /\ t \notin waiting /\ try[t] # "failed" /\ Promise!Acquire(t)
    /\ try' = [try EXCEPT ![t] = "first"]
    /\ UNCHANGED <<waiting, broken>>

\* The first try fails, and the thread is asleep before interrupts are on.
Block(t) ==
    /\ try[t] = "first" /\ owners # {}
    /\ Sleeps(t) /\ try' = [try EXCEPT ![t] = "again"]
    /\ UNCHANGED <<owners, broken>>

\* A thread that was woken finds the mutex taken again ...
Fail(t) ==
    /\ t \notin waiting /\ try[t] = "again" /\ owners # {}
    /\ try' = [try EXCEPT ![t] = "failed"]
    /\ UNCHANGED <<owners, waiting, broken>>

\* ... and goes back to sleep.
SleepAgain(t) ==
    /\ try[t] = "failed"
    /\ Sleeps(t) /\ try' = [try EXCEPT ![t] = "again"]
    /\ UNCHANGED <<owners, broken>>

\* A bug to be caught: the mutex is released and nobody is woken.
Wakes_Nobody == UNCHANGED waiting

\* One of the sleeping threads, if there is one, is back on the run ring.
Wakes == IF waiting = {} THEN UNCHANGED waiting
                         ELSE \E u \in waiting : waiting' = waiting \ {u}

Release(t) ==
    /\ Promise!Release(t) /\ Wakes
    /\ UNCHANGED <<try, broken>>
=============================================================================
