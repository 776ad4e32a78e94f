---------------------------- MODULE MCScheduler ----------------------------
(* Instances of Scheduler for TLC *)
EXTENDS Scheduler

\* Threads that are never ended, and were created without a tick in between:
\* the windows that are left are those of mutex_acquire.
RetryNext ==
    \/ Timer /\ pc[current_task] # "create"
    \/ \E t \in Threads :
          \/ CreateBegin(t) \/ CreateEnd(t)
          \/ Acquire(t) \/ Block(t) \/ Retry(t) \/ SetHolder(t)
          \/ RetryDel(t) \/ RetryAdd(t) \/ RetrySleep(t) \/ RetryYield(t)
          \/ Release(t)

RetrySpec == Init /\ [][RetryNext]_vars
=============================================================================
