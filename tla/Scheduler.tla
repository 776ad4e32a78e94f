----------------------------- MODULE Scheduler -----------------------------
(***************************************************************************)
(* Kernel threads on one processor: the round-robin scheduler of           *)
(* kernel/kernel/schedule.c, the threads of task.c, and the mutex of       *)
(* include/kernel/sync.h, over the doubly linked lists of klib/list.h.     *)
(*                                                                         *)
(* Code between cli and sti is one action. Everywhere else the timer may   *)
(* preempt the running thread between two actions. task_schedule ends with *)
(* sti, so a thread that slept in mutex_acquire goes round its loop again  *)
(* with interrupts on: its retry is several actions, the first try is one. *)
(***************************************************************************)
EXTENDS Naturals, FiniteSets

CONSTANTS
    Threads,       \* the task_structs
    Main,          \* the thread of kernel_main, pid 0, which never takes the mutex
    tasks,         \* the head of the run ring
    waiting_list,  \* the head of the list of the mutex's waiters
    NULL

Nodes == Threads \union {tasks, waiting_list}

ASSUME NodesAssumption ==
    /\ Main \in Threads
    /\ tasks \notin Threads /\ waiting_list \notin Threads /\ tasks # waiting_list
    /\ NULL \notin Nodes
    /\ IsFiniteSet(Threads)

VARIABLES
    links,         \* the next and prev fields of every list_head
    current_task,
    _next_task,
    state,         \* task_struct.state
    value,         \* the mutex: 0 is __ATOMIC_RELAXED, 1 is taken
    holder,
    pc,            \* where each thread is
    child,         \* the task_struct that thread_create or thread_exit is linking
    tasks_map,     \* the threads in the map of pids
    raced          \* history: a tick fell inside an unprotected list operation,
                   \* or thread_exit freed a thread that is still in use

vars == <<links, current_task, _next_task, state, value, holder, pc, child, tasks_map, raced>>

----------------------------------------------------------------------------
(* klib/list.h. A write through a null pointer is a page fault, whose      *)
(* handler never returns: the thread stays where it is, and ticks go on.   *)
(* (What it wrote before the fault is left out. Only a race gets there.)   *)

\* list_add_tail writes to no null pointer ...
CanAdd(L, head) == head # NULL /\ L.prev[head] # NULL

\* ... nor does list_del.
CanDel(L, entry) == L.prev[entry] # NULL /\ L.next[entry] # NULL

list_add_tail(L, new, head) ==
    LET left == L.prev[head]
    IN  [next |-> [L.next EXCEPT ![new] = head, ![left] = new],
         prev |-> [L.prev EXCEPT ![new] = left, ![head] = new]]

\* A bug to be caught: the node is unlinked in one direction only.
list_del_OneWay(L, entry) ==
    [next |-> [L.next EXCEPT ![L.prev[entry]] = L.next[entry], ![entry] = NULL],
     prev |-> [L.prev EXCEPT ![entry] = NULL]]

list_del(L, entry) ==
    LET p == L.prev[entry]
        n == L.next[entry]
    IN  [next |-> [L.next EXCEPT ![p] = n, ![entry] = NULL],
         prev |-> [L.prev EXCEPT ![n] = p, ![entry] = NULL]]

CanMove(L, node, dst) == CanDel(L, node) /\ CanAdd(list_del(L, node), dst)

list_move_to_tail(L, node, dst) == list_add_tail(list_del(L, node), node, dst)

----------------------------------------------------------------------------
(* schedule.c                                                              *)

\* A bug to be caught: the last thread of the ring has itself for a successor.
next_task_NoWrap(L, t) == IF L.next[t] = tasks THEN t ELSE L.next[t]

\* The successor of t in its list, skipping the head of the run ring
next_task(L, t) == IF L.next[t] = tasks THEN L.next[tasks] ELSE L.next[t]

\* task_schedule, with the lists as L has them: switch to _next_task, unless
\* it is the running thread, and move _next_task on. Once a race has broken
\* the lists _next_task may be no thread at all; the machine is lost then.
task_schedule(L) ==
    /\ _next_task \in Threads
    /\ current_task' = _next_task
    /\ _next_task' = next_task(L, _next_task)

\* init_task: main alone in the ring, and the mutex free
Init ==
    /\ links = [next |-> [n \in Nodes |-> CASE n = Main -> tasks [] n = tasks -> Main
                                            [] n = waiting_list -> waiting_list
                                            [] OTHER -> NULL],
                prev |-> [n \in Nodes |-> CASE n = Main -> tasks [] n = tasks -> Main
                                            [] n = waiting_list -> waiting_list
                                            [] OTHER -> NULL]]
    /\ current_task = Main /\ _next_task = Main
    /\ state = [t \in Threads |-> IF t = Main THEN "RUNNABLE" ELSE "UNINIT"]
    /\ value = 0 /\ holder = NULL
    /\ pc = [t \in Threads |-> IF t = Main THEN "run" ELSE "new"]
    /\ child = [t \in Threads |-> NULL]
    /\ tasks_map = {Main} /\ raced = FALSE

\* Where a tick finds the running thread between the test of a lock it cannot
\* have and its going to sleep, or between reading and writing list pointers
Window == {"lost", "unlinked", "queued", "asleep", "create", "exit"}

\* The timer interrupt: task_schedule is one of the timers' callbacks.
Timer ==
    /\ current_task \in Threads
    /\ task_schedule(links)
    /\ raced' = (raced \/ pc[current_task] \in Window)
    /\ UNCHANGED <<links, state, value, holder, pc, child, tasks_map>>

----------------------------------------------------------------------------
(* task.c: thread_create, with interrupts on                               *)

\* ... reads current_task->list_head.prev and fills the new list_head
CreateBegin(t) ==
    /\ current_task = t /\ pc[t] = "run"
    /\ \E u \in Threads :
          /\ pc[u] = "new"
          /\ links' = [next |-> [links.next EXCEPT ![u] = t],
                       prev |-> [links.prev EXCEPT ![u] = links.prev[t]]]
          /\ state' = [state EXCEPT ![u] = "RUNNABLE"]
          /\ child' = [child EXCEPT ![t] = u]
          /\ tasks_map' = tasks_map \union {u}
          /\ pc' = [pc EXCEPT ![t] = "create", ![u] = "made"]
    /\ UNCHANGED <<current_task, _next_task, value, holder, raced>>

\* ... and links it in, before the running thread
CreateEnd(t) ==
    /\ current_task = t /\ pc[t] = "create"
    /\ LET u == child[t]
       IN  /\ links.prev[u] # NULL
           /\ links' = [next |-> [links.next EXCEPT ![links.prev[u]] = u],
                        prev |-> [links.prev EXCEPT ![t] = u]]
           /\ pc' = [pc EXCEPT ![t] = "run", ![u] = "run"]
    /\ child' = [child EXCEPT ![t] = NULL]
    /\ UNCHANGED <<current_task, _next_task, state, value, holder, tasks_map, raced>>

----------------------------------------------------------------------------
(* task.c: thread_exit, with interrupts on                                 *)

\* The processor, the scheduler or the mutex still needs u: it runs, it runs
\* next, it has the mutex, or it was woken to take the mutex.
InUse(u) ==
    \/ u \in {current_task, _next_task} \/ pc[u] \in {"won", "critical"}
    \/ pc[u] = "retry" /\ state[u] = "RUNNABLE"

\* Main, and a pid that is not in the map, are left alone. The thread leaves
\* the map and, with the first half of list_del, the next pointers ...
\* (Bound: what thread_exit does to lists that a race has broken already is
\* left out.)
ExitBegin(t) ==
    /\ current_task = t /\ pc[t] = "run" /\ ~raced
    /\ \E u \in Threads \ {Main} :
          /\ u \in tasks_map /\ tasks_map' = tasks_map \ {u}
          /\ CanDel(links, u)
          /\ links' = [links EXCEPT !.next = [@ EXCEPT ![links.prev[u]] = links.next[u]]]
          /\ child' = [child EXCEPT ![t] = u]
          /\ pc' = [pc EXCEPT ![t] = "exit"]
          /\ raced' = (raced \/ InUse(u))
    /\ UNCHANGED <<current_task, _next_task, state, value, holder>>

\* ... then the prev pointers, and its memory is freed.
ExitEnd(t) ==
    /\ current_task = t /\ pc[t] = "exit" /\ CanDel(links, child[t])
    /\ links' = list_del(links, child[t])
    /\ child' = [child EXCEPT ![t] = NULL]
    /\ pc' = [pc EXCEPT ![t] = "run"]
    /\ UNCHANGED <<current_task, _next_task, state, value, holder, tasks_map, raced>>

----------------------------------------------------------------------------
(* sync.h: mutex_acquire                                                   *)

\* Bugs to be caught: what the test-and-set returns is not looked at, at the
\* first try or, with an if where the code has a while, at the next.
NotTakenIgnored == TRUE
OutcomeIgnored == "won"

NotTaken == value = 0
Outcome == IF value = 0 THEN "won" ELSE "lost"

\* The first try, all of it between cli and sti
Acquire(t) ==
    /\ current_task = t /\ pc[t] = "run" /\ t # Main /\ NotTaken
    /\ value' = 1 /\ holder' = t
    /\ pc' = [pc EXCEPT ![t] = "critical"]
    /\ UNCHANGED <<links, current_task, _next_task, state, child, tasks_map, raced>>

\* A bug to be caught: the thread is not marked as sleeping.
SleepNot(t) == UNCHANGED state

Sleep(t) == state' = [state EXCEPT ![t] = "SLEEPING"]

\* The first try fails: the thread goes to sleep before interrupts are on.
Block(t) ==
    /\ current_task = t /\ pc[t] = "run" /\ t # Main /\ value = 1
    /\ CanMove(links, t, waiting_list)
    /\ links' = list_move_to_tail(links, t, waiting_list)
    /\ Sleep(t)
    /\ task_schedule(links')
    /\ pc' = [pc EXCEPT ![t] = "retry"]
    /\ UNCHANGED <<value, holder, child, tasks_map, raced>>

\* The test-and-set of a thread that has slept, interrupts on
Retry(t) ==
    /\ current_task = t /\ pc[t] = "retry"
    /\ value' = 1
    /\ pc' = [pc EXCEPT ![t] = Outcome]
    /\ UNCHANGED <<links, current_task, _next_task, state, holder, child, tasks_map, raced>>

SetHolder(t) ==
    /\ current_task = t /\ pc[t] = "won"
    /\ holder' = t
    /\ pc' = [pc EXCEPT ![t] = "critical"]
    /\ UNCHANGED <<links, current_task, _next_task, state, value, child, tasks_map, raced>>

\* list_move_to_tail again, in two steps ...
RetryDel(t) ==
    /\ current_task = t /\ pc[t] = "lost" /\ CanDel(links, t)
    /\ links' = list_del(links, t)
    /\ pc' = [pc EXCEPT ![t] = "unlinked"]
    /\ UNCHANGED <<current_task, _next_task, state, value, holder, child, tasks_map, raced>>

RetryAdd(t) ==
    /\ current_task = t /\ pc[t] = "unlinked" /\ CanAdd(links, waiting_list)
    /\ links' = list_add_tail(links, t, waiting_list)
    /\ pc' = [pc EXCEPT ![t] = "queued"]
    /\ UNCHANGED <<current_task, _next_task, state, value, holder, child, tasks_map, raced>>

RetrySleep(t) ==
    /\ current_task = t /\ pc[t] = "queued"
    /\ Sleep(t)
    /\ pc' = [pc EXCEPT ![t] = "asleep"]
    /\ UNCHANGED <<links, current_task, _next_task, value, holder, child, tasks_map, raced>>

\* ... and task_schedule
RetryYield(t) ==
    /\ current_task = t /\ pc[t] = "asleep"
    /\ task_schedule(links)
    /\ pc' = [pc EXCEPT ![t] = "retry"]
    /\ UNCHANGED <<links, state, value, holder, child, tasks_map, raced>>

----------------------------------------------------------------------------
(* sync.h: mutex_release, between cli and sti                              *)

\* A bug to be caught: the mutex is released and nobody is woken.
WakeNobody(first) == UNCHANGED <<links, _next_task, state>>

\* The first waiter goes right before _next_task and is scheduled next.
Wake(first) ==
    /\ _next_task \in Nodes /\ CanMove(links, first, _next_task)
    /\ links' = list_move_to_tail(links, first, _next_task)
    /\ _next_task' = first
    /\ state' = [state EXCEPT ![first] = "RUNNABLE"]

\* (Only after a race can the list lead to something that is no thread, or
\* _next_task be null; the machine is lost in that case.)
Release(t) ==
    /\ current_task = t /\ pc[t] = "critical"
    /\ LET first == links.next[waiting_list]
       IN  IF first = waiting_list THEN UNCHANGED <<links, _next_task, state>>
                                   ELSE first \in Threads /\ Wake(first)
    /\ holder' = NULL /\ value' = 0
    /\ pc' = [pc EXCEPT ![t] = "run"]
    /\ UNCHANGED <<current_task, child, tasks_map, raced>>

Step(t) ==
    \/ CreateBegin(t) \/ CreateEnd(t) \/ ExitBegin(t) \/ ExitEnd(t)
    \/ Acquire(t) \/ Block(t) \/ Retry(t) \/ SetHolder(t)
    \/ RetryDel(t) \/ RetryAdd(t) \/ RetrySleep(t) \/ RetryYield(t)
    \/ Release(t)

Next == Timer \/ \E t \in Threads : Step(t)

Spec == Init /\ [][Next]_vars

\* Ticks keep coming; no thread has to call anything.
FairSpec == Spec /\ WF_vars(Timer)

----------------------------------------------------------------------------
(* Properties                                                              *)

\* The threads on the list with the given head, found by following next
OnList(head) ==
    LET walk[k \in 0 .. Cardinality(Threads)] ==
          IF k = 0 THEN links.next[head]
          ELSE IF walk[k - 1] \in Threads THEN links.next[walk[k - 1]] ELSE walk[k - 1]
    IN  {walk[k] : k \in 0 .. Cardinality(Threads)} \ {head}

Places == {"new", "made", "run", "critical", "retry", "won"} \union Window

Created == {t \in tasks_map : pc[t] # "made"}

\* Every thread is in a state of the code, the mutex has its values, and until
\* a race the thread to run next is a thread.
TypeOK ==
    /\ links \in [next : [Nodes -> Nodes \union {NULL}], prev : [Nodes -> Nodes \union {NULL}]]
    /\ current_task \in Threads
    /\ _next_task \in (IF raced THEN Nodes \union {NULL} ELSE Threads)
    /\ state \in [Threads -> {"UNINIT", "SLEEPING", "RUNNABLE"}]
    /\ value \in {0, 1} /\ holder \in Threads \union {NULL}
    /\ pc \in [Threads -> Places]
    /\ child \in [Threads -> Threads \union {NULL}]
    /\ tasks_map \subseteq Threads /\ raced \in BOOLEAN

\* Between mutex_acquire and mutex_release there is at most one thread, it has
\* the lock taken, and the lock is named after it: races on the lists included.
MutualExclusion ==
    /\ \A t, u \in Threads : (pc[t] \in {"won", "critical"} /\ pc[u] \in {"won", "critical"}) => t = u
    /\ value = 1 <=> \E t \in Threads : pc[t] \in {"won", "critical"}
    /\ holder # NULL => pc[holder] = "critical"
    /\ \A t \in Threads : pc[t] = "critical" => holder = t

\* A thread that is TASK_RUNNABLE is running or in the run ring.
RunnableIsReady ==
    \A t \in Created : state[t] = "RUNNABLE" => t = current_task \/ t \in OnList(tasks)

\* A thread sleeps on the mutex only while somebody has it, or has been woken
\* and will take it and wake the next: no thread sleeps on a free mutex.
NoLostWakeup ==
    (\E t \in OnList(waiting_list) : t # current_task /\ state[t] = "SLEEPING") =>
        value = 1 \/ \E t \in tasks_map : pc[t] = "retry" /\ state[t] = "RUNNABLE"

\* A runnable thread is running or in the ring until a tick falls into one of
\* the windows of mutex_acquire or thread_create with interrupts on.
RunnableUntilRaced == ~raced => RunnableIsReady

\* No thread sleeps on a free mutex until a tick falls into such a window.
WakeupUntilRaced == ~raced => NoLostWakeup

\* Until a race, every thread is on exactly one of the two lists whenever the
\* running thread is not in the middle of moving, the lists are linked both
\* ways, and the thread that will run next is one of the ring. Links, states
\* and places keep to their ranges in every race (TypeOK).
ListsPartition ==
    /\ TypeOK
    /\ (~raced /\ pc[current_task] \notin Window) =>
        /\ OnList(tasks) \union OnList(waiting_list) = Created
        /\ OnList(tasks) \intersect OnList(waiting_list) = {}
        /\ \A n \in Created \union {tasks, waiting_list} :
              links.prev[links.next[n]] = n /\ links.next[links.prev[n]] = n
        /\ {current_task, _next_task} \subseteq OnList(tasks)

\* If no tick ever falls into a window, every thread of the run ring gets the
\* processor again and again: a woken waiter is put in front of _next_task each
\* time the mutex is released, and still cannot push a thread back for ever.
EveryRunnerRuns ==
    []~raced => \A t \in Threads :
        (t \in OnList(tasks)) ~> (current_task = t \/ t \notin tasks_map)

----------------------------------------------------------------------------
(* Refinement                                                              *)

\* The threads that have the mutex: since their test-and-set
Owners == {t \in Threads : pc[t] \in {"won", "critical"}}

Abstract == INSTANCE Mutex WITH owners <- Owners

\* The mutex of sync.h, with its sleeping, waking, retrying and all that the
\* timer may do in between, implements a mutex.
ImplementsMutex == Abstract!Spec

----------------------------------------------------------------------------
(* The inductive invariant of the mutex. It does not speak of the lists: a *)
(* race may break them and the mutex still excludes.                       *)

\* A thread_create in progress has a task_struct of its own.
ChildrenPrivate ==
    \A t \in Threads : pc[t] = "create" =>
        /\ child[t] \in Threads /\ pc[child[t]] = "made"
        /\ \A u \in Threads \ {t} : pc[u] = "create" => child[u] # child[t]

MutexInv ==
    /\ current_task \in Threads
    /\ value \in {0, 1} /\ holder \in Threads \union {NULL}
    /\ pc \in [Threads -> Places]
    /\ child \in [Threads -> Threads \union {NULL}]
    /\ ChildrenPrivate
    /\ MutualExclusion
=============================================================================
