-------------------------- MODULE SchedulerProofs --------------------------
(***************************************************************************)
(* Proofs about Scheduler, for any number of threads: the mutex excludes,  *)
(* whatever ticks fall where and whatever becomes of the lists, and the    *)
(* kernel's mutex implements the abstract one. Until a tick falls into one *)
(* of the unprotected windows the lists are whole: a thread that is to run *)
(* is on the run ring, and one that waits is on the waiting list of a      *)
(* mutex that somebody has or is being woken to take.                      *)
(***************************************************************************)
EXTENDS Scheduler, FiniteSetTheorems, WellFoundedInduction, TLAPS

----------------------------------------------------------------------------
\* The mutex is free and only main exists.
LEMMA InitMutexInv ==
  ASSUME Init
  PROVE  MutexInv
<1>1. /\ current_task \in Threads /\ value = 0 /\ holder = NULL
      /\ pc \in [Threads -> Places] /\ child \in [Threads -> Threads \union {NULL}]
  BY NodesAssumption DEF Init, Places
<1>2. \A t \in Threads : pc[t] \in {"run", "new"}
  BY DEF Init
<1> QED BY <1>1, <1>2 DEF MutexInv, ChildrenPrivate, MutualExclusion

\* Ticks and list operations do not touch the mutex.
LEMMA OtherStep ==
  ASSUME MutexInv, current_task' \in Threads, UNCHANGED <<value, holder, pc, child>>
  PROVE  MutexInv'
BY DEF MutexInv, ChildrenPrivate, MutualExclusion

\* A thread moves on, and neither has the mutex nor gets it.
LEMMA MoveStep ==
  ASSUME MutexInv, NEW t \in Threads, NEW q \in Places \ {"won", "critical", "create", "made"},
         pc[t] \notin {"won", "critical", "create", "made"},
         pc' = [pc EXCEPT ![t] = q], current_task' \in Threads,
         NEW c \in Threads \union {NULL},
         child' = child \/ child' = [child EXCEPT ![t] = c],
         UNCHANGED <<value, holder>>
  PROVE  MutexInv'
<1> USE DEF MutexInv
<1>1. /\ pc' \in [Threads -> Places] /\ pc'[t] = q
      /\ child' \in [Threads -> Threads \union {NULL}]
      /\ \A u \in Threads \ {t} : pc'[u] = pc[u] /\ child'[u] = child[u]
  OBVIOUS
<1>2. ChildrenPrivate'
  BY <1>1 DEF ChildrenPrivate
<1>3. MutualExclusion'
  <2>1. \A u \in Threads : pc'[u] \in {"won", "critical"} <=> pc[u] \in {"won", "critical"}
    BY <1>1
  <2>2. \A u \in Threads : pc'[u] = "critical" <=> pc[u] = "critical"
    BY <1>1
  <2> QED BY <2>1, <2>2 DEF MutualExclusion
<1> QED BY <1>1, <1>2, <1>3

\* The mutex was free and t takes it; holder may be set now or later.
LEMMA TakeStep ==
  ASSUME MutexInv, NEW t \in Threads, value = 0, pc[t] \in {"run", "retry"},
         value' = 1, current_task' \in Threads, child' = child,
         \/ pc' = [pc EXCEPT ![t] = "won"] /\ holder' = holder
         \/ pc' = [pc EXCEPT ![t] = "critical"] /\ holder' = t
  PROVE  MutexInv'
<1> USE DEF MutexInv
<1>1. \A u \in Threads : pc[u] \notin {"won", "critical"}
  BY DEF MutualExclusion
<1>2. holder = NULL
  BY <1>1 DEF MutualExclusion
<1>3. /\ pc' \in [Threads -> Places] /\ pc'[t] \in {"won", "critical"}
      /\ \A u \in Threads \ {t} : pc'[u] = pc[u]
      /\ pc'[t] = "critical" => holder' = t
      /\ holder' # NULL => holder' = t /\ pc'[t] = "critical"
  BY <1>2, NodesAssumption DEF Places, Nodes
<1>4. ChildrenPrivate'
  BY <1>3 DEF ChildrenPrivate
<1>5. MutualExclusion'
  BY <1>1, <1>3 DEF MutualExclusion
<1>6. holder' \in Threads \union {NULL}
  BY <1>3
<1> QED BY <1>3, <1>4, <1>5, <1>6

\* Every action of every thread preserves the invariant.
LEMMA NextMutexInv ==
  ASSUME MutexInv, [Next]_vars
  PROVE  MutexInv'
<1>1. CASE UNCHANGED vars
  BY <1>1, OtherStep DEF vars, MutexInv
<1>2. CASE Timer
  BY <1>2, OtherStep DEF Timer, task_schedule
<1>3. ASSUME NEW t \in Threads, Step(t)
      PROVE  MutexInv'
  <2>1. CASE CreateBegin(t)
    <3>1. PICK u \in Threads : /\ pc[u] = "new"
                               /\ child' = [child EXCEPT ![t] = u]
                               /\ pc' = [pc EXCEPT ![t] = "create", ![u] = "made"]
      BY <2>1 DEF CreateBegin
    <3>2. pc[t] = "run" /\ UNCHANGED <<current_task, value, holder>>
      BY <2>1 DEF CreateBegin
    <3>3. /\ pc' \in [Threads -> Places] /\ child' \in [Threads -> Threads \union {NULL}]
          /\ pc'[t] = "create" /\ pc'[u] = "made" /\ child'[t] = u
          /\ \A w \in Threads \ {t, u} : pc'[w] = pc[w] /\ child'[w] = child[w]
      BY <3>1, <3>2 DEF MutexInv, Places, Window
    <3>4. ChildrenPrivate'
      <4>1. \A w \in Threads \ {t, u} : pc[w] = "create" =>
               child[w] \in Threads \ {t, u} /\ pc'[child[w]] = "made"
        BY <3>1, <3>2, <3>3 DEF MutexInv, ChildrenPrivate
      <4> QED BY <4>1, <3>1, <3>2, <3>3 DEF MutexInv, ChildrenPrivate
    <3>5. MutualExclusion'
      <4>1. \A w \in Threads : pc'[w] \in {"won", "critical"} <=> pc[w] \in {"won", "critical"}
        BY <3>1, <3>2, <3>3
      <4>2. \A w \in Threads : pc'[w] = "critical" <=> pc[w] = "critical"
        BY <3>1, <3>2, <3>3
      <4> QED BY <3>2, <4>1, <4>2 DEF MutexInv, MutualExclusion
    <3> QED BY <3>2, <3>3, <3>4, <3>5 DEF MutexInv
  <2>2. CASE CreateEnd(t)
    <3>1. PICK u \in Threads : u = child[t] /\ pc[u] = "made"
      BY <2>2 DEF CreateEnd, MutexInv, ChildrenPrivate
    <3>2. /\ pc[t] = "create" /\ pc' = [pc EXCEPT ![t] = "run", ![u] = "run"]
          /\ child' = [child EXCEPT ![t] = NULL]
          /\ UNCHANGED <<current_task, value, holder>>
      BY <2>2, <3>1 DEF CreateEnd
    <3>3. /\ pc' \in [Threads -> Places] /\ child' \in [Threads -> Threads \union {NULL}]
          /\ pc'[t] = "run" /\ pc'[u] = "run"
          /\ \A w \in Threads \ {t, u} : pc'[w] = pc[w] /\ child'[w] = child[w]
      BY <3>1, <3>2 DEF MutexInv, Places, Window
    <3>4. ChildrenPrivate'
      <4>1. \A w \in Threads \ {t, u} : pc[w] = "create" =>
               child[w] \in Threads \ {t, u} /\ pc[child[w]] = "made"
        BY <3>1, <3>2 DEF MutexInv, ChildrenPrivate
      <4> QED BY <4>1, <3>3 DEF MutexInv, ChildrenPrivate
    <3>5. MutualExclusion'
      <4>1. \A w \in Threads : pc'[w] \in {"won", "critical"} <=> pc[w] \in {"won", "critical"}
        BY <3>1, <3>2, <3>3
      <4>2. \A w \in Threads : pc'[w] = "critical" <=> pc[w] = "critical"
        BY <3>1, <3>2, <3>3
      <4> QED BY <3>2, <4>1, <4>2 DEF MutexInv, MutualExclusion
    <3> QED BY <3>2, <3>3, <3>4, <3>5 DEF MutexInv
  <2>3. CASE Acquire(t)
    BY <2>3, TakeStep DEF Acquire, NotTaken, MutexInv
  <2>4. CASE Block(t)
    <3>1. /\ pc[t] = "run" /\ pc' = [pc EXCEPT ![t] = "retry"] /\ current_task' \in Threads
          /\ UNCHANGED <<value, holder, child>>
      BY <2>4 DEF Block, task_schedule
    <3> QED BY <3>1, MoveStep DEF Places
  <2>5. CASE Retry(t)
    <3>1. /\ pc[t] = "retry" /\ value' = 1 /\ current_task' \in Threads
          /\ UNCHANGED <<holder, child>>
          /\ pc' = [pc EXCEPT ![t] = IF value = 0 THEN "won" ELSE "lost"]
      BY <2>5 DEF Retry, Outcome, MutexInv
    <3>2. CASE value = 0
      BY <3>1, <3>2, TakeStep
    <3>3. CASE value # 0
      <4>1. value' = value /\ pc' = [pc EXCEPT ![t] = "lost"]
        BY <3>1, <3>3 DEF MutexInv
      <4> QED BY <3>1, <4>1, MoveStep DEF Places, Window
    <3> QED BY <3>2, <3>3
  <2>6. CASE SetHolder(t)
    <3>1. /\ pc[t] = "won" /\ holder' = t /\ pc' = [pc EXCEPT ![t] = "critical"]
          /\ UNCHANGED <<current_task, value, child>>
      BY <2>6 DEF SetHolder
    <3>2. /\ pc' \in [Threads -> Places] /\ pc'[t] = "critical"
          /\ \A u \in Threads \ {t} : pc'[u] = pc[u] /\ pc[u] \notin {"won", "critical"}
      BY <3>1 DEF MutexInv, MutualExclusion, Places
    <3>3. value = 1
      BY <3>1 DEF MutexInv, MutualExclusion
    <3>4. ChildrenPrivate'
      BY <3>1, <3>2 DEF MutexInv, ChildrenPrivate
    <3>5. MutualExclusion'
      BY <3>1, <3>2, <3>3 DEF MutualExclusion
    <3> QED BY <3>1, <3>2, <3>4, <3>5 DEF MutexInv
  <2>7. CASE RetryDel(t)
    <3>1. /\ pc[t] = "lost" /\ pc' = [pc EXCEPT ![t] = "unlinked"] /\ current_task' \in Threads
          /\ UNCHANGED <<value, holder, child>>
      BY <2>7 DEF RetryDel, MutexInv
    <3> QED BY <3>1, MoveStep DEF Places, Window
  <2>8. CASE RetryAdd(t)
    <3>1. /\ pc[t] = "unlinked" /\ pc' = [pc EXCEPT ![t] = "queued"] /\ current_task' \in Threads
          /\ UNCHANGED <<value, holder, child>>
      BY <2>8 DEF RetryAdd, MutexInv
    <3> QED BY <3>1, MoveStep DEF Places, Window
  <2>9. CASE RetrySleep(t)
    <3>1. /\ pc[t] = "queued" /\ pc' = [pc EXCEPT ![t] = "asleep"] /\ current_task' \in Threads
          /\ UNCHANGED <<value, holder, child>>
      BY <2>9 DEF RetrySleep, MutexInv
    <3> QED BY <3>1, MoveStep DEF Places, Window
  <2>10. CASE RetryYield(t)
    <3>1. /\ pc[t] = "asleep" /\ pc' = [pc EXCEPT ![t] = "retry"] /\ current_task' \in Threads
          /\ UNCHANGED <<value, holder, child>>
      BY <2>10 DEF RetryYield, task_schedule
    <3> QED BY <3>1, MoveStep DEF Places
  <2>11. CASE Release(t)
    <3>1. /\ pc[t] = "critical" /\ holder' = NULL /\ value' = 0
          /\ pc' = [pc EXCEPT ![t] = "run"] /\ UNCHANGED <<current_task, child>>
      BY <2>11 DEF Release
    <3>2. /\ pc' \in [Threads -> Places] /\ pc'[t] = "run"
          /\ \A u \in Threads \ {t} : pc'[u] = pc[u] /\ pc[u] \notin {"won", "critical"}
      BY <3>1 DEF MutexInv, MutualExclusion, Places
    <3>3. ChildrenPrivate'
      BY <3>1, <3>2 DEF MutexInv, ChildrenPrivate
    <3>4. MutualExclusion'
      BY <3>1, <3>2 DEF MutualExclusion
    <3> QED BY <3>1, <3>2, <3>3, <3>4 DEF MutexInv
  <2>12. CASE ExitBegin(t)
    <3>1. PICK u \in Threads : child' = [child EXCEPT ![t] = u]
      BY <2>12 DEF ExitBegin, MutexInv
    <3>2. /\ pc[t] = "run" /\ pc' = [pc EXCEPT ![t] = "exit"] /\ current_task' \in Threads
          /\ UNCHANGED <<value, holder>>
      BY <2>12 DEF ExitBegin, MutexInv
    <3> QED BY <3>1, <3>2, MoveStep DEF Places, Window
  <2>13. CASE ExitEnd(t)
    <3>1. /\ pc[t] = "exit" /\ pc' = [pc EXCEPT ![t] = "run"] /\ current_task' \in Threads
          /\ child' = [child EXCEPT ![t] = NULL] /\ UNCHANGED <<value, holder>>
      BY <2>13 DEF ExitEnd, MutexInv
    <3> QED BY <3>1, MoveStep DEF Places, Window
  <2> QED BY <1>3, <2>1, <2>2, <2>3, <2>4, <2>5, <2>6, <2>7, <2>8, <2>9, <2>10, <2>11, <2>12,
             <2>13 DEF Step
<1> QED BY <1>1, <1>2, <1>3 DEF Next

\* At most one thread is between mutex_acquire and mutex_release, and the
\* mutex is marked taken and named after it, for any number of threads and
\* wherever the timer interrupts them.
THEOREM MutexExcludes == Spec => []MutualExclusion
<1>1. Init => MutexInv
  BY InitMutexInv
<1>2. MutexInv /\ [Next]_vars => MutexInv'
  BY NextMutexInv
<1>3. MutexInv => MutualExclusion
  BY DEF MutexInv
<1> QED BY <1>1, <1>2, <1>3, PTL DEF Spec

\* The mutex of sync.h implements the abstract mutex: a step that changes who
\* has it is one Acquire or one Release of Mutex.
THEOREM MutexRefinement == Spec => ImplementsMutex
<1>1. Init => Abstract!Init
  <2>1. Init => \A t \in Threads : pc[t] \in {"run", "new"}
    BY DEF Init
  <2> QED BY <2>1 DEF Abstract!Init, Owners
<1>2. MutexInv /\ [Next]_vars => [Abstract!Next]_Owners
  <2> SUFFICES ASSUME MutexInv, [Next]_vars
               PROVE  Abstract!Next \/ Owners' = Owners
    OBVIOUS
  <2>1. CASE UNCHANGED vars \/ Timer
    BY <2>1 DEF vars, Timer, Owners
  <2>2. ASSUME NEW t \in Threads, Step(t)
        PROVE  Abstract!Next \/ Owners' = Owners
    <3>0. ASSUME NEW q \in Places, NEW r \in Places \ {"won", "critical"},
                 pc[t] = r, q \notin {"won", "critical"},
                 pc' = [pc EXCEPT ![t] = q]
          PROVE  Owners' = Owners
      <4>1. pc'[t] = q /\ \A u \in Threads \ {t} : pc'[u] = pc[u]
        BY <3>0 DEF MutexInv
      <4> QED BY <3>0, <4>1 DEF Owners
    <3>1. CASE CreateBegin(t)
      <4>1. PICK u \in Threads : /\ pc[u] = "new" /\ pc[t] = "run"
                                 /\ pc' = [pc EXCEPT ![t] = "create", ![u] = "made"]
        BY <3>1 DEF CreateBegin
      <4>2. /\ pc'[t] = "create" /\ pc'[u] = "made"
            /\ \A w \in Threads \ {t, u} : pc'[w] = pc[w]
        BY <4>1 DEF MutexInv
      <4> QED BY <4>1, <4>2 DEF Owners
    <3>2. CASE CreateEnd(t)
      <4>1. PICK u \in Threads : /\ pc[u] = "made" /\ pc[t] = "create"
                                 /\ pc' = [pc EXCEPT ![t] = "run", ![u] = "run"]
        BY <3>2 DEF CreateEnd, MutexInv, ChildrenPrivate
      <4>2. /\ pc'[t] = "run" /\ pc'[u] = "run"
            /\ \A w \in Threads \ {t, u} : pc'[w] = pc[w]
        BY <4>1 DEF MutexInv
      <4> QED BY <4>1, <4>2 DEF Owners
    <3>3. CASE value = 0 /\ (Acquire(t) \/ Retry(t))
      <4>1. \A u \in Threads : pc[u] \notin {"won", "critical"}
        BY <3>3 DEF MutexInv, MutualExclusion
      <4>2. /\ pc'[t] \in {"won", "critical"}
            /\ \A u \in Threads \ {t} : pc'[u] = pc[u]
        BY <3>3 DEF Acquire, Retry, Outcome, MutexInv
      <4>3. Owners = {}
        BY <4>1 DEF Owners
      <4>4. Owners' = {t}
        BY <4>1, <4>2 DEF Owners
      <4>5. Abstract!Acquire(t)
        BY <4>3, <4>4 DEF Abstract!Acquire
      <4> QED BY <4>5 DEF Abstract!Next
    <3>4. CASE \/ value # 0 /\ Retry(t)
               \/ Block(t) \/ RetryDel(t) \/ RetryAdd(t) \/ RetrySleep(t) \/ RetryYield(t)
               \/ ExitBegin(t) \/ ExitEnd(t)
      <4>1. \E q \in {"run", "retry", "lost", "unlinked", "queued", "asleep", "exit"} :
               pc' = [pc EXCEPT ![t] = q]
        BY <3>4 DEF Retry, Outcome, Block, RetryDel, RetryAdd, RetrySleep, RetryYield,
                    ExitBegin, ExitEnd
      <4>2. pc[t] \in {"run", "retry", "lost", "unlinked", "queued", "asleep", "exit"}
        BY <3>4 DEF Retry, Outcome, Block, RetryDel, RetryAdd, RetrySleep, RetryYield,
                    ExitBegin, ExitEnd
      <4> QED BY <4>1, <4>2, <3>0 DEF Places, Window
    <3>5. CASE SetHolder(t)
      <4>1. /\ pc[t] = "won" /\ pc'[t] = "critical"
            /\ \A u \in Threads \ {t} : pc'[u] = pc[u]
        BY <3>5 DEF SetHolder, MutexInv
      <4> QED BY <4>1 DEF Owners
    <3>6. CASE Release(t)
      <4>1. /\ pc[t] = "critical" /\ pc'[t] = "run"
            /\ \A u \in Threads \ {t} : pc'[u] = pc[u] /\ pc[u] \notin {"won", "critical"}
        BY <3>6 DEF Release, MutexInv, MutualExclusion
      <4>2. Owners = {t} /\ Owners' = {}
        BY <4>1 DEF Owners
      <4>3. Abstract!Release(t)
        BY <4>2 DEF Abstract!Release
      <4> QED BY <4>3 DEF Abstract!Next
    <3>7. Acquire(t) => value = 0
      BY DEF Acquire, NotTaken
    <3> QED BY <2>2, <3>1, <3>2, <3>3, <3>4, <3>5, <3>6, <3>7 DEF Step
  <2> QED BY <2>1, <2>2 DEF Next
<1>3. Spec => []MutexInv
  <2>1. Init => MutexInv
    BY InitMutexInv
  <2>2. MutexInv /\ [Next]_vars => MutexInv'
    BY NextMutexInv
  <2> QED BY <2>1, <2>2, PTL DEF Spec
<1> QED BY <1>1, <1>2, <1>3, PTL DEF Spec, ImplementsMutex, Abstract!Spec

----------------------------------------------------------------------------
(* The lists of klib/list.h                                                *)

\* s walks once round the list at head, s[1] to s[n] are its threads, and
\* every link of the walk is there in both directions.
IsList(L, head, n, s) ==
    /\ n \in Nat /\ s \in [0 .. n + 1 -> Nodes]
    /\ s[0] = head /\ s[n + 1] = head
    /\ \A i \in 1 .. n : s[i] \in Threads
    /\ \A i, j \in 1 .. n : s[i] = s[j] => i = j
    /\ \A i \in 0 .. n : L.next[s[i]] = s[i + 1] /\ L.prev[s[i + 1]] = s[i]

\* The list at head holds the threads S.
IsRing(L, head, S) ==
    \E n, s : IsList(L, head, n, s) /\ S = {s[i] : i \in 1 .. n}

Links == [next : [Nodes -> Nodes \union {NULL}], prev : [Nodes -> Nodes \union {NULL}]]

Heads == {tasks, waiting_list}

\* A list depends on the links of its own nodes only.
LEMMA RingFrame ==
  ASSUME NEW L, NEW M, NEW head, NEW S, IsRing(L, head, S),
         \A n \in S \union {head} : M.next[n] = L.next[n] /\ M.prev[n] = L.prev[n]
  PROVE  IsRing(M, head, S)
<1>1. PICK n, s : IsList(L, head, n, s) /\ S = {s[i] : i \in 1 .. n}
  BY DEF IsRing
<1>2. \A i \in 0 .. n + 1 : s[i] \in S \union {head}
  BY <1>1 DEF IsList
<1>3. \A i \in 0 .. n : M.next[s[i]] = s[i + 1] /\ M.prev[s[i + 1]] = s[i]
  <2> SUFFICES ASSUME NEW i \in 0 .. n
               PROVE  M.next[s[i]] = s[i + 1] /\ M.prev[s[i + 1]] = s[i]
    OBVIOUS
  <2>1. i \in 0 .. n + 1 /\ i + 1 \in 0 .. n + 1
    BY <1>1 DEF IsList
  <2>2. L.next[s[i]] = s[i + 1] /\ L.prev[s[i + 1]] = s[i]
    BY <1>1 DEF IsList
  <2> QED BY <1>2, <2>1, <2>2
<1>4. IsList(M, head, n, s)
  BY <1>1, <1>3 DEF IsList
<1> QED BY <1>1, <1>4 DEF IsRing

\* The neighbours of a node are on its list, and are linked back to it.
LEMMA RingClosed ==
  ASSUME NEW L, NEW head, NEW S, IsRing(L, head, S)
  PROVE  /\ S \subseteq Threads
         /\ \A n \in S \union {head} :
              /\ L.next[n] \in S \union {head} /\ L.prev[n] \in S \union {head}
              /\ L.prev[L.next[n]] = n /\ L.next[L.prev[n]] = n
<1>1. PICK n, s : IsList(L, head, n, s) /\ S = {s[i] : i \in 1 .. n}
  BY DEF IsRing
<1>2. \A i \in 0 .. n + 1 : s[i] \in S \union {head}
  BY <1>1 DEF IsList
<1>3. S \subseteq Threads
  BY <1>1 DEF IsList
<1>4. ASSUME NEW x \in S \union {head}
      PROVE  /\ L.next[x] \in S \union {head} /\ L.prev[x] \in S \union {head}
             /\ L.prev[L.next[x]] = x /\ L.next[L.prev[x]] = x
  <2>1. PICK i \in 0 .. n : x = s[i]
    BY <1>1 DEF IsList
  <2>2. PICK j \in 1 .. n + 1 : x = s[j]
    BY <1>1 DEF IsList
  <2>3. /\ i + 1 \in 0 .. n + 1
        /\ j - 1 \in 0 .. n /\ j - 1 \in 0 .. n + 1 /\ (j - 1) + 1 = j
    BY <1>1, <2>1, <2>2 DEF IsList
  <2>4. \A m \in 0 .. n : L.next[s[m]] = s[m + 1] /\ L.prev[s[m + 1]] = s[m]
    BY <1>1 DEF IsList
  <2>5. L.next[s[j - 1]] = s[j] /\ L.prev[s[j]] = s[j - 1]
    BY <2>3, <2>4
  <2>6. L.next[s[i]] = s[i + 1] /\ L.prev[s[i + 1]] = s[i]
    BY <2>4
  <2> QED BY <1>2, <2>1, <2>2, <2>3, <2>5, <2>6
<1> QED BY <1>3, <1>4

\* No thread is its own neighbour.
LEMMA RingPrev ==
  ASSUME NEW L, NEW head \in Heads, NEW S, IsRing(L, head, S), NEW u \in S
  PROVE  L.prev[u] # u
<1>1. PICK n, s : IsList(L, head, n, s) /\ S = {s[i] : i \in 1 .. n}
  BY DEF IsRing
<1>2. PICK k \in 1 .. n : u = s[k]
  BY <1>1
<1>3. n \in Nat /\ L.prev[u] = s[k - 1] /\ k - 1 \in 0 .. n /\ u \in Threads
  BY <1>1, <1>2 DEF IsList
<1>4. CASE k = 1
  BY <1>1, <1>3, <1>4, NodesAssumption DEF IsList, Heads
<1>5. CASE k # 1
  <2>1. k - 1 \in 1 .. n
    BY <1>2, <1>3, <1>5
  <2> QED BY <1>1, <1>2, <1>3, <2>1 DEF IsList
<1> QED BY <1>4, <1>5

\* A list whose head leads to itself is empty, and only such a list.
LEMMA RingEmpty ==
  ASSUME NEW L, NEW head \in Heads, NEW S, IsRing(L, head, S)
  PROVE  /\ L.next[head] = head => S = {}
         /\ L.next[head] # head => L.next[head] \in S
<1>1. PICK n, s : IsList(L, head, n, s) /\ S = {s[i] : i \in 1 .. n}
  BY DEF IsRing
<1>2. head \notin Threads
  BY NodesAssumption DEF Heads
<1>3. CASE n = 0
  BY <1>1, <1>3 DEF IsList
<1>4. CASE n # 0
  <2>1. L.next[head] = s[1] /\ 1 \in 1 .. n
    BY <1>1, <1>4 DEF IsList
  <2>2. s[1] \in Threads /\ s[1] \in S
    BY <1>1, <2>1 DEF IsList
  <2> QED BY <1>2, <2>1, <2>2
<1> QED BY <1>3, <1>4

\* list_add_tail puts a new node in front of any node of a list.
LEMMA RingInsert ==
  ASSUME NEW L \in Links, NEW head \in Heads, NEW S, IsRing(L, head, S),
         NEW new \in Threads \ S, NEW dst \in S \union {head}
  PROVE  IsRing(list_add_tail(L, new, dst), head, S \union {new})
<1> DEFINE M == list_add_tail(L, new, dst)
<1>1. PICK n, s : IsList(L, head, n, s) /\ S = {s[i] : i \in 1 .. n}
  BY DEF IsRing
<1>2. PICK k \in 1 .. n + 1 : dst = s[k]
  BY <1>1 DEF IsList
<1>3. head \notin Threads /\ head \in Nodes
  BY NodesAssumption DEF Heads, Nodes
<1> DEFINE r == [i \in 0 .. n + 2 |-> IF i < k THEN s[i] ELSE IF i = k THEN new ELSE s[i - 1]]
<1>4. n \in Nat /\ \A i \in 0 .. n + 1 : s[i] \in Nodes
  BY <1>1 DEF IsList
<1>5. /\ \A i, j \in 0 .. n : s[i] = s[j] => i = j
      /\ \A i, j \in 1 .. n + 1 : s[i] = s[j] => i = j
      /\ \A i \in 0 .. n + 1 : s[i] # new
  <2>1. \A i \in 1 .. n : s[i] # head /\ s[i] # new
    BY <1>1, <1>3 DEF IsList
  <2>2. s[0] = head /\ s[n + 1] = head /\ head # new
    BY <1>1, <1>3 DEF IsList
  <2>3. \A i, j \in 1 .. n : s[i] = s[j] => i = j
    BY <1>1 DEF IsList
  <2> QED BY <1>4, <2>1, <2>2, <2>3
<1>6. L.prev[dst] = s[k - 1] /\ k - 1 \in 0 .. n
  BY <1>1, <1>2 DEF IsList
<1>7. /\ M.next[new] = dst /\ M.prev[new] = s[k - 1]
      /\ M.next[s[k - 1]] = new /\ M.prev[dst] = new
      /\ \A x \in Nodes \ {new, s[k - 1]} : M.next[x] = L.next[x]
      /\ \A x \in Nodes \ {new, dst} : M.prev[x] = L.prev[x]
  <2>1. L.next \in [Nodes -> Nodes \union {NULL}] /\ L.prev \in [Nodes -> Nodes \union {NULL}]
    BY DEF Links
  <2>2. new \in Nodes /\ dst \in Nodes /\ s[k - 1] \in Nodes /\ s[k - 1] # new /\ dst # new
    BY <1>2, <1>4, <1>5, <1>6 DEF Nodes
  <2> QED BY <1>6, <2>1, <2>2 DEF list_add_tail
<1>r. /\ r \in [0 .. n + 2 -> Nodes] /\ r[k] = new
      /\ \A i \in 0 .. n + 2 : /\ i < k => r[i] = s[i]
                               /\ i > k => r[i] = s[i - 1]
  <2>1. \A i \in 0 .. n + 2 : (IF i < k THEN s[i] ELSE IF i = k THEN new ELSE s[i - 1]) \in Nodes
    BY <1>2, <1>4 DEF Nodes
  <2> QED BY <1>2, <1>4, <2>1
<1> HIDE DEF r, M
<1>8. IsList(M, head, n + 1, r)
  <2>1. n + 1 \in Nat /\ r \in [0 .. (n + 1) + 1 -> Nodes]
    <3>1. (n + 1) + 1 = n + 2
      BY <1>4
    <3> QED BY <1>4, <1>r, <3>1
  <2>2. r[0] = head /\ r[(n + 1) + 1] = head
    BY <1>r, <1>1, <1>2 DEF IsList
  <2>3. ASSUME NEW i \in 1 .. n + 1
        PROVE  r[i] \in Threads
    <3>1. \A j \in 1 .. n : s[j] \in Threads
      BY <1>1 DEF IsList
    <3>2. i < k \/ i = k \/ (i > k /\ i - 1 \in 1 .. n)
      BY <1>2, <1>4
    <3> QED BY <1>r, <1>2, <1>4, <3>1, <3>2
  <2>4. \A i, j \in 1 .. n + 1 : r[i] = r[j] => i = j
    BY <1>r, <1>2, <1>4, <1>5
  <2>5. ASSUME NEW i \in 0 .. n + 1
        PROVE  M.next[r[i]] = r[i + 1] /\ M.prev[r[i + 1]] = r[i]
    <3>1. CASE i < k - 1
      <4>1. r[i] = s[i] /\ r[i + 1] = s[i + 1] /\ i \in 0 .. n /\ i + 1 \in 1 .. n
        BY <1>r, <1>2, <1>4, <3>1
      <4>2. s[i] \in Nodes \ {new, s[k - 1]} /\ s[i + 1] \in Nodes \ {new, dst}
        BY <1>2, <1>4, <1>5, <1>6, <3>1, <4>1
      <4> QED BY <1>1, <1>7, <4>1, <4>2 DEF IsList
    <3>2. CASE i = k - 1
      BY <1>r, <1>2, <1>4, <1>7, <3>2
    <3>3. CASE i = k
      BY <1>r, <1>2, <1>4, <1>7, <3>3
    <3>4. CASE i > k
      <4>1. r[i] = s[i - 1] /\ r[i + 1] = s[i] /\ i - 1 \in 1 .. n /\ i \in 1 .. n + 1
        BY <1>r, <1>2, <1>4, <3>4
      <4>2. s[i - 1] \in Nodes \ {new, s[k - 1]} /\ s[i] \in Nodes \ {new, dst}
        BY <1>2, <1>4, <1>5, <1>6, <3>4, <4>1
      <4>3. L.next[s[i - 1]] = s[i] /\ L.prev[s[i]] = s[i - 1]
        <5>1. i - 1 \in 0 .. n /\ (i - 1) + 1 = i
          BY <4>1
        <5> QED BY <1>1, <5>1 DEF IsList
      <4> QED BY <1>7, <4>1, <4>2, <4>3
    <3> QED BY <1>2, <1>4, <3>1, <3>2, <3>3, <3>4
  <2> QED BY <2>1, <2>2, <2>3, <2>4, <2>5 DEF IsList
<1>9. S \union {new} = {r[i] : i \in 1 .. n + 1}
  <2>1. ASSUME NEW x \in S
        PROVE  \E i \in 1 .. n + 1 : x = r[i]
    <3>1. PICK i \in 1 .. n : x = s[i]
      BY <1>1
    <3>2. CASE i < k
      BY <1>r, <1>4, <3>1, <3>2
    <3>3. CASE i >= k
      <4>1. i + 1 \in 1 .. n + 1 /\ r[i + 1] = s[i]
        BY <1>r, <1>2, <1>4, <3>1, <3>3
      <4> QED BY <3>1, <4>1
    <3> QED BY <1>2, <1>4, <3>1, <3>2, <3>3
  <2>2. new = r[k]
    BY <1>r, <1>2, <1>4
  <2>3. ASSUME NEW i \in 1 .. n + 1
        PROVE  r[i] \in S \union {new}
    <3>1. CASE i < k
      BY <1>r, <1>1, <1>2, <1>4, <3>1
    <3>2. CASE i = k
      BY <2>2, <3>2
    <3>3. CASE i > k
      <4>1. i - 1 \in 1 .. n /\ r[i] = s[i - 1]
        BY <1>r, <1>2, <1>4, <3>3
      <4> QED BY <1>1, <4>1
    <3> QED BY <1>2, <1>4, <3>1, <3>2, <3>3
  <2> QED BY <1>2, <2>1, <2>2, <2>3
<1>10. PICK m : m = n + 1
  OBVIOUS
<1>11. IsList(M, head, m, r) /\ S \union {new} = {r[i] : i \in 1 .. m}
  BY <1>8, <1>9, <1>10
<1>12. IsRing(M, head, S \union {new})
  BY <1>11 DEF IsRing
<1> QED BY <1>12 DEF M

\* list_del takes a node out of its list.
LEMMA RingRemove ==
  ASSUME NEW L \in Links, NEW head \in Heads, NEW S, IsRing(L, head, S), NEW entry \in S
  PROVE  IsRing(list_del(L, entry), head, S \ {entry})
<1> DEFINE M == list_del(L, entry)
<1>1. PICK n, s : IsList(L, head, n, s) /\ S = {s[i] : i \in 1 .. n}
  BY DEF IsRing
<1>2. PICK k \in 1 .. n : entry = s[k]
  BY <1>1
<1>3. head \notin Threads /\ head \in Nodes
  BY NodesAssumption DEF Heads, Nodes
<1> DEFINE r == [i \in 0 .. n |-> IF i < k THEN s[i] ELSE s[i + 1]]
<1>4. n \in Nat /\ n >= 1 /\ \A i \in 0 .. n + 1 : s[i] \in Nodes
  BY <1>1, <1>2 DEF IsList
<1>5. /\ \A i, j \in 0 .. n : s[i] = s[j] => i = j
      /\ \A i, j \in 1 .. n + 1 : s[i] = s[j] => i = j
      /\ \A i \in 0 .. n + 1 : i # k => s[i] # entry
  <2>1. \A i \in 1 .. n : s[i] # head
    BY <1>1, <1>3 DEF IsList
  <2>2. s[0] = head /\ s[n + 1] = head
    BY <1>1 DEF IsList
  <2>3. \A i, j \in 1 .. n : s[i] = s[j] => i = j
    BY <1>1 DEF IsList
  <2> QED BY <1>2, <1>4, <2>1, <2>2, <2>3
<1>6. /\ L.prev[entry] = s[k - 1] /\ k - 1 \in 0 .. n
      /\ L.next[entry] = s[k + 1] /\ k + 1 \in 1 .. n + 1
  BY <1>1, <1>2 DEF IsList
<1>7. /\ M.next[s[k - 1]] = s[k + 1] /\ M.prev[s[k + 1]] = s[k - 1]
      /\ \A x \in Nodes \ {entry, s[k - 1]} : M.next[x] = L.next[x]
      /\ \A x \in Nodes \ {entry, s[k + 1]} : M.prev[x] = L.prev[x]
  <2>1. L.next \in [Nodes -> Nodes \union {NULL}] /\ L.prev \in [Nodes -> Nodes \union {NULL}]
    BY DEF Links
  <2>2. /\ entry \in Nodes /\ s[k - 1] \in Nodes /\ s[k + 1] \in Nodes
        /\ s[k - 1] # entry /\ s[k + 1] # entry
    BY <1>2, <1>4, <1>5, <1>6
  <2> QED BY <1>6, <2>1, <2>2 DEF list_del
<1>r. /\ r \in [0 .. n -> Nodes]
      /\ \A i \in 0 .. n : i < k => r[i] = s[i]
      /\ \A i \in 0 .. n : i >= k => r[i] = s[i + 1]
  <2>1. \A i \in 0 .. n : (IF i < k THEN s[i] ELSE s[i + 1]) \in Nodes
    BY <1>2, <1>4
  <2> QED BY <1>2, <1>4, <2>1
<1> HIDE DEF r, M
<1>8. PICK m : m = n - 1
  OBVIOUS
<1>9. IsList(M, head, m, r)
  <2>1. m \in Nat /\ r \in [0 .. m + 1 -> Nodes] /\ m + 1 = n
    BY <1>4, <1>r, <1>8
  <2>2. r[0] = head /\ r[m + 1] = head
    BY <1>1, <1>2, <1>r, <2>1 DEF IsList
  <2>3. ASSUME NEW i \in 1 .. m
        PROVE  r[i] \in Threads
    <3>1. \A j \in 1 .. n : s[j] \in Threads
      BY <1>1 DEF IsList
    <3>2. i \in 1 .. n /\ i + 1 \in 1 .. n /\ (i < k \/ i >= k)
      BY <1>2, <2>1
    <3> QED BY <1>r, <3>1, <3>2, <2>1
  <2>4. \A i, j \in 1 .. m : r[i] = r[j] => i = j
    <3> SUFFICES ASSUME NEW i \in 1 .. m, NEW j \in 1 .. m, r[i] = r[j]
                 PROVE  i = j
      OBVIOUS
    <3>1. /\ i \in 1 .. n + 1 /\ i + 1 \in 1 .. n + 1 /\ i \in 0 .. n
          /\ j \in 1 .. n + 1 /\ j + 1 \in 1 .. n + 1 /\ j \in 0 .. n
      BY <2>1
    <3>2. /\ (i < k /\ r[i] = s[i]) \/ (i >= k /\ r[i] = s[i + 1])
          /\ (j < k /\ r[j] = s[j]) \/ (j >= k /\ r[j] = s[j + 1])
      BY <1>2, <1>r, <3>1
    <3>3. \/ i < k /\ j < k /\ i = j
          \/ i < k /\ j >= k /\ i = j + 1
          \/ i >= k /\ j < k /\ i + 1 = j
          \/ i >= k /\ j >= k /\ i + 1 = j + 1
      BY <1>5, <3>1, <3>2
    <3> QED BY <1>2, <1>4, <3>1, <3>3
  <2>5. ASSUME NEW i \in 0 .. m
        PROVE  M.next[r[i]] = r[i + 1] /\ M.prev[r[i + 1]] = r[i]
    <3>0. \A j \in 0 .. n : L.next[s[j]] = s[j + 1] /\ L.prev[s[j + 1]] = s[j]
      BY <1>1 DEF IsList
    <3>1. CASE i < k - 1
      <4>1. /\ r[i] = s[i] /\ r[i + 1] = s[i + 1] /\ i \in 0 .. n /\ i + 1 \in 1 .. n
        BY <1>2, <1>4, <1>r, <2>1, <3>1
      <4>2. s[i] \in Nodes \ {entry, s[k - 1]} /\ s[i + 1] \in Nodes \ {entry, s[k + 1]}
        BY <1>2, <1>4, <1>5, <1>6, <3>1, <4>1
      <4> QED BY <1>7, <3>0, <4>1, <4>2
    <3>2. CASE i = k - 1
      <4>1. r[i] = s[k - 1] /\ r[i + 1] = s[k + 1]
        BY <1>2, <1>4, <1>r, <2>1, <3>2
      <4> QED BY <1>7, <4>1
    <3>3. CASE i > k - 1
      <4>1. /\ r[i] = s[i + 1] /\ r[i + 1] = s[(i + 1) + 1]
            /\ i + 1 \in 1 .. n /\ (i + 1) + 1 \in 1 .. n + 1
        BY <1>2, <1>4, <1>r, <2>1, <3>3
      <4>2. s[i + 1] \in Nodes \ {entry, s[k - 1]} /\ s[(i + 1) + 1] \in Nodes \ {entry, s[k + 1]}
        BY <1>2, <1>4, <1>5, <1>6, <3>3, <4>1
      <4>3. L.next[s[i + 1]] = s[(i + 1) + 1] /\ L.prev[s[(i + 1) + 1]] = s[i + 1]
        BY <1>4, <3>0, <4>1
      <4> QED BY <1>7, <4>1, <4>2, <4>3
    <3> QED BY <1>2, <1>4, <2>1, <3>1, <3>2, <3>3
  <2> QED BY <2>1, <2>2, <2>3, <2>4, <2>5 DEF IsList
<1>10. S \ {entry} = {r[i] : i \in 1 .. m}
  <2>1. ASSUME NEW x \in S \ {entry}
        PROVE  \E i \in 1 .. m : x = r[i]
    <3>1. PICK i \in 1 .. n : x = s[i]
      BY <1>1
    <3>2. CASE i < k
      <4>1. i \in 1 .. m /\ r[i] = s[i]
        BY <1>2, <1>4, <1>r, <1>8, <3>2
      <4> QED BY <3>1, <4>1
    <3>3. CASE i > k
      <4>1. i - 1 \in 1 .. m /\ r[i - 1] = s[i]
        BY <1>2, <1>4, <1>r, <1>8, <3>3
      <4> QED BY <3>1, <4>1
    <3>4. i # k
      BY <1>2, <3>1
    <3> QED BY <1>2, <1>4, <3>1, <3>2, <3>3, <3>4
  <2>2. ASSUME NEW i \in 1 .. m
        PROVE  r[i] \in S \ {entry}
    <3>1. CASE i < k
      <4>1. i \in 1 .. n /\ i \in 0 .. n + 1 /\ i # k /\ r[i] = s[i]
        BY <1>2, <1>4, <1>r, <1>8, <3>1
      <4> QED BY <1>1, <1>5, <4>1
    <3>2. CASE i >= k
      <4>1. i + 1 \in 1 .. n /\ i + 1 \in 0 .. n + 1 /\ i + 1 # k /\ r[i] = s[i + 1]
        BY <1>2, <1>4, <1>r, <1>8, <3>2
      <4> QED BY <1>1, <1>5, <4>1
    <3> QED BY <1>2, <1>4, <1>8, <3>1, <3>2
  <2> QED BY <2>1, <2>2
<1>11. IsRing(M, head, S \ {entry})
  BY <1>9, <1>10 DEF IsRing
<1> QED BY <1>11 DEF M

\* The links that follow only next agree with a list on its nodes.
LEMMA OnListIs ==
  ASSUME NEW D, NEW head \in Heads, NEW S, IsRing(D, head, S),
         \A n \in S \union {head} : links.next[n] = D.next[n]
  PROVE  OnList(head) = S
<1>1. PICK n, s : IsList(D, head, n, s) /\ S = {s[i] : i \in 1 .. n}
  BY DEF IsRing
<1>2. n \in Nat /\ Cardinality(Threads) \in Nat /\ n <= Cardinality(Threads)
  <2>1. n \in Nat /\ IsFiniteSet(Threads) /\ Cardinality(Threads) \in Nat
    BY <1>1, NodesAssumption, FS_CardinalityType DEF IsList
  <2>2. IsFiniteSet(1 .. n) /\ Cardinality(1 .. n) = n
    BY <2>1, FS_Interval, SMTT(30)
  <2>3. S \subseteq Threads
    BY <1>1 DEF IsList
  <2>4. IsFiniteSet(S) /\ Cardinality(S) <= Cardinality(Threads)
    BY <2>1, <2>3, FS_Subset
  <2> DEFINE f == [i \in 1 .. n |-> s[i]]
  <2>5. f \in Injection(1 .. n, S)
    BY <1>1 DEF IsList, Injection, IsInjective
  <2>6. Cardinality(1 .. n) <= Cardinality(S)
    BY <2>2, <2>4, <2>5, FS_Injection
  <2>7. Cardinality(S) \in Nat
    BY <2>4, FS_CardinalityType
  <2> QED BY <2>1, <2>2, <2>4, <2>6, <2>7
<1> DEFINE C == Cardinality(Threads)
           Def(w) == [k \in 0 .. C |->
                        IF k = 0 THEN links.next[head]
                        ELSE IF w[k - 1] \in Threads THEN links.next[w[k - 1]] ELSE w[k - 1]]
           v == [k \in 0 .. C |-> IF k < n THEN s[k + 1] ELSE head]
<1>3. \A i \in 0 .. n : links.next[s[i]] = s[i + 1]
  <2> SUFFICES ASSUME NEW i \in 0 .. n PROVE links.next[s[i]] = s[i + 1]
    OBVIOUS
  <2>1. s[i] \in S \union {head}
    BY <1>1, <1>2 DEF IsList
  <2> QED BY <1>1, <2>1 DEF IsList
<1>4. head \notin Threads
  BY NodesAssumption DEF Heads
<1>5. v = Def(v)
  <2>1. ASSUME NEW k \in 0 .. C
        PROVE  v[k] = IF k = 0 THEN links.next[head]
                      ELSE IF v[k - 1] \in Threads THEN links.next[v[k - 1]] ELSE v[k - 1]
    <3>1. CASE k = 0
      <4>1. links.next[head] = s[1]
        BY <1>1, <1>2, <1>3 DEF IsList
      <4>2. n = 0 => s[1] = head
        BY <1>1 DEF IsList
      <4> QED BY <1>2, <3>1, <4>1, <4>2
    <3>2. CASE k # 0 /\ k - 1 < n
      <4>1. v[k - 1] = s[k] /\ k \in 1 .. n
        BY <1>2, <3>2
      <4>2. s[k] \in Threads /\ links.next[s[k]] = s[k + 1]
        BY <1>1, <1>2, <1>3, <4>1 DEF IsList
      <4>3. v[k] = s[k + 1]
        <5>1. k = n => s[k + 1] = head
          BY <1>1 DEF IsList
        <5> QED BY <1>2, <4>1, <5>1
      <4> QED BY <3>2, <4>1, <4>2, <4>3
    <3>3. CASE k # 0 /\ k - 1 >= n
      <4>1. v[k - 1] = head /\ v[k] = head
        BY <1>2, <3>3
      <4> QED BY <1>4, <3>3, <4>1
    <3> QED BY <1>2, <3>1, <3>2, <3>3
  <2> HIDE DEF v
  <2>2. v = [k \in 0 .. C |-> v[k]]
    BY DEF v
  <2> QED BY <2>1, <2>2
<1>6. ASSUME NEW w, w = Def(w)
      PROVE  w = v
  <2> DEFINE Bad == {k \in 0 .. C : w[k] # v[k]}
  <2>0. /\ \A k \in 0 .. C : w[k] = Def(w)[k]
        /\ \A k \in 0 .. C : v[k] = Def(v)[k]
    <3> HIDE DEF v, Def
    <3> QED BY <1>5, <1>6
  <2>1. Bad = {}
    <3> SUFFICES ASSUME Bad # {}
                 PROVE  FALSE
      OBVIOUS
    <3>1. Bad \subseteq Nat
      BY <1>2
    <3>2. PICK k \in Bad : \A j \in Bad : ~ (j < k)
      <4>1. PICK k \in Bad : \A j \in Bad : ~ (<<j, k>> \in OpToRel(<, Nat))
        BY <3>1, NatLessThanWellFounded, WFMin
      <4> QED BY <3>1, <4>1 DEF OpToRel
    <3>3. k # 0
      <4> HIDE DEF v
      <4> QED BY <1>2, <2>0, <3>2
    <3>4. k - 1 \in 0 .. C /\ k - 1 < k
      BY <1>2, <3>1, <3>2, <3>3
    <3>5. w[k - 1] = v[k - 1]
      <4> HIDE DEF v
      <4> QED BY <3>2, <3>4
    <3> HIDE DEF v
    <3> QED BY <2>0, <3>2, <3>3, <3>5
  <2>2. w = [k \in 0 .. C |-> w[k]]
    BY <1>6
  <2>3. v = [k \in 0 .. C |-> v[k]]
    OBVIOUS
  <2> HIDE DEF v
  <2> QED BY <2>1, <2>2, <2>3
<1>7. PICK w : w = CHOOSE x : x = Def(x)
  OBVIOUS
<1>8. w = v
  <2>1. w = Def(w)
    <3> HIDE DEF v, Def
    <3> QED BY <1>5, <1>7
  <2> QED BY <1>6, <2>1
<1>9. OnList(head) = {w[k] : k \in 0 .. C} \ {head}
  BY <1>7 DEF OnList
<1>10. S = {v[k] : k \in 0 .. C} \ {head}
  <2>1. ASSUME NEW x \in S
        PROVE  x # head /\ \E k \in 0 .. C : x = v[k]
    <3>1. PICK i \in 1 .. n : x = s[i]
      BY <1>1
    <3>2. i - 1 \in 0 .. C /\ v[i - 1] = s[i]
      BY <1>2, <3>1
    <3>3. x \in Threads
      BY <1>1, <3>1 DEF IsList
    <3> QED BY <1>4, <3>1, <3>2, <3>3
  <2>2. ASSUME NEW k \in 0 .. C, v[k] # head
        PROVE  v[k] \in S
    <3>1. k < n /\ v[k] = s[k + 1] /\ k + 1 \in 1 .. n
      BY <1>2, <2>2
    <3> QED BY <1>1, <3>1
  <2> HIDE DEF v
  <2> QED BY <2>1, <2>2
<1> HIDE DEF v
<1> QED BY <1>8, <1>9, <1>10

\* What is done to one list leaves the other alone.
LEMMA AddFrame ==
  ASSUME NEW L \in Links, NEW h1 \in Heads, NEW h2 \in Heads \ {h1}, NEW S1, NEW S2,
         IsRing(L, h1, S1), IsRing(L, h2, S2), S1 \intersect S2 = {},
         NEW new \in Threads \ (S1 \union S2), NEW dst \in S1 \union {h1}
  PROVE  IsRing(list_add_tail(L, new, dst), h2, S2)
<1>1. h1 \notin Threads /\ h2 \notin Threads /\ S1 \subseteq Threads /\ S2 \subseteq Threads
  BY RingClosed, NodesAssumption DEF Heads
<1>2. L.prev[dst] \in S1 \union {h1}
  BY RingClosed
<1>3. S1 \union {h1} \subseteq Nodes /\ S2 \union {h2} \subseteq Nodes
  BY <1>1 DEF Nodes, Heads
<1>4. \A n \in S2 \union {h2} : /\ list_add_tail(L, new, dst).next[n] = L.next[n]
                                /\ list_add_tail(L, new, dst).prev[n] = L.prev[n]
  BY <1>1, <1>2, <1>3 DEF list_add_tail, Links, Heads
<1> QED BY <1>4, RingFrame

\* list_del leaves the other rings alone.
LEMMA DelFrame ==
  ASSUME NEW L \in Links, NEW h1 \in Heads, NEW h2 \in Heads \ {h1}, NEW S1, NEW S2,
         IsRing(L, h1, S1), IsRing(L, h2, S2), S1 \intersect S2 = {}, NEW entry \in S1
  PROVE  IsRing(list_del(L, entry), h2, S2)
<1>1. h1 \notin Threads /\ h2 \notin Threads /\ S1 \subseteq Threads /\ S2 \subseteq Threads
  BY RingClosed, NodesAssumption DEF Heads
<1>2. L.prev[entry] \in S1 \union {h1} /\ L.next[entry] \in S1 \union {h1}
  BY RingClosed
<1>3. S1 \union {h1} \subseteq Nodes /\ S2 \union {h2} \subseteq Nodes
  BY <1>1 DEF Nodes, Heads
<1>4. \A n \in S2 \union {h2} : /\ list_del(L, entry).next[n] = L.next[n]
                                /\ list_del(L, entry).prev[n] = L.prev[n]
  BY <1>1, <1>2, <1>3 DEF list_del, Links, Heads
<1> QED BY <1>4, RingFrame

\* The list operations write pointers to nodes, or null pointers.
LEMMA AddTyped ==
  ASSUME NEW L \in Links, NEW new \in Nodes, NEW dst \in Nodes
  PROVE  list_add_tail(L, new, dst) \in Links
BY DEF Links, list_add_tail

\* list_del keeps the links well-typed.
LEMMA DelTyped ==
  ASSUME NEW L \in Links, NEW entry \in Nodes
  PROVE  list_del(L, entry) \in Links
BY DEF Links, list_del

\* The successor of a thread of the ring is one of the ring, and is another
\* one if there is another.
LEMMA RingNext ==
  ASSUME NEW L \in Links, NEW S, IsRing(L, tasks, S), NEW x \in S
  PROVE  /\ next_task(L, x) \in S
         /\ \A y \in S : y # x => next_task(L, x) # x
<1>1. PICK n, s : IsList(L, tasks, n, s) /\ S = {s[i] : i \in 1 .. n}
  BY DEF IsRing
<1>2. tasks \notin Threads /\ S \subseteq Threads
  BY NodesAssumption, RingClosed
<1>3. PICK k \in 1 .. n : x = s[k]
  BY <1>1
<1>4. n \in Nat /\ \A i, j \in 1 .. n : s[i] = s[j] => i = j
  BY <1>1 DEF IsList
<1>5. L.next[x] = s[k + 1]
  BY <1>1, <1>3 DEF IsList
<1>6. CASE k = n
  <2>1. L.next[x] = tasks
    BY <1>1, <1>5, <1>6 DEF IsList
  <2>2. L.next[tasks] = s[1] /\ 1 \in 1 .. n
    BY <1>1, <1>3, <1>4 DEF IsList
  <2>3. next_task(L, x) = s[1]
    BY <2>1, <2>2 DEF next_task
  <2>4. ASSUME s[1] = x, NEW y \in S
        PROVE  y = x
    <3>1. k = 1
      BY <1>3, <1>4, <2>2, <2>4
    <3>2. PICK j \in 1 .. n : y = s[j]
      BY <1>1
    <3> QED BY <1>3, <1>4, <1>6, <3>1, <3>2
  <2> QED BY <1>1, <2>2, <2>3, <2>4
<1>7. CASE k # n
  <2>1. k + 1 \in 1 .. n
    BY <1>3, <1>4, <1>7
  <2>2. s[k + 1] \in S /\ s[k + 1] # x
    BY <1>1, <1>3, <1>4, <2>1
  <2>3. next_task(L, x) = s[k + 1]
    BY <1>2, <1>5, <2>2 DEF next_task
  <2> QED BY <2>2, <2>3
<1> QED BY <1>6, <1>7

----------------------------------------------------------------------------
(* The inductive invariant of the lists                                    *)

\* The lists without the half of a list_del that thread_exit has done
Whole ==
    IF pc[current_task] = "exit"
    THEN [next |-> [links.next EXCEPT ![links.prev[child[current_task]]] = child[current_task]],
          prev |-> links.prev]
    ELSE links

\* The threads that are on a list: all but the one mutex_acquire is moving, and
\* with the one thread_exit is taking out
Listed ==
    {t \in Threads : \/ t \in Created /\ ~ (t = current_task /\ pc[t] = "unlinked")
                     \/ pc[current_task] = "exit" /\ t = child[current_task]}

Waiters == {t \in Listed : state[t] = "SLEEPING" \/ (t = current_task /\ pc[t] = "queued")}

Ring == Listed \ Waiters

Linked == IsRing(Whole, tasks, Ring) /\ IsRing(Whole, waiting_list, Waiters)

\* The running thread, and the one that runs next, which is another one unless
\* main is alone. Who has found the mutex taken, and cannot be interrupted any
\* more without a race, still finds it taken.
Running ==
    /\ current_task \in Created
    /\ state[current_task] = IF pc[current_task] = "asleep" THEN "SLEEPING" ELSE "RUNNABLE"
    /\ Main \in Ring /\ pc[Main] \in {"run", "create", "exit"}
    /\ _next_task \in Ring /\ (_next_task = current_task => current_task = Main)
    /\ pc[current_task] \in {"lost", "unlinked", "queued", "asleep"} => value = 1

Others ==
    /\ \A t \in Threads \ {current_task} : pc[t] \notin Window
    /\ \A t \in Threads : pc[t] = "made" => pc[current_task] = "create" /\ t = child[current_task]
    /\ \A t \in tasks_map : pc[t] # "new"
    /\ \A t \in Waiters : t # current_task => pc[t] = "retry"
    /\ \A t \in Listed : state[t] # "UNINIT"

\* What thread_create and thread_exit have done so far
Half ==
    /\ pc[current_task] = "create" =>
          LET u == child[current_task]
          IN  /\ u \in tasks_map /\ state[u] = "RUNNABLE"
              /\ links.next[u] = current_task /\ links.prev[u] = links.prev[current_task]
    /\ pc[current_task] = "exit" =>
          LET u == child[current_task]
          IN  /\ u \in Threads \ (tasks_map \union {current_task, _next_task, Main})
              /\ links.next[links.prev[u]] = links.next[u]

\* A waiter on a free mutex has been preceded by a woken one.
Woken ==
    (value = 0 /\ Waiters \ {current_task} # {}) =>
        \E r \in tasks_map : pc[r] = "retry" /\ state[r] = "RUNNABLE"

ListInv == Linked /\ Running /\ Others /\ Half /\ Woken

\* The types, races or not
Typed ==
    /\ MutexInv
    /\ links \in Links /\ _next_task \in Nodes \union {NULL}
    /\ state \in [Threads -> {"UNINIT", "SLEEPING", "RUNNABLE"}]
    /\ tasks_map \subseteq Threads /\ raced \in BOOLEAN
    /\ \A t \in Threads : pc[t] = "exit" => child[t] \in Threads

SchedInv == Typed /\ (~raced => ListInv)

\* Main is alone in the ring and nobody waits.
LEMMA InitSched ==
  ASSUME Init
  PROVE  SchedInv
<1>1. Typed
  <2>1. links \in Links
    <3> DEFINE f == [n \in Nodes |-> CASE n = Main -> tasks [] n = tasks -> Main
                                       [] n = waiting_list -> waiting_list
                                       [] OTHER -> NULL]
    <3>1. f \in [Nodes -> Nodes \union {NULL}]
      BY NodesAssumption DEF Nodes
    <3>2. links = [next |-> f, prev |-> f]
      BY DEF Init
    <3> QED BY <3>1, <3>2 DEF Links
  <2>2. \A t \in Threads : pc[t] # "exit"
    BY DEF Init
  <2>3. /\ _next_task \in Nodes \union {NULL}
        /\ state \in [Threads -> {"UNINIT", "SLEEPING", "RUNNABLE"}]
        /\ tasks_map \subseteq Threads /\ raced \in BOOLEAN
    BY NodesAssumption DEF Init, Nodes
  <2> QED BY <2>1, <2>2, <2>3, InitMutexInv DEF Typed
<1>2. /\ current_task = Main /\ _next_task = Main /\ pc[Main] = "run" /\ tasks_map = {Main}
      /\ state[Main] = "RUNNABLE" /\ Main \in Threads
      /\ \A t \in Threads \ {Main} : pc[t] = "new"
  BY NodesAssumption DEF Init
<1>3. /\ links.next[tasks] = Main /\ links.next[Main] = tasks
      /\ links.prev[tasks] = Main /\ links.prev[Main] = tasks
      /\ links.next[waiting_list] = waiting_list /\ links.prev[waiting_list] = waiting_list
  BY NodesAssumption DEF Init, Nodes
<1>4. Created = {Main} /\ Listed = {Main} /\ Waiters = {} /\ Ring = {Main} /\ Whole = links
  <2>1. Created = {Main}
    BY <1>2 DEF Created
  <2>2. Listed = {Main}
    BY <1>2, <2>1 DEF Listed
  <2>3. Waiters = {}
    BY <1>2, <2>2 DEF Waiters
  <2> QED BY <1>2, <2>1, <2>2, <2>3 DEF Ring, Whole
<1>5. IsRing(links, tasks, {Main})
  <2> DEFINE s == [i \in 0 .. 2 |-> IF i = 1 THEN Main ELSE tasks]
  <2>1. IsList(links, tasks, 1, s)
    <3>1. s \in [0 .. 1 + 1 -> Nodes] /\ s[0] = tasks /\ s[1 + 1] = tasks /\ s[1] = Main
      BY <1>2 DEF Nodes
    <3>2. \A i \in 0 .. 1 : links.next[s[i]] = s[i + 1] /\ links.prev[s[i + 1]] = s[i]
      <4>1. ASSUME NEW i \in 0 .. 1
            PROVE  links.next[s[i]] = s[i + 1] /\ links.prev[s[i + 1]] = s[i]
        <5>1. CASE i = 0
          BY <1>3, <3>1, <5>1
        <5>2. CASE i = 1
          BY <1>3, <3>1, <5>2
        <5> QED BY <5>1, <5>2
      <4> QED BY <4>1
    <3> HIDE DEF s
    <3> QED BY <1>2, <3>1, <3>2 DEF IsList
  <2>2. {Main} = {s[i] : i \in 1 .. 1}
    OBVIOUS
  <2> HIDE DEF s
  <2> QED BY <2>1, <2>2 DEF IsRing
<1>6. IsRing(links, waiting_list, {})
  <2> DEFINE s == [i \in 0 .. 1 |-> waiting_list]
  <2>1. IsList(links, waiting_list, 0, s)
    BY <1>3 DEF IsList, Nodes
  <2>2. {} = {s[i] : i \in 1 .. 0}
    OBVIOUS
  <2> HIDE DEF s
  <2> QED BY <2>1, <2>2 DEF IsRing
<1>7. Linked
  BY <1>4, <1>5, <1>6 DEF Linked
<1>8. Running
  BY <1>2, <1>4 DEF Running
<1>9. Others /\ Half /\ Woken
  BY <1>2, <1>4 DEF Others, Half, Woken, Window
<1> QED BY <1>1, <1>7, <1>8, <1>9 DEF SchedInv, ListInv

\* Every action keeps the types, also on lists a race has broken.
LEMMA NextTyped ==
  ASSUME Typed, [Next]_vars
  PROVE  Typed'
<1>1. MutexInv'
  BY NextMutexInv DEF Typed
<1> USE DEF Typed
<1>2. CASE UNCHANGED vars
  BY <1>1, <1>2 DEF vars
<1>3. ASSUME NEW L \in Links, task_schedule(L)
      PROVE  _next_task' \in Nodes \union {NULL}
  BY <1>3 DEF task_schedule, next_task, Links, Nodes
<1>4. CASE Timer
  <2>1. /\ UNCHANGED <<links, state, pc, child, tasks_map>>
        /\ raced' \in BOOLEAN
    BY <1>4 DEF Timer
  <2>2. _next_task' \in Nodes \union {NULL}
    BY <1>3, <1>4 DEF Timer
  <2> QED BY <1>1, <2>1, <2>2
<1>5. ASSUME NEW t \in Threads, Step(t)
      PROVE  Typed'
  <2>0. /\ pc \in [Threads -> Places] /\ child \in [Threads -> Threads \union {NULL}]
        /\ t \in Nodes /\ waiting_list \in Nodes
    BY DEF MutexInv, Nodes
  <2>1. CASE CreateBegin(t)
    <3>1. PICK u \in Threads :
             /\ links' = [next |-> [links.next EXCEPT ![u] = t],
                          prev |-> [links.prev EXCEPT ![u] = links.prev[t]]]
             /\ state' = [state EXCEPT ![u] = "RUNNABLE"]
             /\ child' = [child EXCEPT ![t] = u]
             /\ tasks_map' = tasks_map \union {u}
             /\ pc' = [pc EXCEPT ![t] = "create", ![u] = "made"]
             /\ pc[u] = "new" /\ pc[t] = "run"
      BY <2>1 DEF CreateBegin
    <3>2. links' \in Links
      BY <2>0, <3>1 DEF Links, Nodes
    <3>3. \A x \in Threads : pc'[x] = "exit" => child'[x] \in Threads
      BY <2>0, <3>1
    <3>4. UNCHANGED <<_next_task, raced>>
      BY <2>1 DEF CreateBegin
    <3> QED BY <1>1, <3>1, <3>2, <3>3, <3>4
  <2>2. CASE CreateEnd(t)
    <3>1. PICK u \in Threads : u = child[t] /\ pc[u] = "made"
      BY <2>2 DEF CreateEnd, MutexInv, ChildrenPrivate
    <3>2. /\ links' = [next |-> [links.next EXCEPT ![links.prev[u]] = u],
                       prev |-> [links.prev EXCEPT ![t] = u]]
          /\ pc' = [pc EXCEPT ![t] = "run", ![u] = "run"]
          /\ child' = [child EXCEPT ![t] = NULL]
          /\ UNCHANGED <<_next_task, state, tasks_map, raced>>
      BY <2>2, <3>1 DEF CreateEnd
    <3>3. links' \in Links
      BY <3>2 DEF Links, Nodes
    <3>4. \A x \in Threads : pc'[x] = "exit" => child'[x] \in Threads
      BY <2>0, <3>2
    <3> QED BY <1>1, <3>2, <3>3, <3>4
  <2>3. CASE ExitBegin(t)
    <3>1. PICK u \in Threads :
             /\ tasks_map' = tasks_map \ {u}
             /\ links' = [links EXCEPT !.next = [@ EXCEPT ![links.prev[u]] = links.next[u]]]
             /\ child' = [child EXCEPT ![t] = u]
             /\ pc' = [pc EXCEPT ![t] = "exit"]
             /\ raced' \in BOOLEAN
      BY <2>3 DEF ExitBegin
    <3>2. links' \in Links
      <4>1. /\ links.next \in [Nodes -> Nodes \union {NULL}]
            /\ links.prev \in [Nodes -> Nodes \union {NULL}]
            /\ links = [next |-> links.next, prev |-> links.prev]
        BY DEF Links
      <4>2. links' = [next |-> [links.next EXCEPT ![links.prev[u]] = links.next[u]],
                      prev |-> links.prev]
        BY <3>1, <4>1
      <4>3. links.next[u] \in Nodes \union {NULL}
        BY <4>1 DEF Nodes
      <4> QED BY <4>1, <4>2, <4>3 DEF Links
    <3>3. \A x \in Threads : pc'[x] = "exit" => child'[x] \in Threads
      BY <2>0, <3>1
    <3>4. UNCHANGED <<_next_task, state>>
      BY <2>3 DEF ExitBegin
    <3> QED BY <1>1, <3>1, <3>2, <3>3, <3>4
  <2>4. CASE ExitEnd(t)
    <3>1. child[t] \in Threads
      BY <2>4 DEF ExitEnd
    <3>2. links' \in Links
      BY <2>4, <3>1, DelTyped DEF ExitEnd, Nodes
    <3>3. \A x \in Threads : pc'[x] = "exit" => child'[x] \in Threads
      BY <2>0, <2>4 DEF ExitEnd
    <3>4. UNCHANGED <<_next_task, state, tasks_map, raced>>
      BY <2>4 DEF ExitEnd
    <3> QED BY <1>1, <3>2, <3>3, <3>4
  <2>5. ASSUME NEW q \in Places \ {"exit"}, pc' = [pc EXCEPT ![t] = q],
               UNCHANGED <<child, tasks_map, raced>>
        PROVE  /\ \A x \in Threads : pc'[x] = "exit" => child'[x] \in Threads
               /\ tasks_map' \subseteq Threads /\ raced' \in BOOLEAN
    BY <2>0, <2>5
  <2>6. CASE Acquire(t) \/ Retry(t) \/ SetHolder(t)
    <3>1. UNCHANGED <<links, _next_task, state, child, tasks_map, raced>>
      BY <2>6 DEF Acquire, Retry, SetHolder
    <3>2. PICK q \in Places \ {"exit"} : pc' = [pc EXCEPT ![t] = q]
      <4>1. \E q \in {"critical", "won", "lost"} : pc' = [pc EXCEPT ![t] = q]
        BY <2>6 DEF Acquire, Retry, SetHolder, Outcome
      <4> QED BY <4>1 DEF Places, Window
    <3> QED BY <1>1, <2>5, <3>1, <3>2
  <2>7. CASE Block(t)
    <3>1. /\ links' = list_move_to_tail(links, t, waiting_list) /\ task_schedule(links')
          /\ state' = [state EXCEPT ![t] = "SLEEPING"] /\ UNCHANGED <<child, tasks_map, raced>>
          /\ pc' = [pc EXCEPT ![t] = "retry"]
      BY <2>7 DEF Block, Sleep
    <3>2. links' \in Links
      BY <2>0, <3>1, DelTyped, AddTyped DEF list_move_to_tail
    <3>3. _next_task' \in Nodes \union {NULL}
      BY <1>3, <3>1, <3>2
    <3>4. state' \in [Threads -> {"UNINIT", "SLEEPING", "RUNNABLE"}]
      BY <3>1
    <3> QED BY <1>1, <2>5, <3>1, <3>2, <3>3, <3>4 DEF Places
  <2>8. CASE RetryDel(t)
    <3>1. /\ links' = list_del(links, t) /\ pc' = [pc EXCEPT ![t] = "unlinked"]
          /\ UNCHANGED <<_next_task, state, child, tasks_map, raced>>
      BY <2>8 DEF RetryDel
    <3>2. links' \in Links
      BY <2>0, <3>1, DelTyped
    <3> QED BY <1>1, <2>5, <3>1, <3>2 DEF Places, Window
  <2>9. CASE RetryAdd(t)
    <3>1. /\ links' = list_add_tail(links, t, waiting_list) /\ pc' = [pc EXCEPT ![t] = "queued"]
          /\ UNCHANGED <<_next_task, state, child, tasks_map, raced>>
      BY <2>9 DEF RetryAdd
    <3>2. links' \in Links
      BY <2>0, <3>1, AddTyped
    <3> QED BY <1>1, <2>5, <3>1, <3>2 DEF Places, Window
  <2>10. CASE RetrySleep(t)
    <3>1. /\ state' = [state EXCEPT ![t] = "SLEEPING"] /\ pc' = [pc EXCEPT ![t] = "asleep"]
          /\ UNCHANGED <<links, _next_task, child, tasks_map, raced>>
      BY <2>10 DEF RetrySleep, Sleep
    <3>2. state' \in [Threads -> {"UNINIT", "SLEEPING", "RUNNABLE"}]
      BY <3>1
    <3> QED BY <1>1, <2>5, <3>1, <3>2 DEF Places, Window
  <2>11. CASE RetryYield(t)
    <3>1. /\ task_schedule(links) /\ pc' = [pc EXCEPT ![t] = "retry"]
          /\ UNCHANGED <<links, state, child, tasks_map, raced>>
      BY <2>11 DEF RetryYield
    <3>2. _next_task' \in Nodes \union {NULL}
      BY <1>3, <3>1
    <3> QED BY <1>1, <2>5, <3>1, <3>2 DEF Places
  <2>12. CASE Release(t)
    <3>1. pc' = [pc EXCEPT ![t] = "run"] /\ UNCHANGED <<child, tasks_map, raced>>
      BY <2>12 DEF Release
    <3>2. CASE UNCHANGED <<links, _next_task, state>>
      BY <1>1, <2>5, <3>1, <3>2 DEF Places
    <3>3. ASSUME NEW first \in Threads, Wake(first)
          PROVE  Typed'
      <4>1. links' \in Links
        BY <3>3, DelTyped, AddTyped DEF Wake, list_move_to_tail, Nodes
      <4>2. _next_task' \in Nodes /\ state' \in [Threads -> {"UNINIT", "SLEEPING", "RUNNABLE"}]
        BY <3>3 DEF Wake, Nodes
      <4> QED BY <1>1, <2>5, <3>1, <4>1, <4>2 DEF Places
    <3> QED BY <2>12, <3>2, <3>3 DEF Release
  <2> QED BY <1>5, <2>1, <2>2, <2>3, <2>4, <2>6, <2>7, <2>8, <2>9, <2>10, <2>11, <2>12 DEF Step
<1> QED BY <1>2, <1>4, <1>5 DEF Next

\* While the running thread moves nothing, every created thread is on one of
\* the lists: the sleeping ones wait and the others run.
LEMMA Settled ==
  ASSUME Typed, pc[current_task] \notin {"exit", "unlinked", "queued"}
  PROVE  /\ Whole = links /\ Listed = Created
         /\ Waiters = {t \in Created : state[t] = "SLEEPING"}
         /\ Ring = {t \in Created : state[t] # "SLEEPING"}
<1>1. Created \subseteq Threads
  BY DEF Created, Typed
<1>2. Whole = links
  BY DEF Whole
<1>3. Listed = Created
  BY <1>1 DEF Listed
<1>4. Waiters = {t \in Created : state[t] = "SLEEPING"}
  BY <1>3 DEF Waiters
<1> QED BY <1>2, <1>3, <1>4 DEF Ring

\* Steps that leave the lists alone
LEMMA QuietStep ==
  ASSUME Typed, ListInv, NEW t \in Threads \ {Main}, t = current_task,
         NEW q \in {"run", "critical", "won", "lost"},
         pc[t] \in {"run", "critical", "won", "retry"}, pc' = [pc EXCEPT ![t] = q],
         value' = 1 \/ (Waiters = {} /\ q # "lost"),
         UNCHANGED <<links, current_task, _next_task, state, child, tasks_map>>
  PROVE  ListInv'
<1>1. /\ pc \in [Threads -> Places] /\ pc'[t] = q
      /\ \A x \in Threads \ {t} : pc'[x] = pc[x]
  BY DEF Typed, MutexInv
<1>2. Created' = Created
  BY <1>1 DEF Created, Typed
<1>3. Listed = Created /\ Whole = links
  BY Settled
<1>4. Listed' = Listed
  BY <1>1, <1>2, <1>3 DEF Listed, Created, Typed
<1>5. Waiters' = Waiters
  BY <1>1, <1>4 DEF Waiters
<1>6. Ring' = Ring /\ Whole' = Whole
  BY <1>1, <1>3, <1>4, <1>5 DEF Ring, Whole
<1>7. Linked'
  BY <1>5, <1>6 DEF ListInv, Linked
<1>8. Running'
  <2>1. pc'[Main] \in {"run", "create", "exit"}
    BY <1>1, NodesAssumption DEF ListInv, Running
  <2> QED BY <1>1, <1>2, <1>6, <2>1 DEF ListInv, Running
<1>9. Others'
  BY <1>1, <1>4, <1>5 DEF ListInv, Others, Typed
<1>10. Half' /\ Woken'
  BY <1>1, <1>5 DEF ListInv, Half, Woken
<1> QED BY <1>7, <1>8, <1>9, <1>10 DEF ListInv

\* A tick outside the windows only changes who runs.
LEMMA TimerKeeps ==
  ASSUME Typed, ListInv, Timer, pc[current_task] \notin Window
  PROVE  ListInv'
<1>1. /\ current_task' = _next_task /\ _next_task' = next_task(links, _next_task)
      /\ UNCHANGED <<links, state, value, pc, child, tasks_map>>
  BY DEF Timer, task_schedule
<1>2. /\ Whole = links /\ Listed = Created
      /\ Waiters = {t \in Created : state[t] = "SLEEPING"}
      /\ Ring = {t \in Created : state[t] # "SLEEPING"}
  BY Settled DEF Window
<1>3. _next_task \in Ring /\ pc[_next_task] \notin Window
  BY DEF ListInv, Running, Others, Window, Ring, Listed
<1>4. Created' = Created /\ Created \subseteq Threads
  BY <1>1 DEF Created, Typed
<1>5. Whole' = links /\ Listed' = Created
  BY <1>1, <1>3, <1>4 DEF Whole, Listed, Window
<1>6. Waiters' = Waiters
  BY <1>1, <1>2, <1>3, <1>5 DEF Waiters, Window
<1>7. Ring' = Ring
  BY <1>2, <1>5, <1>6 DEF Ring
<1>8. Linked'
  BY <1>1, <1>2, <1>5, <1>6, <1>7 DEF ListInv, Linked
<1>9. Running'
  <2>1. _next_task' \in Ring /\ (_next_task # Main => _next_task' # _next_task)
    BY <1>1, <1>2, <1>3, RingNext DEF ListInv, Linked, Running, Typed
  <2>2. state[_next_task] = "RUNNABLE" /\ _next_task \in Created
    BY <1>2, <1>3, <1>4 DEF Typed, ListInv, Others
  <2> QED BY <1>1, <1>3, <1>4, <1>7, <2>1, <2>2 DEF ListInv, Running, Window
<1>10. Others'
  <2>1. current_task \notin Waiters
    BY <1>2 DEF ListInv, Running, Window
  <2>2. \A t \in Threads : pc[t] # "made"
    BY DEF ListInv, Others, Window
  <2>3. \A t \in Threads : pc[t] \notin Window
    BY DEF ListInv, Others
  <2> QED BY <1>1, <1>2, <1>3, <1>5, <1>6, <2>1, <2>2, <2>3 DEF ListInv, Others
<1>11. Half' /\ Woken'
  <2>1. current_task \notin Waiters /\ _next_task \notin Waiters
    BY <1>2, <1>3 DEF ListInv, Running, Window
  <2> QED BY <1>1, <1>3, <1>6, <2>1 DEF ListInv, Half, Woken, Window
<1> QED BY <1>8, <1>9, <1>10, <1>11 DEF ListInv

\* thread_create makes a thread that is on no list yet.
LEMMA CreateBeginKeeps ==
  ASSUME Typed, ListInv, NEW t \in Threads, CreateBegin(t)
  PROVE  ListInv'
<1>1. PICK u \in Threads :
         /\ pc[u] = "new"
         /\ links' = [next |-> [links.next EXCEPT ![u] = t],
                      prev |-> [links.prev EXCEPT ![u] = links.prev[t]]]
         /\ state' = [state EXCEPT ![u] = "RUNNABLE"]
         /\ child' = [child EXCEPT ![t] = u]
         /\ tasks_map' = tasks_map \union {u}
         /\ pc' = [pc EXCEPT ![t] = "create", ![u] = "made"]
  BY DEF CreateBegin
<1>2. /\ current_task = t /\ pc[t] = "run" /\ u # t
      /\ UNCHANGED <<current_task, _next_task, value>>
  BY <1>1 DEF CreateBegin
<1>3. /\ Whole = links /\ Listed = Created
      /\ Waiters = {x \in Created : state[x] = "SLEEPING"}
      /\ Ring = {x \in Created : state[x] # "SLEEPING"}
  BY <1>2, Settled
<1>4. /\ pc'[t] = "create" /\ pc'[u] = "made" /\ child'[t] = u /\ state'[u] = "RUNNABLE"
      /\ \A x \in Threads \ {t, u} : pc'[x] = pc[x]
      /\ \A x \in Threads \ {u} : state'[x] = state[x]
  BY <1>1, <1>2 DEF Typed, MutexInv
<1>5. u \notin tasks_map /\ u \notin Created
  BY <1>1 DEF ListInv, Others, Created
<1>6. Created' = Created
  BY <1>1, <1>2, <1>4, <1>5 DEF Created, Typed
<1>7. Created \subseteq Threads
  BY DEF Created, Typed
<1>8. Whole' = links' /\ Listed' = Created
  BY <1>2, <1>4, <1>6, <1>7 DEF Whole, Listed
<1>9. Waiters' = Waiters
  BY <1>2, <1>3, <1>4, <1>5, <1>7, <1>8 DEF Waiters
<1>10. Ring' = Ring
  BY <1>3, <1>8, <1>9 DEF Ring
<1>11. \A n \in Nodes \ {u} : links'.next[n] = links.next[n] /\ links'.prev[n] = links.prev[n]
  BY <1>1 DEF Typed, Links
<1>12. Linked'
  <2>1. Ring \subseteq Nodes \ {u} /\ Waiters \subseteq Nodes \ {u}
    BY <1>3, <1>5, <1>7 DEF Nodes
  <2>2. tasks \in Nodes \ {u} /\ waiting_list \in Nodes \ {u}
    BY NodesAssumption DEF Nodes
  <2>3. IsRing(links', tasks, Ring)
    BY <1>3, <1>11, <2>1, <2>2, RingFrame DEF ListInv, Linked
  <2>4. IsRing(links', waiting_list, Waiters)
    BY <1>3, <1>11, <2>1, <2>2, RingFrame DEF ListInv, Linked
  <2> QED BY <1>8, <1>9, <1>10, <2>3, <2>4 DEF Linked
<1>13. Running'
  <2>1. u # Main
    BY <1>1 DEF ListInv, Running
  <2>2. pc'[Main] \in {"run", "create", "exit"}
    BY <1>4, <2>1, NodesAssumption DEF ListInv, Running
  <2> QED BY <1>2, <1>4, <1>6, <1>10, <2>2 DEF ListInv, Running
<1>14. Others'
  <2>1. \A x \in Threads : pc[x] # "made"
    BY <1>2 DEF ListInv, Others
  <2>2. \A x \in Threads \ {t} : pc'[x] \notin Window
    BY <1>2, <1>4 DEF ListInv, Others, Window
  <2>3. \A x \in Waiters : x # t => pc'[x] = "retry"
    BY <1>2, <1>3, <1>4, <1>5, <1>7 DEF ListInv, Others
  <2>4. \A x \in Listed' : state'[x] # "UNINIT"
    BY <1>3, <1>4, <1>5, <1>7, <1>8 DEF ListInv, Others
  <2>5. \A x \in tasks_map' : pc'[x] # "new"
    BY <1>1, <1>4, ZenonT(30) DEF ListInv, Others, Typed
  <2>6. \A x \in Threads : pc'[x] = "made" => x = u
    BY <1>4, <2>1
  <2> QED BY <1>2, <1>4, <1>9, <2>2, <2>3, <2>4, <2>5, <2>6 DEF Others
<1>15. Half'
  BY <1>1, <1>2, <1>4 DEF Half, Typed, Links, Nodes
<1>16. Woken'
  <2>1. \A r \in tasks_map : pc[r] = "retry" /\ state[r] = "RUNNABLE" =>
           r \in tasks_map' /\ pc'[r] = "retry" /\ state'[r] = "RUNNABLE"
    BY <1>1, <1>2, <1>4, <1>5 DEF Typed
  <2> QED BY <1>2, <1>9, <2>1 DEF ListInv, Woken
<1> QED BY <1>12, <1>13, <1>14, <1>15, <1>16 DEF ListInv

\* thread_create puts the thread on the run ring.
LEMMA CreateEndKeeps ==
  ASSUME Typed, ListInv, NEW t \in Threads, CreateEnd(t)
  PROVE  ListInv'
<1>1. PICK u \in Threads : u = child[t] /\ pc[u] = "made"
  BY DEF CreateEnd, Typed, MutexInv, ChildrenPrivate
<1>2. /\ current_task = t /\ pc[t] = "create" /\ u # t
      /\ links' = [next |-> [links.next EXCEPT ![links.prev[u]] = u],
                   prev |-> [links.prev EXCEPT ![t] = u]]
      /\ pc' = [pc EXCEPT ![t] = "run", ![u] = "run"]
      /\ UNCHANGED <<current_task, _next_task, state, value, tasks_map>>
  BY <1>1 DEF CreateEnd
<1>3. /\ Whole = links /\ Listed = Created
      /\ Waiters = {x \in Created : state[x] = "SLEEPING"}
      /\ Ring = {x \in Created : state[x] # "SLEEPING"}
  BY <1>2, Settled
<1>4. /\ pc'[t] = "run" /\ pc'[u] = "run"
      /\ \A x \in Threads \ {t, u} : pc'[x] = pc[x]
  BY <1>2 DEF Typed, MutexInv
<1>5. /\ u \in tasks_map /\ u \notin Created /\ state[u] = "RUNNABLE"
      /\ links.next[u] = t /\ links.prev[u] = links.prev[t]
  BY <1>1, <1>2 DEF ListInv, Half, Created
<1>6. \A x \in Threads : pc[x] = "made" => x = u
  BY <1>1, <1>2 DEF ListInv, Others
<1>7. Created \subseteq Threads /\ Created' = Created \union {u}
  BY <1>2, <1>4, <1>5, <1>6 DEF Created, Typed
<1>8. Whole' = links' /\ Listed' = Created \union {u}
  BY <1>2, <1>4, <1>7 DEF Whole, Listed
<1>9. Waiters' = Waiters
  BY <1>2, <1>3, <1>4, <1>5, <1>8 DEF Waiters
<1>10. Ring' = Ring \union {u}
  BY <1>3, <1>5, <1>8, <1>9 DEF Ring
<1>11. t \in Ring /\ u \notin Ring \union Waiters
  BY <1>2, <1>3, <1>5 DEF ListInv, Running
<1>12. links' = list_add_tail(links, u, t)
  <2>1. links.next \in [Nodes -> Nodes \union {NULL}] /\ links.prev \in [Nodes -> Nodes \union {NULL}]
    BY DEF Typed, Links
  <2>2. [links.next EXCEPT ![u] = t, ![links.prev[t]] = u] = [links.next EXCEPT ![links.prev[t]] = u]
    BY <1>5, <2>1
  <2>3. [links.prev EXCEPT ![u] = links.prev[t], ![t] = u] = [links.prev EXCEPT ![t] = u]
    BY <1>5, <2>1
  <2> QED BY <1>2, <1>5, <2>2, <2>3 DEF list_add_tail
<1>13. Linked'
  <2>1. IsRing(links, tasks, Ring) /\ IsRing(links, waiting_list, Waiters)
    BY <1>3 DEF ListInv, Linked
  <2>2. IsRing(links', tasks, Ring \union {u})
    BY <1>11, <1>12, <2>1, RingInsert DEF Typed, Heads
  <2>3. Ring \intersect Waiters = {} /\ tasks \in Heads /\ waiting_list \in Heads \ {tasks}
    BY NodesAssumption DEF Ring, Heads
  <2>4. IsRing(links', waiting_list, Waiters)
    BY <1>11, <1>12, <2>1, <2>3, AddFrame DEF Typed
  <2> QED BY <1>8, <1>9, <1>10, <2>2, <2>4 DEF Linked
<1>14. Running'
  <2>1. u # Main
    BY <1>1 DEF ListInv, Running
  <2>2. pc'[Main] \in {"run", "create", "exit"}
    BY <1>4, <2>1, NodesAssumption DEF ListInv, Running
  <2> QED BY <1>2, <1>4, <1>7, <1>10, <2>2 DEF ListInv, Running
<1>15. Others'
  <2>1. \A x \in Threads : pc'[x] \notin Window
    BY <1>2, <1>4 DEF ListInv, Others, Window
  <2>2. \A x \in Waiters : x # t => pc'[x] = "retry"
    BY <1>2, <1>3, <1>4, <1>5, <1>7, ZenonT(30) DEF ListInv, Others
  <2>3. \A x \in Threads : pc'[x] # "made"
    BY <1>4, <1>6
  <2>4. \A x \in tasks_map' : pc'[x] # "new"
    BY <1>2, <1>4 DEF ListInv, Others, Typed
  <2>5. \A x \in Listed' : state'[x] # "UNINIT"
    BY <1>2, <1>3, <1>5, <1>8 DEF ListInv, Others
  <2> QED BY <1>2, <1>9, <2>1, <2>2, <2>3, <2>4, <2>5 DEF Others
<1>16. Half'
  BY <1>2, <1>4 DEF Half
<1>17. Woken'
  <2>1. \A r \in tasks_map : pc[r] = "retry" => pc'[r] = "retry"
    BY <1>1, <1>2, <1>4 DEF Typed
  <2> QED BY <1>2, <1>9, <2>1 DEF ListInv, Woken
<1> QED BY <1>13, <1>14, <1>15, <1>16, <1>17 DEF ListInv

\* A thread that goes to sleep leaves the ring for the list of the mutex, and
\* the next one runs.
LEMMA BlockKeeps ==
  ASSUME Typed, ListInv, NEW t \in Threads, Block(t)
  PROVE  ListInv'
<1>1. /\ current_task = t /\ pc[t] = "run" /\ t # Main /\ value = 1
      /\ links' = list_add_tail(list_del(links, t), t, waiting_list)
      /\ state' = [state EXCEPT ![t] = "SLEEPING"]
      /\ _next_task \in Threads /\ current_task' = _next_task
      /\ _next_task' = next_task(links', _next_task)
      /\ pc' = [pc EXCEPT ![t] = "retry"]
      /\ UNCHANGED <<value, child, tasks_map>>
  BY DEF Block, Sleep, task_schedule, list_move_to_tail
<1>2. /\ Whole = links /\ Listed = Created
      /\ Waiters = {x \in Created : state[x] = "SLEEPING"}
      /\ Ring = {x \in Created : state[x] # "SLEEPING"}
  BY <1>1, Settled
<1>3. /\ pc'[t] = "retry" /\ state'[t] = "SLEEPING"
      /\ \A x \in Threads \ {t} : pc'[x] = pc[x] /\ state'[x] = state[x]
  BY <1>1 DEF Typed, MutexInv
<1>4. Created \subseteq Threads /\ Created' = Created
  BY <1>1, <1>3 DEF Created, Typed
<1>5. t \in Ring /\ _next_task \in Ring \ {t} /\ Main \in Ring \ {t}
  BY <1>1, <1>2 DEF ListInv, Running
<1>6. pc'[_next_task] \notin Window
  BY <1>1, <1>3, <1>5 DEF ListInv, Others
<1>7. Whole' = links' /\ Listed' = Created
  BY <1>1, <1>4, <1>6 DEF Whole, Listed, Window
<1>8. Waiters' = Waiters \union {t}
  BY <1>1, <1>2, <1>3, <1>4, <1>5, <1>6, <1>7 DEF Waiters, Window
<1>9. Ring' = Ring \ {t}
  BY <1>2, <1>7, <1>8 DEF Ring
<1>10. IsRing(links', tasks, Ring \ {t}) /\ IsRing(links', waiting_list, Waiters \union {t})
  <2>1. IsRing(links, tasks, Ring) /\ IsRing(links, waiting_list, Waiters) /\ links \in Links
    BY <1>2 DEF ListInv, Linked, Typed
  <2>2. /\ Ring \intersect Waiters = {} /\ tasks \in Heads \ {waiting_list}
        /\ waiting_list \in Heads \ {tasks}
    BY NodesAssumption DEF Ring, Heads
  <2>3. PICK D \in Links : D = list_del(links, t)
    BY <2>1, DelTyped DEF Nodes
  <2>4. IsRing(D, tasks, Ring \ {t})
    BY <1>5, <2>1, <2>2, <2>3, RingRemove
  <2>5. IsRing(D, waiting_list, Waiters)
    BY <1>5, <2>1, <2>2, <2>3, DelFrame
  <2>6. t \in Threads \ Waiters /\ t \in Threads \ (Waiters \union (Ring \ {t}))
    BY <1>5, <2>2
  <2>7. IsRing(links', waiting_list, Waiters \union {t})
    BY <1>1, <2>2, <2>3, <2>5, <2>6, RingInsert
  <2>8. Waiters \intersect (Ring \ {t}) = {}
    BY <2>2
  <2>9. IsRing(list_add_tail(D, t, waiting_list), tasks, Ring \ {t})
    BY <2>2, <2>4, <2>5, <2>6, <2>8, AddFrame
  <2> QED BY <1>1, <2>3, <2>7, <2>9
<1>11. Linked'
  BY <1>7, <1>8, <1>9, <1>10 DEF Linked
<1>12. Running'
  <2>1. links' \in Links
    BY <1>1, AddTyped, DelTyped DEF Typed, Nodes
  <2>2. _next_task' \in Ring \ {t} /\ (_next_task # Main => _next_task' # _next_task)
    BY <1>1, <1>5, <1>10, <2>1, RingNext
  <2>3. state'[_next_task] = "RUNNABLE" /\ _next_task \in Created
    BY <1>2, <1>3, <1>4, <1>5 DEF Typed, ListInv, Others
  <2>4. pc'[Main] \in {"run", "create", "exit"}
    BY <1>1, <1>3, NodesAssumption DEF ListInv, Running
  <2> QED BY <1>1, <1>4, <1>5, <1>6, <1>9, <2>2, <2>3, <2>4 DEF Running, Window
<1>13. Others'
  <2>1. \A x \in Threads : pc'[x] \notin Window
    BY <1>1, <1>3 DEF ListInv, Others, Window
  <2>2. \A x \in Waiters' : pc'[x] = "retry"
    BY <1>1, <1>2, <1>3, <1>4, <1>8 DEF ListInv, Others
  <2>3. \A x \in Threads : pc'[x] # "made"
    BY <1>1, <1>3 DEF ListInv, Others
  <2>4. \A x \in tasks_map' : pc'[x] # "new"
    BY <1>1, <1>3 DEF ListInv, Others, Typed
  <2>5. \A x \in Listed' : state'[x] # "UNINIT"
    BY <1>2, <1>3, <1>4, <1>7 DEF ListInv, Others
  <2> QED BY <2>1, <2>2, <2>3, <2>4, <2>5 DEF Others
<1>14. Half' /\ Woken'
  BY <1>1, <1>6 DEF Half, Woken, Window
<1> QED BY <1>11, <1>12, <1>13, <1>14 DEF ListInv

\* The same in several steps, interrupts on: out of the ring ...
LEMMA RetryDelKeeps ==
  ASSUME Typed, ListInv, NEW t \in Threads, RetryDel(t)
  PROVE  ListInv'
<1>1. /\ current_task = t /\ pc[t] = "lost" /\ links' = list_del(links, t)
      /\ pc' = [pc EXCEPT ![t] = "unlinked"]
      /\ UNCHANGED <<current_task, _next_task, state, value, child, tasks_map>>
  BY DEF RetryDel
<1>2. /\ Whole = links /\ Listed = Created
      /\ Waiters = {x \in Created : state[x] = "SLEEPING"}
      /\ Ring = {x \in Created : state[x] # "SLEEPING"}
  BY <1>1, Settled
<1>3. pc'[t] = "unlinked" /\ \A x \in Threads \ {t} : pc'[x] = pc[x]
  BY <1>1 DEF Typed, MutexInv
<1>4. Created \subseteq Threads /\ Created' = Created
  BY <1>1, <1>3 DEF Created, Typed
<1>5. t \in Ring /\ t # Main /\ value = 1 /\ _next_task # t
  BY <1>1, <1>2 DEF ListInv, Running
<1>6. Whole' = links' /\ Listed' = Created \ {t}
  BY <1>1, <1>3, <1>4 DEF Whole, Listed
<1>7. Waiters' = Waiters
  BY <1>1, <1>2, <1>3, <1>5, <1>6 DEF Waiters
<1>8. Ring' = Ring \ {t}
  BY <1>2, <1>6, <1>7 DEF Ring
<1>9. Linked'
  <2>1. IsRing(links, tasks, Ring) /\ IsRing(links, waiting_list, Waiters) /\ links \in Links
    BY <1>2 DEF ListInv, Linked, Typed
  <2>2. /\ Ring \intersect Waiters = {} /\ tasks \in Heads
        /\ waiting_list \in Heads \ {tasks}
    BY NodesAssumption DEF Ring, Heads
  <2>3. IsRing(links', tasks, Ring \ {t})
    BY <1>1, <1>5, <2>1, <2>2, RingRemove
  <2>4. IsRing(links', waiting_list, Waiters)
    BY <1>1, <1>5, <2>1, <2>2, DelFrame
  <2> QED BY <1>6, <1>7, <1>8, <2>3, <2>4 DEF Linked
<1>10. Running'
  <2>1. pc'[Main] \in {"run", "create", "exit"}
    BY <1>3, <1>5, NodesAssumption DEF ListInv, Running
  <2> QED BY <1>1, <1>3, <1>4, <1>5, <1>8, <2>1 DEF ListInv, Running
<1>11. Others'
  BY <1>1, <1>2, <1>3, <1>4, <1>6, <1>7 DEF ListInv, Others, Typed
<1>12. Half' /\ Woken'
  BY <1>1, <1>3, <1>5 DEF Half, Woken
<1> QED BY <1>9, <1>10, <1>11, <1>12 DEF ListInv

\* ... into the list of the mutex ...
LEMMA RetryAddKeeps ==
  ASSUME Typed, ListInv, NEW t \in Threads, RetryAdd(t)
  PROVE  ListInv'
<1>1. /\ current_task = t /\ pc[t] = "unlinked" /\ links' = list_add_tail(links, t, waiting_list)
      /\ pc' = [pc EXCEPT ![t] = "queued"]
      /\ UNCHANGED <<current_task, _next_task, state, value, child, tasks_map>>
  BY DEF RetryAdd
<1>2. pc'[t] = "queued" /\ \A x \in Threads \ {t} : pc'[x] = pc[x]
  BY <1>1 DEF Typed, MutexInv
<1>3. Created \subseteq Threads /\ Created' = Created /\ t \in Created
  BY <1>1, <1>2 DEF Created, Typed, ListInv, Running
<1>4. Whole = links /\ Listed = Created \ {t}
  BY <1>1, <1>3 DEF Whole, Listed
<1>5. Whole' = links' /\ Listed' = Created
  BY <1>1, <1>2, <1>3 DEF Whole, Listed
<1>6. Waiters' = Waiters \union {t}
  BY <1>1, <1>2, <1>3, <1>4, <1>5 DEF Waiters
<1>7. Ring' = Ring /\ t \notin Ring \union Waiters
  BY <1>4, <1>5, <1>6 DEF Ring, Waiters
<1>8. value = 1 /\ t # Main
  BY <1>1 DEF ListInv, Running
<1>9. Linked'
  <2>1. IsRing(links, tasks, Ring) /\ IsRing(links, waiting_list, Waiters) /\ links \in Links
    BY <1>4 DEF ListInv, Linked, Typed
  <2>2. /\ Waiters \intersect Ring = {} /\ tasks \in Heads \ {waiting_list}
        /\ waiting_list \in Heads /\ t \in Threads \ Waiters /\ t \in Threads \ (Waiters \union Ring)
    BY <1>7, NodesAssumption DEF Ring, Heads
  <2>3. IsRing(links', waiting_list, Waiters \union {t})
    BY <1>1, <2>1, <2>2, RingInsert
  <2>4. IsRing(list_add_tail(links, t, waiting_list), tasks, Ring)
    BY <2>1, <2>2, AddFrame
  <2> QED BY <1>1, <1>5, <1>6, <1>7, <2>3, <2>4 DEF Linked
<1>10. Running'
  <2>1. pc'[Main] \in {"run", "create", "exit"}
    BY <1>2, <1>8, NodesAssumption DEF ListInv, Running
  <2> QED BY <1>1, <1>2, <1>3, <1>7, <1>8, <2>1 DEF ListInv, Running
<1>11. Others'
  <2>1. \A x \in Listed' : state'[x] # "UNINIT"
    BY <1>1, <1>3, <1>4, <1>5 DEF ListInv, Others, Running
  <2>2. \A x \in Waiters' : x # t => pc'[x] = "retry"
    BY <1>1, <1>2, <1>3, <1>4, <1>6 DEF ListInv, Others, Waiters
  <2> QED BY <1>1, <1>2, <2>1, <2>2 DEF ListInv, Others, Typed
<1>12. Half' /\ Woken'
  BY <1>1, <1>2, <1>8 DEF Half, Woken
<1> QED BY <1>9, <1>10, <1>11, <1>12 DEF ListInv

\* ... marked as sleeping ...
LEMMA RetrySleepKeeps ==
  ASSUME Typed, ListInv, NEW t \in Threads, RetrySleep(t)
  PROVE  ListInv'
<1>1. /\ current_task = t /\ pc[t] = "queued" /\ state' = [state EXCEPT ![t] = "SLEEPING"]
      /\ pc' = [pc EXCEPT ![t] = "asleep"]
      /\ UNCHANGED <<links, current_task, _next_task, value, child, tasks_map>>
  BY DEF RetrySleep, Sleep
<1>2. /\ pc'[t] = "asleep" /\ state'[t] = "SLEEPING"
      /\ \A x \in Threads \ {t} : pc'[x] = pc[x] /\ state'[x] = state[x]
  BY <1>1 DEF Typed, MutexInv
<1>3. Created \subseteq Threads /\ Created' = Created /\ t \in Created
  BY <1>1, <1>2 DEF Created, Typed, ListInv, Running
<1>4. Whole = links /\ Listed = Created
  BY <1>1, <1>3 DEF Whole, Listed
<1>5. Whole' = links /\ Listed' = Created
  BY <1>1, <1>2, <1>3 DEF Whole, Listed
<1>6. Waiters' = Waiters
  BY <1>1, <1>2, <1>3, <1>4, <1>5 DEF Waiters
<1>7. Ring' = Ring
  BY <1>4, <1>5, <1>6 DEF Ring
<1>8. value = 1 /\ t # Main
  BY <1>1 DEF ListInv, Running
<1>9. Linked'
  BY <1>4, <1>5, <1>6, <1>7 DEF ListInv, Linked
<1>10. Running'
  <2>1. pc'[Main] \in {"run", "create", "exit"}
    BY <1>2, <1>8, NodesAssumption DEF ListInv, Running
  <2> QED BY <1>1, <1>2, <1>3, <1>7, <1>8, <2>1 DEF ListInv, Running
<1>11. Others'
  <2>1. \A x \in Listed' : state'[x] # "UNINIT"
    BY <1>2, <1>3, <1>4, <1>5 DEF ListInv, Others
  <2>2. \A x \in Waiters' : x # t => pc'[x] = "retry"
    BY <1>1, <1>2, <1>3, <1>4, <1>6 DEF ListInv, Others, Waiters
  <2> QED BY <1>1, <1>2, <2>1, <2>2 DEF ListInv, Others, Typed
<1>12. Half' /\ Woken'
  BY <1>1, <1>2, <1>8 DEF Half, Woken
<1> QED BY <1>9, <1>10, <1>11, <1>12 DEF ListInv

\* ... and away from the processor.
LEMMA RetryYieldKeeps ==
  ASSUME Typed, ListInv, NEW t \in Threads, RetryYield(t)
  PROVE  ListInv'
<1>1. /\ current_task = t /\ pc[t] = "asleep" /\ _next_task \in Threads
      /\ current_task' = _next_task /\ _next_task' = next_task(links, _next_task)
      /\ pc' = [pc EXCEPT ![t] = "retry"]
      /\ UNCHANGED <<links, state, value, child, tasks_map>>
  BY DEF RetryYield, task_schedule
<1>2. /\ Whole = links /\ Listed = Created
      /\ Waiters = {x \in Created : state[x] = "SLEEPING"}
      /\ Ring = {x \in Created : state[x] # "SLEEPING"}
  BY <1>1, Settled
<1>3. pc'[t] = "retry" /\ \A x \in Threads \ {t} : pc'[x] = pc[x]
  BY <1>1 DEF Typed, MutexInv
<1>4. Created \subseteq Threads /\ Created' = Created
  BY <1>1, <1>3 DEF Created, Typed
<1>5. t \in Waiters /\ _next_task \in Ring \ {t} /\ Main \in Ring \ {t} /\ value = 1
  BY <1>1, <1>2 DEF ListInv, Running
<1>6. pc'[_next_task] \notin Window
  BY <1>1, <1>3, <1>5 DEF ListInv, Others
<1>7. Whole' = links /\ Listed' = Created
  BY <1>1, <1>4, <1>6 DEF Whole, Listed, Window
<1>8. Waiters' = Waiters
  BY <1>1, <1>2, <1>6, <1>7 DEF Waiters, Window
<1>9. Ring' = Ring
  BY <1>2, <1>7, <1>8 DEF Ring
<1>10. Linked'
  BY <1>2, <1>7, <1>8, <1>9 DEF ListInv, Linked
<1>11. Running'
  <2>1. _next_task' \in Ring /\ (_next_task # Main => _next_task' # _next_task)
    BY <1>1, <1>2, <1>5, RingNext DEF ListInv, Linked, Typed
  <2>2. state'[_next_task] = "RUNNABLE" /\ _next_task \in Created
    BY <1>1, <1>2, <1>4, <1>5 DEF Typed, ListInv, Others
  <2>3. pc'[Main] \in {"run", "create", "exit"}
    BY <1>3, <1>5, NodesAssumption DEF ListInv, Running
  <2> QED BY <1>1, <1>4, <1>5, <1>6, <1>9, <2>1, <2>2, <2>3 DEF Running, Window
<1>12. Others'
  <2>1. \A x \in Threads : pc'[x] \notin Window
    BY <1>1, <1>3 DEF ListInv, Others, Window
  <2>2. \A x \in Waiters' : pc'[x] = "retry"
    BY <1>1, <1>2, <1>3, <1>4, <1>8 DEF ListInv, Others
  <2>3. \A x \in Threads : pc'[x] # "made"
    BY <1>1, <1>3 DEF ListInv, Others
  <2>4. \A x \in tasks_map' : pc'[x] # "new"
    BY <1>1, <1>3 DEF ListInv, Others, Typed
  <2>5. \A x \in Listed' : state'[x] # "UNINIT"
    BY <1>1, <1>2, <1>7 DEF ListInv, Others
  <2> QED BY <2>1, <2>2, <2>3, <2>4, <2>5 DEF Others
<1>13. Half' /\ Woken'
  BY <1>1, <1>5, <1>6 DEF Half, Woken, Window
<1> QED BY <1>10, <1>11, <1>12, <1>13 DEF ListInv

\* mutex_release puts the first waiter in front of the thread to run next, and
\* it is the woken thread that the others wait for.
LEMMA WakeKeeps ==
  ASSUME Typed, ListInv, NEW t \in Threads, Release(t), links.next[waiting_list] \in Threads
  PROVE  ListInv'
<1>1. PICK f \in Threads : f = links.next[waiting_list]
  OBVIOUS
<1>2. /\ current_task = t /\ pc[t] = "critical"
      /\ links' = list_add_tail(list_del(links, f), f, _next_task)
      /\ _next_task' = f /\ state' = [state EXCEPT ![f] = "RUNNABLE"]
      /\ pc' = [pc EXCEPT ![t] = "run"]
      /\ UNCHANGED <<current_task, child, tasks_map>>
  BY <1>1, NodesAssumption DEF Release, Wake, list_move_to_tail
<1>3. /\ Whole = links /\ Listed = Created
      /\ Waiters = {x \in Created : state[x] = "SLEEPING"}
      /\ Ring = {x \in Created : state[x] # "SLEEPING"}
  BY <1>2, Settled
<1>4. IsRing(links, tasks, Ring) /\ IsRing(links, waiting_list, Waiters) /\ links \in Links
  BY <1>3 DEF ListInv, Linked, Typed
<1>5. /\ Waiters \intersect Ring = {} /\ tasks \in Heads \ {waiting_list}
      /\ waiting_list \in Heads \ {tasks} /\ waiting_list \notin Threads
  BY NodesAssumption DEF Ring, Heads
<1>6. f \in Waiters /\ f \notin Ring
  BY <1>1, <1>4, <1>5, RingEmpty
<1>7. t \in Ring /\ _next_task \in Ring /\ t # Main /\ f # t
  BY <1>2, <1>3, <1>6 DEF ListInv, Running
<1>8. /\ pc'[t] = "run" /\ state'[f] = "RUNNABLE" /\ state[t] = "RUNNABLE"
      /\ \A x \in Threads \ {t} : pc'[x] = pc[x]
      /\ \A x \in Threads \ {f} : state'[x] = state[x]
  BY <1>2 DEF Typed, MutexInv, ListInv, Running
<1>9. Created \subseteq Threads /\ Created' = Created
  BY <1>2, <1>8 DEF Created, Typed
<1>10. Whole' = links' /\ Listed' = Created
  BY <1>2, <1>8, <1>9 DEF Whole, Listed
<1>11. Waiters' = Waiters \ {f}
  BY <1>2, <1>3, <1>8, <1>9, <1>10 DEF Waiters
<1>12. Ring' = Ring \union {f}
  BY <1>3, <1>6, <1>10, <1>11 DEF Ring
<1>13. Linked'
  <2>1. PICK D \in Links : D = list_del(links, f)
    BY <1>4, DelTyped DEF Nodes
  <2>2. IsRing(D, waiting_list, Waiters \ {f})
    BY <1>4, <1>5, <1>6, <2>1, RingRemove
  <2>3. IsRing(D, tasks, Ring)
    BY <1>4, <1>5, <1>6, <2>1, DelFrame
  <2>4. f \in Threads \ Ring /\ f \in Threads \ (Ring \union (Waiters \ {f}))
    BY <1>6
  <2>5. IsRing(list_add_tail(D, f, _next_task), tasks, Ring \union {f})
    BY <1>5, <1>7, <2>3, <2>4, RingInsert
  <2>6. Ring \intersect (Waiters \ {f}) = {}
    BY <1>5
  <2>7. IsRing(list_add_tail(D, f, _next_task), waiting_list, Waiters \ {f})
    BY <1>5, <1>7, <2>2, <2>3, <2>4, <2>6, AddFrame
  <2> QED BY <1>2, <1>10, <1>11, <1>12, <2>1, <2>5, <2>7 DEF Linked
<1>14. Running'
  <2>1. pc'[Main] \in {"run", "create", "exit"}
    BY <1>7, <1>8, NodesAssumption DEF ListInv, Running
  <2> QED BY <1>2, <1>7, <1>8, <1>9, <1>12, <2>1 DEF ListInv, Running
<1>15. Others'
  <2>1. \A x \in Threads : pc'[x] \notin Window
    BY <1>2, <1>8 DEF ListInv, Others, Window
  <2>2. \A x \in Waiters' : pc'[x] = "retry"
    BY <1>2, <1>3, <1>5, <1>7, <1>8, <1>9, <1>11 DEF ListInv, Others
  <2>3. \A x \in Threads : pc'[x] # "made"
    BY <1>2, <1>8 DEF ListInv, Others
  <2>4. \A x \in tasks_map' : pc'[x] # "new"
    BY <1>2, <1>8 DEF ListInv, Others, Typed
  <2>5. \A x \in Listed' : state'[x] # "UNINIT"
    BY <1>3, <1>8, <1>9, <1>10 DEF ListInv, Others
  <2> QED BY <2>1, <2>2, <2>3, <2>4, <2>5 DEF Others
<1>16. Half'
  BY <1>2, <1>8 DEF Half
<1>17. Woken'
  <2>1. f \in tasks_map' /\ pc'[f] = "retry" /\ state'[f] = "RUNNABLE"
    BY <1>2, <1>3, <1>6, <1>7, <1>8 DEF ListInv, Others, Created
  <2> QED BY <2>1 DEF Woken
<1> QED BY <1>13, <1>14, <1>15, <1>16, <1>17 DEF ListInv

\* The first half of thread_exit's list_del can be undone.
LEMMA ExitBeginKeeps ==
  ASSUME Typed, ListInv, NEW t \in Threads, ExitBegin(t), ~raced'
  PROVE  ListInv'
<1>1. PICK u \in Threads \ {Main} :
         /\ u \in tasks_map /\ tasks_map' = tasks_map \ {u}
         /\ links' = [links EXCEPT !.next = [@ EXCEPT ![links.prev[u]] = links.next[u]]]
         /\ child' = [child EXCEPT ![t] = u]
         /\ pc' = [pc EXCEPT ![t] = "exit"]
         /\ raced' = (raced \/ InUse(u))
  BY DEF ExitBegin
<1>2. /\ current_task = t /\ pc[t] = "run"
      /\ UNCHANGED <<current_task, _next_task, state, value>>
  BY DEF ExitBegin
<1>3. /\ u # t /\ u # _next_task /\ ~ (pc[u] = "retry" /\ state[u] = "RUNNABLE")
  BY <1>1, <1>2 DEF InUse
<1>4. /\ Whole = links /\ Listed = Created
      /\ Waiters = {x \in Created : state[x] = "SLEEPING"}
      /\ Ring = {x \in Created : state[x] # "SLEEPING"}
  BY <1>2, Settled
<1>5. /\ pc'[t] = "exit" /\ child'[t] = u
      /\ \A x \in Threads \ {t} : pc'[x] = pc[x]
  BY <1>1 DEF Typed, MutexInv
<1>6. /\ Created \subseteq Threads /\ u \in Created
      /\ \A x \in Threads : pc[x] # "made"
  BY <1>1, <1>2 DEF Created, Typed, ListInv, Others
<1>7. Created' = Created \ {u}
  BY <1>1, <1>2, <1>5, <1>6 DEF Created, Typed
<1>8. Listed' = Listed
  BY <1>2, <1>4, <1>5, <1>6, <1>7 DEF Listed
<1>9. Waiters' = Waiters
  BY <1>2, <1>5, <1>8 DEF Waiters
<1>10. Ring' = Ring
  BY <1>8, <1>9 DEF Ring
<1>11. /\ links.next \in [Nodes -> Nodes \union {NULL}] /\ links.prev \in [Nodes -> Nodes \union {NULL}]
       /\ links = [next |-> links.next, prev |-> links.prev]
  BY DEF Typed, Links
<1>12. links' = [next |-> [links.next EXCEPT ![links.prev[u]] = links.next[u]], prev |-> links.prev]
  BY <1>1, <1>11
<1>13. links.next[links.prev[u]] = u /\ links.prev[u] \in Nodes /\ links.prev[u] # u
  <2>1. PICK head \in Heads, S \in {Ring, Waiters} : IsRing(links, head, S) /\ u \in S
    BY <1>4, <1>6 DEF ListInv, Linked, Heads, Ring
  <2>2. /\ S \subseteq Threads /\ links.prev[u] \in S \union {head} /\ links.next[links.prev[u]] = u
    BY <2>1, RingClosed
  <2> QED BY <2>1, <2>2, RingPrev DEF Nodes, Heads
<1>14. Whole' = links
  <2>1. links'.next = [links.next EXCEPT ![links.prev[u]] = links.next[u]] /\ links'.prev = links.prev
    BY <1>12
  <2>2. [links'.next EXCEPT ![links.prev[u]] = u] = links.next
    BY <1>11, <1>13, <2>1
  <2>3. Whole' = [next |-> [links'.next EXCEPT ![links'.prev[u]] = u], prev |-> links'.prev]
    BY <1>2, <1>5 DEF Whole
  <2> QED BY <1>11, <2>1, <2>2, <2>3
<1>15. Linked'
  BY <1>4, <1>9, <1>10, <1>14 DEF ListInv, Linked
<1>16. Running'
  <2>1. pc'[Main] \in {"run", "create", "exit"}
    BY <1>5, NodesAssumption DEF ListInv, Running
  <2> QED BY <1>2, <1>3, <1>5, <1>7, <1>10, <2>1 DEF ListInv, Running
<1>17. Others'
  <2>1. \A x \in Threads \ {t} : pc'[x] \notin Window
    BY <1>2, <1>5 DEF ListInv, Others
  <2>2. \A x \in Waiters' : x # t => pc'[x] = "retry"
    BY <1>2, <1>4, <1>5, <1>6, <1>9 DEF ListInv, Others
  <2>3. \A x \in Threads : pc'[x] # "made"
    BY <1>5, <1>6
  <2>4. \A x \in tasks_map' : pc'[x] # "new"
    BY <1>1, <1>5 DEF ListInv, Others, Typed
  <2>5. \A x \in Listed' : state'[x] # "UNINIT"
    BY <1>2, <1>8 DEF ListInv, Others
  <2> QED BY <1>2, <2>1, <2>2, <2>3, <2>4, <2>5 DEF Others
<1>18. Half'
  <2>1. links'.next[links'.prev[u]] = links'.next[u]
    BY <1>11, <1>12, <1>13 DEF Nodes
  <2> QED BY <1>1, <1>2, <1>3, <1>5, <2>1 DEF Half
<1>19. Woken'
  <2>1. \A r \in tasks_map : pc[r] = "retry" /\ state[r] = "RUNNABLE" => r \in tasks_map' /\ pc'[r] = "retry"
    BY <1>1, <1>2, <1>3, <1>5 DEF Typed
  <2> QED BY <1>2, <1>9, <2>1 DEF ListInv, Woken
<1> QED BY <1>15, <1>16, <1>17, <1>18, <1>19 DEF ListInv

\* What thread_exit has left to do completes the list_del.
LEMMA ExitUndone ==
  ASSUME Typed, ListInv, pc[current_task] = "exit", NEW u, u = child[current_task]
  PROVE  /\ u \in Threads /\ Whole \in Links
         /\ list_del(links, u) = list_del(Whole, u)
         /\ links.prev = Whole.prev
         /\ \A n \in Nodes : n # u => links.next[n] = list_del(Whole, u).next[n]
<1>1. /\ u \in Threads /\ links.next[links.prev[u]] = links.next[u] /\ current_task \in Threads
  BY DEF Typed, ListInv, Half, MutexInv
<1>2. /\ links.next \in [Nodes -> Nodes \union {NULL}] /\ links.prev \in [Nodes -> Nodes \union {NULL}]
      /\ links = [next |-> links.next, prev |-> links.prev]
  BY DEF Typed, Links
<1>3. Whole = [next |-> [links.next EXCEPT ![links.prev[u]] = u], prev |-> links.prev]
  BY DEF Whole
<1>4. Whole \in Links
  BY <1>1, <1>2, <1>3 DEF Links, Nodes
<1>5. u \in Listed
  BY <1>1 DEF Listed
<1>6. Whole.prev[u] # u
  <2>1. PICK head \in Heads, S \in {Ring, Waiters} : IsRing(Whole, head, S) /\ u \in S
    BY <1>5 DEF ListInv, Linked, Heads, Ring
  <2> QED BY <2>1, RingPrev
<1>7. Whole.prev = links.prev /\ Whole.next = [links.next EXCEPT ![links.prev[u]] = u]
  BY <1>3
<1>8. Whole.next[u] = links.next[u]
  BY <1>1, <1>2, <1>6, <1>7 DEF Nodes
<1>9. [Whole.next EXCEPT ![links.prev[u]] = links.next[u]] = [links.next EXCEPT ![links.prev[u]] = links.next[u]]
  BY <1>2, <1>7
<1>10. list_del(links, u) = list_del(Whole, u)
  <2> DEFINE p == links.prev[u]
             n == links.next[u]
  <2>1. [Whole.next EXCEPT ![p] = n, ![u] = NULL] = [links.next EXCEPT ![p] = n, ![u] = NULL]
    BY <1>9
  <2> QED BY <1>7, <1>8, <2>1 DEF list_del
<1>11. \A n \in Nodes : n # u => links.next[n] = list_del(links, u).next[n]
  BY <1>1, <1>2 DEF list_del
<1> QED BY <1>1, <1>4, <1>7, <1>10, <1>11

\* thread_exit takes the thread off its list.
LEMMA ExitEndKeeps ==
  ASSUME Typed, ListInv, NEW t \in Threads, ExitEnd(t)
  PROVE  ListInv'
<1>1. PICK u : u = child[t]
  OBVIOUS
<1>2. /\ current_task = t /\ pc[t] = "exit" /\ links' = list_del(links, u)
      /\ pc' = [pc EXCEPT ![t] = "run"]
      /\ UNCHANGED <<current_task, _next_task, state, value, tasks_map>>
  BY <1>1 DEF ExitEnd
<1>3. u \in Threads \ (tasks_map \union {t, _next_task, Main})
  BY <1>1, <1>2 DEF ListInv, Half
<1>4. links' = list_del(Whole, u) /\ Whole \in Links
  BY <1>1, <1>2, ExitUndone
<1>5. pc'[t] = "run" /\ \A x \in Threads \ {t} : pc'[x] = pc[x]
  BY <1>2 DEF Typed, MutexInv
<1>6. Created \subseteq Threads /\ Created' = Created /\ u \notin Created
  BY <1>2, <1>3, <1>5 DEF Created, Typed
<1>7. Listed = Created \union {u}
  BY <1>1, <1>2, <1>3, <1>6 DEF Listed
<1>8. Listed' = Created /\ Whole' = links'
  BY <1>2, <1>5, <1>6 DEF Listed, Whole
<1>9. Waiters' = Waiters \ {u} /\ Ring' = Ring \ {u}
  <2>1. Waiters' = Waiters \ {u}
    BY <1>2, <1>5, <1>6, <1>7, <1>8 DEF Waiters
  <2> QED BY <1>6, <1>7, <1>8, <2>1 DEF Ring
<1>10. Linked'
  <2>1. /\ IsRing(Whole, tasks, Ring) /\ IsRing(Whole, waiting_list, Waiters)
        /\ Ring \intersect Waiters = {} /\ Waiters \intersect Ring = {}
        /\ tasks \in Heads \ {waiting_list} /\ waiting_list \in Heads \ {tasks}
    BY NodesAssumption DEF ListInv, Linked, Ring, Heads
  <2>2. CASE u \in Ring
    <3>1. Waiters \ {u} = Waiters
      BY <2>1, <2>2
    <3> QED BY <1>4, <1>8, <1>9, <2>1, <2>2, <3>1, RingRemove, DelFrame DEF Linked
  <2>3. CASE u \in Waiters
    <3>1. Ring \ {u} = Ring
      BY <2>1, <2>3
    <3> QED BY <1>4, <1>8, <1>9, <2>1, <2>3, <3>1, RingRemove, DelFrame DEF Linked
  <2> QED BY <1>7, <2>2, <2>3 DEF Ring
<1>11. Running'
  <2>1. pc'[Main] \in {"run", "create", "exit"}
    BY <1>5, NodesAssumption DEF ListInv, Running
  <2> QED BY <1>2, <1>3, <1>5, <1>6, <1>9, <2>1 DEF ListInv, Running
<1>12. Others'
  <2>1. \A x \in Threads : pc'[x] \notin Window
    BY <1>2, <1>5 DEF ListInv, Others, Window
  <2>2. \A x \in Waiters' : x # t => pc'[x] = "retry"
    BY <1>2, <1>5, <1>6, <1>7, <1>9 DEF ListInv, Others, Waiters
  <2>3. \A x \in Threads : pc'[x] # "made"
    BY <1>2, <1>5 DEF ListInv, Others
  <2>4. \A x \in tasks_map' : pc'[x] # "new"
    BY <1>2, <1>5 DEF ListInv, Others, Typed
  <2>5. \A x \in Listed' : state'[x] # "UNINIT"
    BY <1>2, <1>7, <1>8 DEF ListInv, Others
  <2> QED BY <1>2, <2>1, <2>2, <2>3, <2>4, <2>5 DEF Others
<1>13. Half'
  BY <1>2, <1>5 DEF Half
<1>14. Woken'
  <2>1. \A r \in tasks_map : pc[r] = "retry" => pc'[r] = "retry"
    BY <1>2, <1>5 DEF Typed
  <2> QED BY <1>2, <1>9, <2>1 DEF ListInv, Woken
<1> QED BY <1>10, <1>11, <1>12, <1>13, <1>14 DEF ListInv

\* Every action that is not a race keeps the lists.
LEMMA NextSched ==
  ASSUME SchedInv, [Next]_vars
  PROVE  SchedInv'
<1>1. Typed /\ Typed'
  BY NextTyped DEF SchedInv
<1> SUFFICES ASSUME ~raced'
             PROVE  ListInv'
  BY <1>1 DEF SchedInv
<1>2. CASE UNCHANGED vars
  <2>1. /\ ListInv /\ UNCHANGED <<links, current_task, _next_task, state, value, pc, child, tasks_map>>
    BY <1>2 DEF SchedInv, vars
  <2>2. /\ Created' = Created /\ Whole' = Whole
    BY <2>1 DEF Created, Whole
  <2>3. Listed' = Listed
    BY <2>1, <2>2 DEF Listed
  <2>4. Waiters' = Waiters
    BY <2>1, <2>3 DEF Waiters
  <2>5. Ring' = Ring
    BY <2>3, <2>4 DEF Ring
  <2>6. Linked' /\ Running'
    BY <2>1, <2>2, <2>4, <2>5 DEF ListInv, Linked, Running
  <2>7. Others' /\ Half' /\ Woken'
    BY <2>1, <2>3, <2>4 DEF ListInv, Others, Half, Woken
  <2> QED BY <2>6, <2>7 DEF ListInv
<1>3. CASE Timer
  <2>1. ~raced /\ pc[current_task] \notin Window
    BY <1>3 DEF Timer
  <2> QED BY <1>1, <1>3, <2>1, TimerKeeps DEF SchedInv
<1>4. ASSUME NEW t \in Threads, Step(t)
      PROVE  ListInv'
  <2>0. ListInv
    <3>1. ~raced
      BY <1>4 DEF Step, CreateBegin, CreateEnd, ExitBegin, ExitEnd, Acquire, Block, Retry,
                  SetHolder, RetryDel, RetryAdd, RetrySleep, RetryYield, Release
    <3> QED BY <3>1 DEF SchedInv
  <2>1. CASE CreateBegin(t)
    BY <1>1, <2>0, <2>1, CreateBeginKeeps
  <2>2. CASE CreateEnd(t)
    BY <1>1, <2>0, <2>2, CreateEndKeeps
  <2>3. CASE ExitBegin(t)
    BY <1>1, <2>0, <2>3, ExitBeginKeeps
  <2>4. CASE ExitEnd(t)
    BY <1>1, <2>0, <2>4, ExitEndKeeps
  <2>5. CASE Acquire(t)
    BY <1>1, <2>0, <2>5, QuietStep DEF Acquire
  <2>6. CASE Block(t)
    BY <1>1, <2>0, <2>6, BlockKeeps
  <2>7. CASE Retry(t)
    <3>1. t # Main
      BY <2>0, <2>7 DEF Retry, ListInv, Running
    <3>2. PICK q \in {"won", "lost"} : pc' = [pc EXCEPT ![t] = q]
      BY <2>7 DEF Retry, Outcome
    <3>3. /\ value' = 1 /\ t = current_task /\ pc[t] = "retry"
          /\ UNCHANGED <<links, current_task, _next_task, state, child, tasks_map>>
      BY <2>7 DEF Retry
    <3> QED BY <1>1, <2>0, <3>1, <3>2, <3>3, QuietStep
  <2>8. CASE SetHolder(t)
    <3>1. t # Main
      BY <2>0, <2>8 DEF SetHolder, ListInv, Running
    <3>2. value = 1
      BY <1>1, <2>8 DEF SetHolder, Typed, MutexInv, MutualExclusion
    <3> QED BY <1>1, <2>0, <2>8, <3>1, <3>2, QuietStep DEF SetHolder
  <2>9. CASE RetryDel(t)
    BY <1>1, <2>0, <2>9, RetryDelKeeps
  <2>10. CASE RetryAdd(t)
    BY <1>1, <2>0, <2>10, RetryAddKeeps
  <2>11. CASE RetrySleep(t)
    BY <1>1, <2>0, <2>11, RetrySleepKeeps
  <2>12. CASE RetryYield(t)
    BY <1>1, <2>0, <2>12, RetryYieldKeeps
  <2>13. CASE Release(t)
    <3>1. CASE links.next[waiting_list] \in Threads
      BY <1>1, <2>0, <2>13, <3>1, WakeKeeps
    <3>2. CASE links.next[waiting_list] \notin Threads
      <4>1. t # Main
        BY <2>0, <2>13 DEF Release, ListInv, Running
      <4>2. /\ t = current_task /\ pc[t] = "critical" /\ pc' = [pc EXCEPT ![t] = "run"]
            /\ UNCHANGED <<links, current_task, _next_task, state, child, tasks_map>>
        BY <2>13, <3>2 DEF Release
      <4>3. Waiters = {}
        <5>1. IsRing(links, waiting_list, Waiters)
          BY <1>1, <2>0, <4>2, Settled DEF ListInv, Linked
        <5>2. Waiters \subseteq Threads
          BY DEF Waiters, Listed
        <5> QED BY <3>2, <5>1, <5>2, RingEmpty DEF Heads
      <4> QED BY <1>1, <2>0, <4>1, <4>2, <4>3, QuietStep
    <3> QED BY <3>1, <3>2
  <2> QED BY <1>4, <2>1, <2>2, <2>3, <2>4, <2>5, <2>6, <2>7, <2>8, <2>9, <2>10, <2>11, <2>12,
             <2>13 DEF Step
<1> QED BY <1>2, <1>3, <1>4 DEF Next

\* Following next finds the ring and the waiters, but for the thread that
\* thread_exit has half taken out.
LEMMA OnLists ==
  ASSUME Typed, ListInv
  PROVE  \E Out \in SUBSET (Threads \ tasks_map) :
            /\ pc[current_task] # "exit" => Out = {}
            /\ OnList(tasks) = Ring \ Out /\ OnList(waiting_list) = Waiters \ Out
<1>0. /\ tasks \in Heads \ {waiting_list} /\ waiting_list \in Heads \ {tasks}
      /\ Ring \intersect Waiters = {} /\ Waiters \intersect Ring = {}
      /\ IsRing(Whole, tasks, Ring) /\ IsRing(Whole, waiting_list, Waiters)
  BY NodesAssumption DEF Heads, Ring, ListInv, Linked
<1>1. CASE pc[current_task] # "exit"
  <2>1. Whole = links
    BY <1>1 DEF Whole
  <2>2. OnList(tasks) = Ring /\ OnList(waiting_list) = Waiters
    BY <1>0, <2>1, OnListIs
  <2>3. OnList(tasks) = Ring \ {} /\ OnList(waiting_list) = Waiters \ {}
    BY <2>2
  <2> QED BY <2>3
<1>2. CASE pc[current_task] = "exit"
  <2>1. PICK u : u = child[current_task]
    OBVIOUS
  <2>2. u \in Threads \ tasks_map /\ u \in Listed
    BY <1>2, <2>1 DEF ListInv, Half, Listed
  <2>3. PICK D : D = list_del(Whole, u)
    OBVIOUS
  <2>4. Whole \in Links /\ \A n \in Nodes : n # u => links.next[n] = D.next[n]
    BY <1>2, <2>1, <2>3, ExitUndone
  <2>5. IsRing(D, tasks, Ring \ {u}) /\ IsRing(D, waiting_list, Waiters \ {u})
    <3>1. CASE u \in Ring
      <4>1. Waiters \ {u} = Waiters
        BY <1>0, <3>1
      <4> QED BY <1>0, <2>3, <2>4, <3>1, <4>1, RingRemove, DelFrame
    <3>2. CASE u \in Waiters
      <4>1. Ring \ {u} = Ring
        BY <1>0, <3>2
      <4> QED BY <1>0, <2>3, <2>4, <3>2, <4>1, RingRemove, DelFrame
    <3> QED BY <2>2, <3>1, <3>2 DEF Ring
  <2>6. /\ \A n \in (Ring \ {u}) \union {tasks} : links.next[n] = D.next[n]
        /\ \A n \in (Waiters \ {u}) \union {waiting_list} : links.next[n] = D.next[n]
    <3>1. /\ (Ring \ {u}) \union {tasks} \subseteq Nodes \ {u}
          /\ (Waiters \ {u}) \union {waiting_list} \subseteq Nodes \ {u}
      BY <2>2, NodesAssumption DEF Ring, Waiters, Listed, Nodes
    <3> QED BY <2>4, <3>1
  <2>7. OnList(tasks) = Ring \ {u}
    BY <1>0, <2>5, <2>6, OnListIs
  <2>8. OnList(waiting_list) = Waiters \ {u}
    BY <1>0, <2>5, <2>6, OnListIs
  <2> QED BY <1>2, <2>2, <2>7, <2>8
<1> QED BY <1>1, <1>2

\* The inductive invariant: types always, the lists until the first race.
LEMMA SchedInvariant == Spec => []SchedInv
<1>1. Init => SchedInv
  BY InitSched
<1>2. SchedInv /\ [Next]_vars => SchedInv'
  BY NextSched
<1> QED BY <1>1, <1>2, PTL DEF Spec

\* Every variable keeps its type, and until a race the thread that
\* task_schedule will switch to is a thread and not the head of the ring.
THEOREM TypeCorrect == Spec => []TypeOK
<1>1. SchedInv => TypeOK
  <2> SUFFICES ASSUME SchedInv PROVE TypeOK
    OBVIOUS
  <2>1. ~raced => _next_task \in Threads
    BY DEF SchedInv, ListInv, Running, Ring, Listed
  <2> QED BY <2>1 DEF SchedInv, Typed, MutexInv, TypeOK, Links
<1> QED BY <1>1, SchedInvariant, PTL

\* Until a tick falls into one of the windows that mutex_acquire, thread_create
\* and thread_exit leave open, every TASK_RUNNABLE thread is running or in the
\* ring, where the scheduler finds it.
THEOREM RunnableStaysReady == Spec => []RunnableUntilRaced
<1>1. SchedInv => RunnableUntilRaced
  <2> SUFFICES ASSUME SchedInv, ~raced, NEW t \in Created, state[t] = "RUNNABLE", t # current_task
               PROVE  t \in OnList(tasks)
    BY DEF RunnableUntilRaced, RunnableIsReady
  <2>1. t \in tasks_map /\ t \in Threads
    BY DEF SchedInv, Typed, Created
  <2>2. t \in Ring
    BY <2>1 DEF Ring, Waiters, Listed
  <2>3. PICK Out \in SUBSET (Threads \ tasks_map) : OnList(tasks) = Ring \ Out
    BY OnLists DEF SchedInv
  <2> QED BY <2>1, <2>2, <2>3
<1> QED BY <1>1, SchedInvariant, PTL

\* Until a race, a thread sleeps on the mutex only while it is taken, or while
\* a woken thread is about to take it: mutex_release forgets nobody.
THEOREM NoWakeupLost == Spec => []WakeupUntilRaced
<1>1. SchedInv => WakeupUntilRaced
  <2> SUFFICES ASSUME SchedInv, ~raced, value # 1,
                      NEW t \in OnList(waiting_list), t # current_task
               PROVE  \E r \in tasks_map : pc[r] = "retry" /\ state[r] = "RUNNABLE"
    BY DEF WakeupUntilRaced, NoLostWakeup
  <2>1. value = 0
    BY DEF SchedInv, Typed, MutexInv
  <2>2. PICK Out : OnList(waiting_list) = Waiters \ Out
    BY OnLists DEF SchedInv
  <2> QED BY <2>1, <2>2 DEF SchedInv, ListInv, Woken
<1> QED BY <1>1, SchedInvariant, PTL

\* Until a race, and while the running thread moves nothing, the ring and the
\* waiters of the mutex are the threads of the map, each on one list, linked in
\* both directions, with the running thread and the next one in the ring.
THEOREM ListsStayWhole == Spec => []ListsPartition
<1>1. SchedInv /\ TypeOK => ListsPartition
  <2> SUFFICES ASSUME SchedInv, ~raced, pc[current_task] \notin Window
               PROVE  /\ OnList(tasks) \union OnList(waiting_list) = Created
                      /\ OnList(tasks) \intersect OnList(waiting_list) = {}
                      /\ \A n \in Created \union {tasks, waiting_list} :
                            links.prev[links.next[n]] = n /\ links.next[links.prev[n]] = n
                      /\ {current_task, _next_task} \subseteq OnList(tasks)
    BY DEF ListsPartition
  <2>0. Typed /\ ListInv
    BY DEF SchedInv
  <2>1. OnList(tasks) = Ring /\ OnList(waiting_list) = Waiters
    <3>1. PICK Out : /\ pc[current_task] # "exit" => Out = {}
                     /\ OnList(tasks) = Ring \ Out /\ OnList(waiting_list) = Waiters \ Out
      BY <2>0, OnLists
    <3> QED BY <3>1 DEF Window
  <2>2. /\ Whole = links /\ Listed = Created
        /\ Waiters = {t \in Created : state[t] = "SLEEPING"}
        /\ Ring = {t \in Created : state[t] # "SLEEPING"}
    BY <2>0, Settled DEF Window
  <2>3. Ring \union Waiters = Created /\ Ring \intersect Waiters = {}
    BY <2>2
  <2>4. \A n \in Created \union {tasks, waiting_list} :
           links.prev[links.next[n]] = n /\ links.next[links.prev[n]] = n
    <3>1. IsRing(links, tasks, Ring) /\ IsRing(links, waiting_list, Waiters)
      BY <2>0, <2>2 DEF ListInv, Linked
    <3>2. \A n \in Ring \union {tasks} : links.prev[links.next[n]] = n /\ links.next[links.prev[n]] = n
      BY <3>1, RingClosed
    <3>3. \A n \in Waiters \union {waiting_list} : links.prev[links.next[n]] = n /\ links.next[links.prev[n]] = n
      BY <3>1, RingClosed
    <3> QED BY <2>3, <3>2, <3>3
  <2>5. current_task \in Ring /\ _next_task \in Ring
    BY <2>0, <2>2 DEF ListInv, Running, Window
  <2> QED BY <2>1, <2>3, <2>4, <2>5
<1> QED BY <1>1, SchedInvariant, TypeCorrect, PTL
=============================================================================
