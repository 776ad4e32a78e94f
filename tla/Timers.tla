------------------------------- MODULE Timers -------------------------------
(***************************************************************************)
(* The software timers of kernel/timer.c, driven by the timer interrupt.   *)
(*                                                                         *)
(* A tick walks the list of timers with interrupts off and calls those     *)
(* that have run down. One of them is task_schedule: it switches threads   *)
(* in the middle of the walk, which goes on when the thread runs again,    *)
(* and with interrupts on, since task_schedule ends with sti. The end of   *)
(* interrupt is sent before the walk, so further ticks come meanwhile, to  *)
(* other threads and on top of a walk that goes on.                        *)
(*                                                                         *)
(* One thread registers and unregisters timers, as kernel_main does; the   *)
(* first timer is the one of init_schedule.                                *)
(***************************************************************************)
EXTENDS Naturals, FiniteSets, Sequences, SequencesExt

CONSTANTS
    Threads, Client,      \* the threads, and the one that registers timers
    Timers,               \* where kmalloc can put a timer_t
    NULL,
    TIMER_FRE, TIMER_FREQUENCY_MIN, TIMER_FREQUENCY_MAX,
    Frequencies,          \* the frequencies timers are registered with
    WordSize,             \* elapse is computed modulo it
    MaxNesting            \* bound: ticks a thread is in at the same time

ASSUME TimersAssumption ==
    /\ Client \in Threads /\ NULL \notin Timers /\ IsFiniteSet(Timers)
    /\ {TIMER_FRE, TIMER_FREQUENCY_MIN, TIMER_FREQUENCY_MAX, WordSize, MaxNesting} \subseteq Nat
    /\ TIMER_FREQUENCY_MIN > 0 /\ TIMER_FRE < WordSize
    /\ Frequencies \subseteq Nat

VARIABLES
    timers,         \* the head of the list
    timer,          \* what is at each place: a timer_t, also when it was freed
    allocated,      \* the places kmalloc has given out
    pending,        \* the timer that register_timer is about to link
    current_task,
    walk,           \* for each thread, the calls of timer_schedule on its stack
    age,            \* history: ticks since a timer was linked or last ran down
    broken          \* history: a timer was freed to which somebody points

vars == <<timers, timer, allocated, pending, current_task, walk, age, broken>>

\* A call of timer_schedule: its current_timer, where it is, and whether
\* interrupts are on
Frame == [at : Timers, pc : {"visit", "call", "next"}, on : BOOLEAN]

timer_t == [callback_func : {"task_schedule", "swap_buffer"}, interval : Nat,
            elapse : 0 .. WordSize - 1, next : Timers \union {NULL}]

\* The timers found by following next from the head, cut off after as many
\* steps as there are timers
Chain ==
    LET node[n \in 0 .. Cardinality(Timers)] ==
            IF n = 0 THEN timers ELSE IF node[n - 1] = NULL THEN NULL ELSE timer[node[n - 1]].next
    IN  node

Listed == {Chain[n] : n \in DOMAIN Chain} \ {NULL}

InCall == walk[current_task] # << >>
Top    == Last(walk[current_task])

\* The thread that runs is in no handler, or task_schedule has enabled interrupts.
InterruptsEnabled == InCall => Top.on

SetTop(frame) == walk' = [walk EXCEPT ![current_task] = Front(@) \o frame]

Init ==
    /\ timers = NULL /\ allocated = {} /\ pending = NULL
    /\ timer = [t \in Timers |-> [callback_func |-> "swap_buffer", interval |-> 0,
                                  elapse |-> 0, next |-> NULL]]
    /\ current_task = Client /\ walk = [th \in Threads |-> << >>]
    /\ age = [t \in Timers |-> 0] /\ broken = FALSE

----------------------------------------------------------------------------
(* The interrupt: isr_handler and timer_schedule                           *)

\* A bug to be caught: the end of interrupt is sent when the handler is done.
AcknowledgedLate == \A th \in Threads : walk[th] = << >>

\* isr_handler has sent the end of interrupt before it called the handler.
Acknowledged == InterruptsEnabled /\ Len(walk[current_task]) < MaxNesting

Tick ==
    /\ timers # NULL /\ Acknowledged
    /\ walk' = [walk EXCEPT ![current_task] = Append(@, [at |-> timers, pc |-> "visit", on |-> FALSE])]
    /\ age' = [t \in Timers |-> IF t \in Listed THEN age[t] + 1 ELSE age[t]]
    /\ UNCHANGED <<timers, timer, allocated, pending, current_task, broken>>

\* A bug to be caught: a timer that has run down is not restarted.
RestartForgotten(t) == 0

Restart(t) == timer[t].interval

\* The loop counts current_timer down, and restarts it when it has run down.
Visit ==
    /\ InCall /\ Top.pc = "visit"
    /\ LET t      == Top.at
           elapse == (timer[t].elapse + WordSize - 1) % WordSize
       IN  /\ timer' = [timer EXCEPT ![t].elapse = IF elapse = 0 THEN Restart(t) ELSE elapse]
           /\ age' = IF elapse = 0 THEN [age EXCEPT ![t] = 0] ELSE age
           /\ SetTop(<<[Top EXCEPT !.pc = IF elapse = 0 THEN "call" ELSE "next"]>>)
    /\ UNCHANGED <<timers, allocated, pending, current_task, broken>>

Callback ==
    /\ InCall /\ Top.pc = "call" /\ timer[Top.at].callback_func # "task_schedule"
    /\ SetTop(<<[Top EXCEPT !.pc = "next"]>>)
    /\ UNCHANGED <<timers, timer, allocated, pending, current_task, age, broken>>

\* task_schedule switches to some thread. This one goes on behind the sti.
Switch ==
    /\ InCall /\ Top.pc = "call" /\ timer[Top.at].callback_func = "task_schedule"
    /\ SetTop(<<[Top EXCEPT !.pc = "next", !.on = TRUE]>>)
    /\ current_task' \in Threads
    /\ UNCHANGED <<timers, timer, allocated, pending, age, broken>>

\* current_timer = current_timer->next; the end of the loop is the return
\* from the interrupt.
WalkOn ==
    /\ InCall /\ Top.pc = "next"
    /\ LET next == timer[Top.at].next
       IN  SetTop(IF next = NULL THEN << >> ELSE <<[Top EXCEPT !.at = next, !.pc = "visit"]>>)
    /\ UNCHANGED <<timers, timer, allocated, pending, current_task, age, broken>>

\* A thread gives up the processor outside of any tick (mutex, queue).
Yield ==
    /\ ~InCall /\ (current_task = Client => pending = NULL)
    /\ current_task' \in Threads \ {current_task}
    /\ UNCHANGED <<timers, timer, allocated, pending, walk, age, broken>>

----------------------------------------------------------------------------
(* register_timer and unregister_timer, with interrupts on                 *)

ClientRuns == current_task = Client /\ ~InCall

Interval(frequency) == TIMER_FRE \div frequency

RegisterBegin(frequency) ==
    /\ ClientRuns /\ pending = NULL
    /\ TIMER_FREQUENCY_MIN <= frequency /\ frequency <= TIMER_FREQUENCY_MAX
    /\ \E t \in Timers \ allocated :
          /\ timer' = [timer EXCEPT ![t] =
                [callback_func |-> IF timers = NULL THEN "task_schedule" ELSE "swap_buffer",
                 interval |-> Interval(frequency), elapse |-> Interval(frequency), next |-> timers]]
          /\ allocated' = allocated \union {t} /\ pending' = t
    /\ UNCHANGED <<timers, current_task, walk, age, broken>>

RegisterEnd ==
    /\ ClientRuns /\ pending # NULL
    /\ timers' = pending /\ pending' = NULL /\ age' = [age EXCEPT ![pending] = 0]
    /\ UNCHANGED <<timer, allocated, current_task, walk, broken>>

\* A bug to be caught: prev stays at the head of the list.
PrevStays(t) == timers

\* Where the loop of unregister_timer leaves prev. It starts at the head, so
\* the head is its own prev.
Prev(t) == IF t = timers THEN t ELSE CHOOSE p \in Listed : timer[p].next = t

\* The loop, the unlinking and kfree. A tick in between changes nothing they
\* read.
Unregister(t) ==
    /\ ClientRuns /\ pending = NULL /\ t \in Listed \intersect allocated
    /\ timer' = [timer EXCEPT ![Prev(t)].next = timer[t].next]
    /\ allocated' = allocated \ {t}
    /\ broken' = (broken \/ t = timers \/ \E th \in Threads : \E n \in DOMAIN walk[th] : walk[th][n].at = t)
    /\ age' = [age EXCEPT ![t] = 0]
    /\ UNCHANGED <<timers, pending, current_task, walk>>

----------------------------------------------------------------------------
timer_schedule == Visit \/ Callback \/ Switch \/ WalkOn

Next ==
    \/ Tick \/ timer_schedule \/ Yield
    \/ \E f \in Frequencies : RegisterBegin(f)
    \/ RegisterEnd
    \/ \E t \in Timers : Unregister(t)

\* Ticks keep coming, and a handler goes on whenever its thread runs.
Spec == Init /\ [][Next]_vars /\ WF_vars(Tick) /\ WF_vars(timer_schedule)

----------------------------------------------------------------------------
(* Types: a call of timer_schedule under another one has interrupts on.    *)
TypeOK ==
    /\ timers \in Timers \union {NULL} /\ pending \in Timers \union {NULL}
    /\ timer \in [Timers -> timer_t] /\ allocated \subseteq Timers
    /\ current_task \in Threads
    /\ \A th \in Threads : \A n \in DOMAIN walk[th] :
          /\ walk[th][n] \in Frame
          /\ (n < Len(walk[th]) \/ th # current_task) => walk[th][n].on
    /\ broken \in BOOLEAN

(* No timer is lost: until a timer is freed that is the head of the list,  *)
(* or at which a suspended call of timer_schedule will go on, the list of  *)
(* timers ends and holds those that were registered and not unregistered   *)
(* (register_timer, unregister_timer). The fields keep to their ranges,    *)
(* and a suspended call of timer_schedule is past its sti (TypeOK).        *)
NoTimerLost ==
    /\ TypeOK
    /\ ~broken => Listed = allocated \ {pending} /\ Chain[Cardinality(Timers)] = NULL

(* Every tick counts once for every timer, however often walks of the list *)
(* were suspended by task_schedule or run on top of each other: whenever   *)
(* interrupts are on, a timer has counted down by the ticks since it was   *)
(* linked or last ran down, and runs down after interval of them           *)
(* (timer_schedule).                                                       *)
ExactTicks ==
    InterruptsEnabled /\ ~broken =>
        \A t \in Listed : timer[t].interval > 0 =>
            timer[t].elapse > 0 /\ age[t] + timer[t].elapse = timer[t].interval

Calls(t) == InCall /\ Top.at = t /\ Top.pc = "call"

(* A timer that stays registered is called again and again (timer_schedule *)
(* goes on being entered although it is left in the middle).               *)
TimersFire ==
    \A t \in Timers : <>[](t \in Listed) => []<>Calls(t) \/ <>broken
============================================================================
