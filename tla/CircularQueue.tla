--------------------------- MODULE CircularQueue ---------------------------
(***************************************************************************)
(* The blocking queue of include/klib/queue.h. Its count is changed under  *)
(* a mutex; everything else (the array, begin, the two lists of sleeping   *)
(* threads) is touched with the mutex free and interrupts on.              *)
(*                                                                         *)
(* One action is what a thread does between two points where preemption    *)
(* makes a difference, and any thread may be switched to at each of them.  *)
(* Only a tick takes the processor from a thread in the middle of a change *)
(* to a list (Tick). The lists are in disorder then, and who sleeps and    *)
(* who is woken is not known any more: they are empty from then on, so     *)
(* that every thread may run at any time, or never.                        *)
(***************************************************************************)
EXTENDS Integers, Sequences, SequencesExt

CONSTANTS
    Producers, Consumers,
    Size,         \* queue->size
    ItemsEach,    \* bound: how many elements each producer puts in
    MaxTaken,     \* bound: how many are taken out, once a race has broken the count
    WordSize,     \* count and begin are computed modulo it
    Garbage       \* what an array slot holds before it is written

Threads == Producers \union Consumers
Items   == UNION {{t} \X (1 .. ItemsEach[t]) : t \in Producers}

ASSUME QueueAssumption ==
    /\ Producers \intersect Consumers = {}
    /\ Size \in Nat \ {0} /\ ItemsEach \in [Producers -> Nat] /\ MaxTaken \in Nat
    /\ WordSize \in Nat /\ WordSize > 2 * Size
    /\ Garbage \notin Items

VARIABLES
    begin, count, arr,   \* of the queue
    producer, consumer,  \* the lists of the threads asleep on it
    owners, waiting, try, \* its lock, see SleepingMutex
    pc, index,           \* where each thread is, and its local variable
    made,                \* how many elements each producer has put in
    sent, got,           \* history: elements counted in, elements taken out
    raced,               \* history: a thread ran while another was in a window
    broken               \* history: a tick fell into the middle of a change to a list

queue == <<begin, count, arr>>
lists == <<producer, consumer>>
items == <<made, sent, got>>
mutex == <<owners, waiting, try>>
vars  == <<queue, lists, mutex, pc, index, items, raced, broken>>

lock == INSTANCE SleepingMutex

Init ==
    /\ begin = 0 /\ count = 0 /\ arr = [k \in 0 .. Size - 1 |-> Garbage]
    /\ producer = << >> /\ consumer = << >>
    /\ pc = [t \in Threads |-> "idle"] /\ index = [t \in Threads |-> 0]
    /\ made = [t \in Producers |-> 0] /\ sent = << >> /\ got = << >>
    /\ lock!Init /\ raced = FALSE

\* Where a thread is on no list, or has looked at a list it is about to change
OffLists == {"moving", "waking"}

\* From the test of the count to the end of what is done about it, and while a
\* thread is woken
Window == {"full", "empty", "enter", "early", "index", "store", "read", "wrap"} \union OffLists

\* Thread u is in the middle of a change to a list.
Midway(u) == pc[u] \in OffLists \/ try[u] = "failed"

\* Thread t has the processor and goes from one place in its call to another.
Goes(t, from, to) ==
    /\ broken \/ \A u \in Threads \ {t} : ~Midway(u)
    /\ pc[t] = from /\ pc' = [pc EXCEPT ![t] = to]
    /\ raced' = (raced \/ \E u \in Threads \ {t} : pc[u] \in Window)
    /\ UNCHANGED broken

\* task_schedule, called by the timer, takes the processor from such a thread.
Tick ==
    /\ ~broken /\ \E t \in Threads : Midway(t)
    /\ broken' = TRUE /\ raced' = TRUE
    /\ producer' = << >> /\ consumer' = << >> /\ waiting' = {}
    /\ UNCHANGED <<queue, owners, try, pc, index, items>>

\* A bug to be caught: the count stays.
circular_count_Nothing(add) == count

circular_count(add) == (count + WordSize + add) % WordSize

\* A bug to be caught: nobody is woken.
WakeNobody(asleep) == asleep

\* The first sleeping thread goes back to the run ring.
Wake(asleep) == IF asleep = << >> THEN asleep ELSE Tail(asleep)

\* Thread t puts itself at the end of a list of sleeping threads.
PutOn(asleep, t) == IF broken THEN asleep ELSE Append(asleep, t)

\* circular_count, at the places that call it: mutex_acquire. The count is
\* changed, or looked at, in one action with mutex_release.
CountLock(t) ==
    /\ \E place \in {"test", "enter", "early"} : Goes(t, place, place)
    /\ lock!Acquire(t)
    /\ UNCHANGED <<queue, lists, index, items>>

\* The mutex is taken: the thread sleeps on it.
CountWait(t) ==
    /\ \E place \in {"test", "enter", "early"} : Goes(t, place, place)
    /\ t \notin owners /\ (lock!Block(t) \/ lock!Fail(t) \/ lock!SleepAgain(t))
    /\ UNCHANGED <<queue, lists, index, items>>

----------------------------------------------------------------------------
(* circular_enqueue                                                        *)

EnqueueCall(t) ==
    /\ t \in Producers /\ made[t] < ItemsEach[t] /\ Goes(t, "idle", "test")
    /\ UNCHANGED <<queue, lists, mutex, index, items>>

EnqueueTest(t) ==
    /\ t \in Producers /\ Goes(t, "test", IF count >= Size THEN "full" ELSE "enter")
    /\ lock!Release(t)
    /\ UNCHANGED <<queue, lists, index, items>>

\* list_del ...
EnqueueUnlink(t) ==
    /\ t \in Producers /\ Goes(t, "full", "moving")
    /\ UNCHANGED <<queue, lists, mutex, index, items>>

\* ... list_add_tail, and task_schedule
EnqueueSleep(t) ==
    /\ t \in Producers /\ Goes(t, "moving", "asleep")
    /\ producer' = PutOn(producer, t)
    /\ UNCHANGED <<queue, consumer, mutex, index, items>>

\* The compiler may read begin before the call of circular_count ...
EnqueueEarly(t) ==
    /\ t \in Producers /\ Goes(t, "enter", "early") /\ t \notin owners /\ try[t] = "first"
    /\ index' = [index EXCEPT ![t] = begin]
    /\ UNCHANGED <<queue, lists, mutex, items>>

EnqueueCount(t) ==
    /\ t \in Producers /\ lock!Release(t)
    /\ count' = circular_count(1)
    /\ \/ Goes(t, "early", "store") /\ index' = [index EXCEPT ![t] = (@ + count' - 1) % Size]
       \/ Goes(t, "enter", "index") /\ index' = [index EXCEPT ![t] = count']
    /\ made' = [made EXCEPT ![t] = @ + 1]
    /\ sent' = Append(sent, <<t, made'[t]>>)
    /\ UNCHANGED <<begin, arr, lists, got>>

\* ... or after it.
EnqueueIndex(t) ==
    /\ t \in Producers /\ Goes(t, "index", "store")
    /\ index' = [index EXCEPT ![t] = (begin + @ - 1) % Size]
    /\ UNCHANGED <<queue, lists, mutex, items>>

EnqueueStore(t) ==
    /\ t \in Producers /\ Goes(t, "store", "signal")
    /\ arr' = [arr EXCEPT ![index[t]] = <<t, made[t]>>]
    /\ index' = [index EXCEPT ![t] = 0]
    /\ UNCHANGED <<begin, count, lists, mutex, items>>

\* Is a consumer asleep? ...
EnqueueSignal(t) ==
    /\ t \in Producers /\ Goes(t, "signal", IF consumer = << >> THEN "idle" ELSE "waking")
    /\ UNCHANGED <<queue, lists, mutex, index, items>>

\* ... The first one is moved to the run ring, as the next thread to run.
EnqueueWake(t) ==
    /\ t \in Producers /\ Goes(t, "waking", "idle")
    /\ consumer' = Wake(consumer)
    /\ UNCHANGED <<queue, producer, mutex, index, items>>

----------------------------------------------------------------------------
(* circular_dequeue                                                        *)

DequeueCall(t) ==
    /\ t \in Consumers /\ Len(got) < MaxTaken /\ Goes(t, "idle", "test")
    /\ UNCHANGED <<queue, lists, mutex, index, items>>

DequeueTest(t) ==
    /\ t \in Consumers /\ Goes(t, "test", IF count = 0 THEN "empty" ELSE "enter")
    /\ lock!Release(t)
    /\ UNCHANGED <<queue, lists, index, items>>

DequeueUnlink(t) ==
    /\ t \in Consumers /\ Goes(t, "empty", "moving")
    /\ UNCHANGED <<queue, lists, mutex, index, items>>

DequeueSleep(t) ==
    /\ t \in Consumers /\ Goes(t, "moving", "asleep")
    /\ consumer' = PutOn(consumer, t)
    /\ UNCHANGED <<queue, producer, mutex, index, items>>

DequeueCount(t) ==
    /\ t \in Consumers /\ Goes(t, "enter", "read") /\ lock!Release(t)
    /\ count' = circular_count(-1)
    /\ UNCHANGED <<begin, arr, lists, index, items>>

\* arr[begin++], past the end of the array when two consumers meet here
DequeueRead(t) ==
    /\ t \in Consumers /\ Goes(t, "read", "wrap")
    /\ got' = Append(got, IF begin < Size THEN arr[begin] ELSE Garbage)
    /\ begin' = (begin + 1) % WordSize
    /\ UNCHANGED <<count, arr, lists, mutex, index, made, sent>>

\* A bug to be caught: begin comes round one slot late.
WrapLate(b) == b % (Size + 1)

Wrap(b) == b % Size

DequeueWrap(t) ==
    /\ t \in Consumers /\ Goes(t, "wrap", "signal")
    /\ begin' = Wrap(begin)
    /\ UNCHANGED <<count, arr, lists, mutex, index, items>>

DequeueSignal(t) ==
    /\ t \in Consumers /\ Goes(t, "signal", IF producer = << >> THEN "idle" ELSE "waking")
    /\ UNCHANGED <<queue, lists, mutex, index, items>>

DequeueWake(t) ==
    /\ t \in Consumers /\ Goes(t, "waking", "idle")
    /\ producer' = Wake(producer)
    /\ UNCHANGED <<queue, consumer, mutex, index, items>>

----------------------------------------------------------------------------
Sleeping(t) == t \in Range(producer) \union Range(consumer)

\* A thread that is on the run ring again returns from task_schedule.
Woken(t) ==
    /\ Goes(t, "asleep", "test") /\ ~Sleeping(t)
    /\ UNCHANGED <<queue, lists, mutex, index, items>>

Step(t) ==
    \/ EnqueueCall(t) \/ EnqueueTest(t) \/ EnqueueUnlink(t) \/ EnqueueSleep(t)
    \/ EnqueueEarly(t) \/ EnqueueCount(t) \/ EnqueueIndex(t) \/ EnqueueStore(t)
    \/ EnqueueSignal(t) \/ EnqueueWake(t)
    \/ DequeueCall(t) \/ DequeueTest(t) \/ DequeueUnlink(t) \/ DequeueSleep(t)
    \/ DequeueCount(t) \/ DequeueRead(t) \/ DequeueWrap(t)
    \/ DequeueSignal(t) \/ DequeueWake(t)
    \/ CountLock(t) \/ CountWait(t) \/ Woken(t)

Next == Tick \/ \E t \in Threads : Step(t)

Spec == Init /\ [][Next]_vars

\* Every thread on the run ring gets its turn: one that has to wait goes to sleep
\* in it.
FairSpec == Spec /\ \A t \in Threads : WF_vars(Step(t))

----------------------------------------------------------------------------
(* Properties                                                              *)

\* Every field keeps to its range: begin and count, which are read outside the
\* lock, until a thread is switched to while another is in a window.
TypeOK ==
    /\ ~raced => begin \in 0 .. Size /\ count \in 0 .. Size
    /\ arr \in [0 .. Size - 1 -> Items \union {Garbage}]
    /\ index \in [Threads -> 0 .. WordSize - 1]

\* What CHANGELOG.md calls a concurrent queue: elements come out in the order in
\* which they went in, none is lost, repeated or read before it was written. The
\* code does not keep it: an element is counted in before it is written.
FirstInFirstOut == IsPrefix(got, sent)

\* They do until a thread is switched to while another is in a window of
\* circular_enqueue or circular_dequeue, however the calls are interleaved.
InOrder == ~raced => FirstInFirstOut

\* Whenever no thread is between counting and doing, the count is the number of
\* elements put in less the number taken out, modulo the word: no race loses
\* an update of it, for circular_count makes it under the mutex. Until a switch
\* in a window it also keeps to its range (TypeOK): no slot is used twice.
CountExact ==
    /\ TypeOK
    /\ (\A t \in Threads : pc[t] \notin {"index", "store", "read"}) =>
          count = (Len(sent) - Len(got)) % WordSize

\* Until a switch in a window, no consumer sleeps on elements, and no producer
\* on free slots, unless one that has been woken is on its way to them or the
\* thread that will wake one is.
NobodyForgotten ==
    ~raced =>
        /\ (consumer # << >> /\ count > 0) =>
              \/ \E t \in Consumers : pc[t] \in {"test", "enter"}
                                        \/ (pc[t] = "asleep" /\ ~Sleeping(t))
              \/ \E t \in Producers : pc[t] \in {"index", "store", "signal", "waking"}
        /\ (producer # << >> /\ count < Size) =>
              \/ \E t \in Producers : pc[t] \in {"test", "enter", "early"}
                                        \/ (pc[t] = "asleep" /\ ~Sleeping(t))
              \/ \E t \in Consumers : pc[t] \in {"read", "wrap", "signal", "waking"}

\* If no thread is ever switched to while another is in a window, every
\* element that producers have is taken out at last.
AllDelivered ==
    []~raced => <>(Items \subseteq Range(got))
=============================================================================
