------------------------ MODULE CircularQueueProofs ------------------------
(***************************************************************************)
(* Proofs about CircularQueue, for any number of producers and consumers   *)
(* and any size: the count is exact whatever races there are, and until a  *)
(* switch in a window elements come out in order and nobody is forgotten.  *)
(***************************************************************************)
EXTENDS CircularQueue, FiniteSetTheorems, TLAPS

Places == {"idle", "test", "asleep", "signal"} \union Window

\* x % Size for an x that is less than twice the size
Pos(x) == IF x < Size THEN x ELSE x - Size

\* Elements that were counted in and not taken out
D == Len(sent) - Len(got)

\* Consumers that have counted an element out and not read it
Readers == {t \in Consumers : pc[t] = "read"}

Awake(t) == pc[t] \in {"test", "enter", "early"} \/ (pc[t] = "asleep" /\ ~Sleeping(t))

\* The threads that are after an element, or will wake one that is
Takers == {t \in Consumers : Awake(t)}
            \union {t \in Producers : pc[t] \in {"index", "store", "signal", "waking"}}

\* The threads that are after a free slot, or will wake one that is
Givers == {t \in Producers : Awake(t)}
            \union {t \in Consumers : pc[t] \in {"read", "wrap", "signal", "waking"}}

Typed ==
  /\ begin \in 0 .. WordSize - 1 /\ count \in 0 .. WordSize - 1
  /\ arr \in [0 .. Size - 1 -> Items \union {Garbage}]
  /\ index \in [Threads -> 0 .. WordSize - 1]
  /\ producer \in Seq(Producers) /\ consumer \in Seq(Consumers)
  /\ pc \in [Threads -> Places]
  /\ made \in [Producers -> Nat] /\ sent \in Seq(Items) /\ got \in Seq(Items \union {Garbage})
  /\ raced \in BOOLEAN

\* Where producers and consumers can be, and what a producer still has to put in
Placed ==
  /\ \A t \in Consumers : pc[t] \notin {"full", "early", "index", "store"}
  /\ \A t \in Producers :
        /\ pc[t] \notin {"empty", "read", "wrap"} /\ made[t] <= ItemsEach[t]
        /\ pc[t] \in {"test", "full", "moving", "asleep", "enter", "early"} => made[t] < ItemsEach[t]
        /\ pc[t] \in {"index", "store"} => made[t] >= 1

\* The threads on a list are asleep, and on it once.
ListOK(list) ==
  /\ \A i \in 1 .. Len(list) : pc[list[i]] = "asleep"
  /\ \A i, j \in 1 .. Len(list) : list[i] = list[j] => i = j

\* Equal modulo the word
Same(c, x) == \E q \in Int : c = x + q * WordSize

\* The count
Counted == IsFiniteSet(Readers) /\ Same(count, D - Cardinality(Readers))

\* Until a switch in a window no two threads are in one ...
Alone == \A t, u \in Threads : (pc[t] \in Window /\ pc[u] \in Window) => t = u

\* ... the count is what the thread in its window believes ...
InRange ==
  /\ count \in 0 .. Size /\ D \in 0 .. Size /\ begin \in 0 .. Size
  /\ (\A t \in Consumers : pc[t] # "read") => count = D
  /\ (\A t \in Consumers : pc[t] # "wrap") => begin < Size
  /\ \A t \in Producers :
        /\ pc[t] \in {"enter", "early"} => count < Size
        /\ pc[t] = "early" => index[t] = begin
        /\ pc[t] \in {"full", "moving"} => count = Size
        /\ pc[t] \in {"index", "store"} =>
              /\ D >= 1 /\ sent[Len(sent)] = <<t, made[t]>>
              /\ index[t] = IF pc[t] = "store" THEN Pos(begin + D - 1) ELSE D
  /\ \A t \in Consumers :
        /\ pc[t] = "enter" => count > 0
        /\ pc[t] \in {"empty", "moving"} => count = 0
        /\ pc[t] = "read" => count = D - 1

\* ... and the elements are in the array, from begin on, the last one unless
\* its producer has yet to store it.
Stored ==
  /\ \A k \in 1 .. Len(got) : got[k] = sent[k]
  /\ \A j \in 0 .. D - 1 :
        (j = D - 1 => \A t \in Producers : pc[t] \notin {"index", "store"}) =>
           arr[Pos(Pos(begin) + j)] = sent[Len(got) + 1 + j]

\* While a consumer sleeps there are as many threads after the elements as
\* there are elements, and likewise with producers and free slots.
Remembered ==
  /\ consumer # << >> => count <= Cardinality(Takers)
  /\ producer # << >> => Size - count <= Cardinality(Givers)

Finite == IsFiniteSet(Takers) /\ IsFiniteSet(Givers)

\* A tick in the middle of a change to a list is a race.
Told == broken => raced

IInv ==
  /\ Typed /\ Told /\ Placed /\ ListOK(producer) /\ ListOK(consumer) /\ Counted /\ Finite
  /\ ~raced => Alone /\ InRange /\ Stored /\ Remembered

----------------------------------------------------------------------------
(* Arithmetic                                                              *)

\* There is one remainder.
LEMMA Remainder ==
  ASSUME NEW n \in Nat \ {0}, NEW q \in Int, NEW r \in 0 .. n - 1, NEW x \in Int, x = q * n + r
  PROVE  x % n = r
<1> DEFINE d == x \div n
           m == x % n
<1>1. d \in Int /\ m \in 0 .. n - 1 /\ x = n * d + m
  OBVIOUS
<1> HIDE DEF d, m
<1>2. n * (q - d) = m - r
  BY <1>1
<1>3. \A k \in Int : k >= 1 => n * k >= n
  OBVIOUS
<1>4. ~(q - d >= 1)
  BY <1>1, <1>2, <1>3
<1>5. ~(d - q >= 1)
  <2>1. n * (d - q) = r - m
    BY <1>1, <1>2
  <2> QED BY <1>1, <1>3, <2>1
<1>6. q = d
  BY <1>1, <1>4, <1>5
<1>7. m = r
  BY <1>1, <1>6
<1> QED BY <1>7 DEF m

\* Remainders of small numbers
LEMMA SmallRemainder ==
  ASSUME NEW n \in Nat \ {0}, NEW x \in 0 .. 2 * n
  PROVE  x % n = IF x < n THEN x ELSE IF x < 2 * n THEN x - n ELSE 0
<1>1. CASE x < n
  <2>1. x = 0 * n + x /\ x \in 0 .. n - 1
    BY <1>1
  <2> QED BY <1>1, <2>1, Remainder
<1>2. CASE n <= x /\ x < 2 * n
  <2>1. x = 1 * n + (x - n) /\ x - n \in 0 .. n - 1
    BY <1>2
  <2> QED BY <1>2, <2>1, Remainder
<1>3. CASE x = 2 * n
  <2>1. x = 2 * n + 0 /\ 0 \in 0 .. n - 1
    BY <1>3
  <2> QED BY <1>3, <2>1, Remainder
<1> QED BY <1>1, <1>2, <1>3

\* What the module assumes of its constants
LEMMA Constants ==
  /\ Size \in Nat \ {0} /\ WordSize \in Nat \ {0} /\ WordSize > 2 * Size
  /\ ItemsEach \in [Producers -> Nat] /\ Producers \intersect Consumers = {}
  /\ Threads = Producers \union Consumers
BY QueueAssumption DEF Threads

\* An index that comes round at the end of the array
LEMMA Rounds ==
  ASSUME NEW x \in 0 .. 2 * Size - 1
  PROVE  x % Size = Pos(x) /\ Pos(x) \in 0 .. Size - 1
<1>1. x \in 0 .. 2 * Size /\ x < 2 * Size /\ Size \in Nat \ {0}
  BY Constants
<1>2. x % Size = IF x < Size THEN x ELSE IF x < 2 * Size THEN x - Size ELSE 0
  BY <1>1, SmallRemainder
<1> QED BY <1>1, <1>2 DEF Pos

\* circular_count(1), in words of WordSize
LEMMA CountUp ==
  ASSUME count \in 0 .. WordSize - 1
  PROVE  /\ circular_count(1) = IF count + 1 < WordSize THEN count + 1 ELSE 0
         /\ circular_count(1) \in 0 .. WordSize - 1
<1>1. count + WordSize + 1 \in 0 .. 2 * WordSize
  BY Constants
<1>2. (count + WordSize + 1) % WordSize = IF count + 1 < WordSize THEN count + 1 ELSE 0
  BY <1>1, Constants, SmallRemainder
<1> QED BY <1>2, Constants DEF circular_count

\* circular_count(-1): below 0 it wraps.
LEMMA CountDown ==
  ASSUME count \in 0 .. WordSize - 1
  PROVE  /\ circular_count(-1) = IF count > 0 THEN count - 1 ELSE WordSize - 1
         /\ circular_count(-1) \in 0 .. WordSize - 1
<1> DEFINE x == count + WordSize + (-1)
<1>1. x \in 0 .. 2 * WordSize /\ x = count + WordSize - 1
  BY Constants
<1> HIDE DEF x
<1>2. x % WordSize = IF x < WordSize THEN x ELSE IF x < 2 * WordSize THEN x - WordSize ELSE 0
  BY <1>1, Constants, SmallRemainder
<1>3. x % WordSize = IF count > 0 THEN count - 1 ELSE WordSize - 1
  BY <1>1, <1>2, Constants
<1>4. circular_count(-1) = x % WordSize
  BY DEF circular_count, x
<1> QED BY <1>3, <1>4, Constants DEF circular_count

----------------------------------------------------------------------------
(* Sets that change by one element                                         *)

\* Two sets that differ in one element at most have cardinalities that do.
LEMMA Change ==
  ASSUME NEW S, IsFiniteSet(S), NEW T, NEW x, S \ {x} = T \ {x}
  PROVE  /\ IsFiniteSet(T) /\ Cardinality(S) \in Nat /\ Cardinality(T) \in Nat
         /\ x \in S /\ x \in T => Cardinality(T) = Cardinality(S)
         /\ x \notin S /\ x \notin T => Cardinality(T) = Cardinality(S)
         /\ x \in S /\ x \notin T => Cardinality(T) = Cardinality(S) - 1
         /\ x \notin S /\ x \in T => Cardinality(T) = Cardinality(S) + 1
<1>0. Cardinality(S) \in Nat
  BY FS_CardinalityType
<1>1. CASE (x \in S) <=> (x \in T)
  <2>1. S = T
    BY <1>1
  <2> QED BY <1>0, <1>1, <2>1
<1>2. CASE x \in S /\ x \notin T
  <2>1. T = S \ {x}
    BY <1>2
  <2>2. IsFiniteSet(T) /\ Cardinality(T) = Cardinality(S) - 1
    BY <1>2, <2>1, FS_RemoveElement
  <2>3. Cardinality(T) \in Nat
    BY <2>2, FS_CardinalityType
  <2> QED BY <1>0, <1>2, <2>2, <2>3
<1>3. CASE x \notin S /\ x \in T
  <2>1. T = S \union {x}
    BY <1>3
  <2> QED BY <1>0, <1>3, <2>1, FS_AddElement
<1> QED BY <1>1, <1>2, <1>3

----------------------------------------------------------------------------
(* Steps of one thread                                                     *)

\* What a step of thread t changes, and what it says if it was no race
LEMMA GoesFacts ==
  ASSUME Typed, Told, NEW t \in Threads, NEW from, NEW to \in Places, Goes(t, from, to)
  PROVE  /\ pc' \in [Threads -> Places] /\ pc[t] = from /\ pc'[t] = to
         /\ \A u \in Threads \ {t} : pc'[u] = pc[u]
         /\ raced' \in BOOLEAN
         /\ ~raced' => ~raced /\ (\A u \in Threads \ {t} : pc[u] \notin Window /\ pc'[u] \notin Window)
         /\ (~raced' => Alone') /\ Told'
<1>1. /\ pc' \in [Threads -> Places] /\ pc[t] = from /\ pc'[t] = to
      /\ \A u \in Threads \ {t} : pc'[u] = pc[u]
  BY DEF Typed, Goes
<1>2. raced' \in BOOLEAN /\ (~raced' => ~raced /\ \A u \in Threads \ {t} : pc[u] \notin Window)
  BY DEF Typed, Goes
<1>3. ~raced' => \A u \in Threads \ {t} : pc'[u] \notin Window
  BY <1>1, <1>2
<1>4. ~raced' => Alone'
  BY <1>3 DEF Alone
<1>5. Told'
  BY DEF Told, Goes
<1> QED BY <1>1, <1>2, <1>3, <1>4, <1>5

\* A thread sleeps while it is on its list.
LEMMA SleepingIs ==
  ASSUME Typed, NEW t \in Threads
  PROVE  /\ t \in Consumers => (Sleeping(t) <=> \E i \in 1 .. Len(consumer) : consumer[i] = t)
         /\ t \in Producers => (Sleeping(t) <=> \E i \in 1 .. Len(producer) : producer[i] = t)
<1>1. /\ producer \in Seq(Producers) /\ consumer \in Seq(Consumers)
  BY DEF Typed
<1>2. Sleeping(t) <=> \/ \E i \in 1 .. Len(consumer) : consumer[i] = t
                     \/ \E i \in 1 .. Len(producer) : producer[i] = t
  BY <1>1 DEF Sleeping, Range
<1>3. /\ \A i \in 1 .. Len(consumer) : consumer[i] \in Consumers
      /\ \A i \in 1 .. Len(producer) : producer[i] \in Producers
  BY <1>1
<1> QED BY <1>2, <1>3, Constants

\* Only t moves.
OnlyMoves(t) == pc' \in [Threads -> Places] /\ \A u \in Threads \ {t} : pc'[u] = pc[u]

\* Thread t is one of the Takers, or one of the Givers.
TakesAt(t) == IF t \in Consumers THEN Awake(t) ELSE pc[t] \in {"index", "store", "signal", "waking"}
GivesAt(t) == IF t \in Producers THEN Awake(t) ELSE pc[t] \in {"read", "wrap", "signal", "waking"}

\* Takers and Givers thread by thread ...
LEMMA TakersGivers ==
  ASSUME NEW t \in Threads
  PROVE  /\ t \in Takers <=> TakesAt(t)
         /\ t \in Givers <=> GivesAt(t)
BY Constants DEF Takers, Givers, TakesAt, GivesAt

\* ... and after a step
LEMMA TakersGiversNext ==
  ASSUME NEW t \in Threads
  PROVE  /\ t \in Takers' <=> TakesAt(t)'
         /\ t \in Givers' <=> GivesAt(t)'
BY Constants DEF Takers, Givers, TakesAt, GivesAt

\* Takers and Givers are threads.
LEMMA InThreads ==
  Takers \subseteq Threads /\ Takers' \subseteq Threads /\ Givers \subseteq Threads /\ Givers' \subseteq Threads
BY Constants DEF Takers, Givers

\* A step of t that leaves the lists alone
LEMMA ListsKept ==
  ASSUME Typed, ListOK(producer), ListOK(consumer), Finite, NEW t \in Threads, OnlyMoves(t),
         UNCHANGED lists, pc[t] = "asleep" => ~Sleeping(t)
  PROVE  /\ ListOK(producer)' /\ ListOK(consumer)' /\ Finite'
         /\ Takers \ {t} = Takers' \ {t} /\ Givers \ {t} = Givers' \ {t}
<1>1. /\ producer \in Seq(Producers) /\ consumer \in Seq(Consumers)
      /\ producer' = producer /\ consumer' = consumer /\ Threads = Producers \union Consumers
  BY Constants DEF Typed, lists
<1>2. /\ \A i \in 1 .. Len(producer) : pc[producer[i]] = "asleep" /\ producer[i] \in Threads
      /\ \A i \in 1 .. Len(consumer) : pc[consumer[i]] = "asleep" /\ consumer[i] \in Threads
  BY <1>1 DEF ListOK
<1>3. /\ \A i \in 1 .. Len(producer) : producer[i] # t
      /\ \A i \in 1 .. Len(consumer) : consumer[i] # t
  <2>1. CASE pc[t] # "asleep"
    BY <1>2, <2>1
  <2>2. CASE pc[t] = "asleep"
    BY <1>1, <2>2 DEF Sleeping, Range
  <2> QED BY <2>1, <2>2
<1>4. ListOK(producer)' /\ ListOK(consumer)'
  BY <1>1, <1>2, <1>3, ZenonT(30) DEF ListOK, OnlyMoves
<1>5. \A u \in Threads \ {t} : (TakesAt(u)' <=> TakesAt(u)) /\ (GivesAt(u)' <=> GivesAt(u))
  BY <1>1 DEF TakesAt, GivesAt, Awake, Sleeping, OnlyMoves
<1>6. Takers \ {t} = Takers' \ {t} /\ Givers \ {t} = Givers' \ {t}
  BY <1>5, TakersGivers, TakersGiversNext, InThreads
<1>7. Finite'
  BY <1>6, Change DEF Finite
<1> QED BY <1>4, <1>6, <1>7

\* A thread t, at a place where it is in neither set, goes to sleep.
LEMMA SleepFacts ==
  ASSUME NEW Mine, NEW list \in Seq(Mine), NEW t \in Mine,
         \A i \in 1 .. Len(list) : list[i] # t
  PROVE  /\ Append(list, t) \in Seq(Mine) /\ Append(list, t) # << >>
         /\ Len(Append(list, t)) = Len(list) + 1 /\ Append(list, t)[Len(list) + 1] = t
         /\ \A i \in 1 .. Len(list) : Append(list, t)[i] = list[i]
         /\ \A u : (\E i \in 1 .. Len(Append(list, t)) : Append(list, t)[i] = u)
                     <=> (u = t \/ \E i \in 1 .. Len(list) : list[i] = u)
<1> DEFINE new == Append(list, t)
<1>1. /\ new \in Seq(Mine) /\ Len(new) = Len(list) + 1 /\ new[Len(list) + 1] = t
      /\ \A i \in 1 .. Len(list) : new[i] = list[i]
      /\ Len(list) \in Nat
  OBVIOUS
<1> HIDE DEF new
<1>3. new # << >>
  BY <1>1
<1>2. \A u : (\E i \in 1 .. Len(new) : new[i] = u)
                     <=> (u = t \/ \E i \in 1 .. Len(list) : list[i] = u)
  <2> TAKE u
  <2>1. ASSUME NEW i \in 1 .. Len(new), new[i] = u
        PROVE  u = t \/ \E k \in 1 .. Len(list) : list[k] = u
    <3>1. i = Len(list) + 1 \/ i \in 1 .. Len(list)
      BY <1>1
    <3> QED BY <1>1, <2>1, <3>1
  <2>2. ASSUME u = t \/ \E k \in 1 .. Len(list) : list[k] = u
        PROVE  \E i \in 1 .. Len(new) : new[i] = u
    <3>1. Len(list) + 1 \in 1 .. Len(new) /\ \A k \in 1 .. Len(list) : k \in 1 .. Len(new)
      BY <1>1
    <3> QED BY <1>1, <2>2, <3>1
  <2> QED BY <2>1, <2>2
<1> QED BY <1>1, <1>2, <1>3 DEF new

\* The first of a list of sleepers is woken.
LEMMA WakeFacts ==
  ASSUME NEW Mine, NEW list \in Seq(Mine), list # << >>,
         \A i, j \in 1 .. Len(list) : list[i] = list[j] => i = j
  PROVE  /\ Head(list) \in Mine /\ Head(list) = list[1] /\ Tail(list) \in Seq(Mine)
         /\ 1 \in 1 .. Len(list) /\ Len(Tail(list)) = Len(list) - 1
         /\ \A i \in 1 .. Len(Tail(list)) : Tail(list)[i] = list[i + 1] /\ i + 1 \in 1 .. Len(list)
         /\ \A u : (\E i \in 1 .. Len(Tail(list)) : Tail(list)[i] = u)
                     <=> (u # Head(list) /\ \E i \in 1 .. Len(list) : list[i] = u)
<1> DEFINE new == Tail(list)
           h == Head(list)
           n == Len(list)
<1>1. /\ h \in Mine /\ h = list[1] /\ new \in Seq(Mine) /\ n \in Nat \ {0} /\ Len(new) = n - 1
      /\ \A i \in 1 .. n - 1 : new[i] = list[i + 1]
  OBVIOUS
<1> HIDE DEF new, h, n
<1>2. \A i \in 1 .. n - 1 : i + 1 \in 1 .. n /\ i + 1 # 1
  BY <1>1
<1>3. \A u : (\E i \in 1 .. Len(new) : new[i] = u) <=> (u # h /\ \E i \in 1 .. n : list[i] = u)
  <2> TAKE u
  <2>1. ASSUME NEW i \in 1 .. Len(new), new[i] = u
        PROVE  u # h /\ \E k \in 1 .. n : list[k] = u
    <3>1. i \in 1 .. n - 1 /\ u = list[i + 1] /\ i + 1 \in 1 .. n /\ 1 \in 1 .. n /\ i + 1 # 1
      BY <1>1, <1>2, <2>1
    <3> QED BY <1>1, <3>1 DEF n
  <2>2. ASSUME u # h, NEW k \in 1 .. n, list[k] = u
        PROVE  \E i \in 1 .. Len(new) : new[i] = u
    <3>1. k # 1
      BY <1>1, <2>2
    <3>2. k - 1 \in 1 .. n - 1 /\ (k - 1) + 1 = k
      BY <1>1, <3>1
    <3>3. new[k - 1] = u /\ k - 1 \in 1 .. Len(new)
      BY <1>1, <2>2, <3>2
    <3> QED BY <3>3
  <2> QED BY <2>1, <2>2
<1> QED BY <1>1, <1>2, <1>3 DEF new, h, n

\* A producer goes to sleep: neither set changes.
LEMMA ProducerSleeps ==
  ASSUME Typed, ListOK(producer), ListOK(consumer), NEW t \in Producers, OnlyMoves(t),
         pc[t] = "moving", pc'[t] = "asleep", producer' = Append(producer, t), consumer' = consumer
  PROVE  /\ producer' \in Seq(Producers) /\ producer' # << >>
         /\ ListOK(producer)' /\ ListOK(consumer)' /\ Takers' = Takers /\ Givers' = Givers
<1>1. /\ producer \in Seq(Producers) /\ consumer \in Seq(Consumers) /\ t \in Threads
      /\ Threads = Producers \union Consumers /\ Producers \intersect Consumers = {}
  BY Constants DEF Typed
<1>2. /\ \A i \in 1 .. Len(producer) : pc[producer[i]] = "asleep" /\ producer[i] \in Threads \ {t}
      /\ \A i \in 1 .. Len(consumer) : pc[consumer[i]] = "asleep" /\ consumer[i] \in Threads \ {t}
  BY <1>1 DEF ListOK
<1>3. /\ producer' \in Seq(Producers) /\ producer' # << >>
      /\ Len(producer') = Len(producer) + 1 /\ producer'[Len(producer) + 1] = t
      /\ \A i \in 1 .. Len(producer) : producer'[i] = producer[i]
      /\ \A u : (\E i \in 1 .. Len(producer') : producer'[i] = u)
                     <=> (u = t \/ \E i \in 1 .. Len(producer) : producer[i] = u)
  BY <1>1, <1>2, SleepFacts
<1>4. \A i \in 1 .. Len(producer') : i = Len(producer) + 1 \/ i \in 1 .. Len(producer)
  BY <1>1, <1>3
<1>50. ListOK(producer)'
  BY <1>1, <1>2, <1>3, <1>4 DEF ListOK, OnlyMoves
<1>5. ListOK(producer)' /\ ListOK(consumer)'
  BY <1>50, <1>1, <1>2, <1>3, <1>4 DEF ListOK, OnlyMoves
<1>6. \A u \in Threads : Sleeping(u)' <=> (Sleeping(u) \/ u = t)
  BY <1>1, <1>3 DEF Sleeping, Range
<1>7. \A u \in Threads \ {t} : (TakesAt(u)' <=> TakesAt(u)) /\ (GivesAt(u)' <=> GivesAt(u))
  BY <1>1, <1>6 DEF TakesAt, GivesAt, Awake, OnlyMoves
<1>8. ~TakesAt(t) /\ ~TakesAt(t)' /\ ~GivesAt(t) /\ ~GivesAt(t)'
  BY <1>1, <1>6 DEF TakesAt, GivesAt, Awake
<1>9. Takers' = Takers /\ Givers' = Givers
  BY <1>1, <1>7, <1>8, TakersGivers, TakersGiversNext, InThreads
<1> QED BY <1>3, <1>5, <1>9

\* A consumer puts itself on the list of sleepers.
LEMMA ConsumerSleeps ==
  ASSUME Typed, ListOK(producer), ListOK(consumer), NEW t \in Consumers, OnlyMoves(t),
         pc[t] = "moving", pc'[t] = "asleep", consumer' = Append(consumer, t), producer' = producer
  PROVE  /\ consumer' \in Seq(Consumers) /\ consumer' # << >>
         /\ ListOK(producer)' /\ ListOK(consumer)' /\ Takers' = Takers /\ Givers' = Givers
<1>1. /\ producer \in Seq(Producers) /\ consumer \in Seq(Consumers) /\ t \in Threads
      /\ Threads = Producers \union Consumers /\ Producers \intersect Consumers = {}
  BY Constants DEF Typed
<1>2. /\ \A i \in 1 .. Len(producer) : pc[producer[i]] = "asleep" /\ producer[i] \in Threads \ {t}
      /\ \A i \in 1 .. Len(consumer) : pc[consumer[i]] = "asleep" /\ consumer[i] \in Threads \ {t}
  BY <1>1 DEF ListOK
<1>3. /\ consumer' \in Seq(Consumers) /\ consumer' # << >>
      /\ Len(consumer') = Len(consumer) + 1 /\ consumer'[Len(consumer) + 1] = t
      /\ \A i \in 1 .. Len(consumer) : consumer'[i] = consumer[i]
      /\ \A u : (\E i \in 1 .. Len(consumer') : consumer'[i] = u)
                     <=> (u = t \/ \E i \in 1 .. Len(consumer) : consumer[i] = u)
  BY <1>1, <1>2, SleepFacts
<1>4. \A i \in 1 .. Len(consumer') : i = Len(consumer) + 1 \/ i \in 1 .. Len(consumer)
  BY <1>1, <1>3
<1>50. ListOK(producer)'
  BY <1>1, <1>2, <1>3, <1>4 DEF ListOK, OnlyMoves
<1>5. ListOK(producer)' /\ ListOK(consumer)'
  BY <1>50, <1>1, <1>2, <1>3, <1>4, SMTT(30) DEF ListOK, OnlyMoves
<1>6. \A u \in Threads : Sleeping(u)' <=> (Sleeping(u) \/ u = t)
  BY <1>1, <1>3 DEF Sleeping, Range
<1>7. \A u \in Threads \ {t} : (TakesAt(u)' <=> TakesAt(u)) /\ (GivesAt(u)' <=> GivesAt(u))
  BY <1>1, <1>6 DEF TakesAt, GivesAt, Awake, OnlyMoves
<1>8. ~TakesAt(t) /\ ~TakesAt(t)' /\ ~GivesAt(t) /\ ~GivesAt(t)'
  BY <1>1, <1>6 DEF TakesAt, GivesAt, Awake
<1>9. Takers' = Takers /\ Givers' = Givers
  BY <1>1, <1>7, <1>8, TakersGivers, TakersGiversNext, InThreads
<1> QED BY <1>3, <1>5, <1>9

\* A producer that has signalled a consumer: it is no Taker any more, and the
\* consumer is one instead.
LEMMA ConsumerWakes ==
  ASSUME Typed, ListOK(producer), ListOK(consumer), Finite, NEW t \in Producers, OnlyMoves(t),
         pc[t] = "waking", pc'[t] = "idle", consumer' = Wake(consumer), producer' = producer
  PROVE  /\ consumer' \in Seq(Consumers) /\ ListOK(producer)' /\ ListOK(consumer)' /\ Finite'
         /\ Givers' = Givers
         /\ consumer' # << >> => consumer # << >> /\ Cardinality(Takers') = Cardinality(Takers)
<1>1. /\ producer \in Seq(Producers) /\ consumer \in Seq(Consumers) /\ t \in Threads
      /\ Threads = Producers \union Consumers /\ Producers \intersect Consumers = {} /\ t \notin Consumers
  BY Constants DEF Typed
<1>2. /\ \A i \in 1 .. Len(producer) : pc[producer[i]] = "asleep" /\ producer[i] \in Threads \ {t}
      /\ \A i \in 1 .. Len(consumer) : pc[consumer[i]] = "asleep" /\ consumer[i] \in Threads \ {t}
  BY <1>1 DEF ListOK
<1>3. CASE consumer = << >>
  <2>1. consumer' = consumer /\ UNCHANGED lists
    BY <1>3 DEF Wake, lists
  <2>2. /\ ListOK(producer)' /\ ListOK(consumer)' /\ Finite'
        /\ Takers \ {t} = Takers' \ {t} /\ Givers \ {t} = Givers' \ {t}
    BY <1>1, <2>1, ListsKept
  <2>3. ~GivesAt(t) /\ ~GivesAt(t)'
    BY <1>1 DEF GivesAt, Awake
  <2>4. Givers' = Givers
    BY <1>1, <2>2, <2>3, TakersGivers, TakersGiversNext
  <2> QED BY <1>1, <1>3, <2>1, <2>2, <2>4
<1>4. CASE consumer # << >>
  <2>0. PICK h : h = Head(consumer)
    OBVIOUS
  <2>1. consumer' = Tail(consumer) /\ \A i, j \in 1 .. Len(consumer) : consumer[i] = consumer[j] => i = j
    BY <1>4 DEF Wake, ListOK
  <2>2. /\ h \in Consumers /\ h = consumer[1] /\ consumer' \in Seq(Consumers)
        /\ 1 \in 1 .. Len(consumer) /\ Len(consumer') = Len(consumer) - 1
        /\ \A i \in 1 .. Len(consumer') : consumer'[i] = consumer[i + 1] /\ i + 1 \in 1 .. Len(consumer)
        /\ \A u : (\E i \in 1 .. Len(consumer') : consumer'[i] = u)
                     <=> (u # h /\ \E i \in 1 .. Len(consumer) : consumer[i] = u)
    <3>1. /\ Head(consumer) \in Consumers /\ Head(consumer) = consumer[1] /\ Tail(consumer) \in Seq(Consumers)
          /\ 1 \in 1 .. Len(consumer) /\ Len(Tail(consumer)) = Len(consumer) - 1
          /\ \A i \in 1 .. Len(Tail(consumer)) :
                Tail(consumer)[i] = consumer[i + 1] /\ i + 1 \in 1 .. Len(consumer)
          /\ \A u : (\E i \in 1 .. Len(Tail(consumer)) : Tail(consumer)[i] = u)
                      <=> (u # Head(consumer) /\ \E i \in 1 .. Len(consumer) : consumer[i] = u)
      BY <1>1, <1>4, <2>1, WakeFacts, Zenon
    <3>2. consumer' = Tail(consumer)
      BY <2>1
    <3> QED BY <2>0, <3>1, <3>2
  <2>3. ListOK(consumer)'
    <3>1. \A i \in 1 .. Len(consumer') : pc'[consumer'[i]] = "asleep"
      BY <1>2, <2>2 DEF OnlyMoves
    <3>2. \A i, j \in 1 .. Len(consumer') : consumer'[i] = consumer'[j] => i = j
      <4> SUFFICES ASSUME NEW i \in 1 .. Len(consumer'), NEW j \in 1 .. Len(consumer'),
                          consumer'[i] = consumer'[j]
                   PROVE  i = j
        OBVIOUS
      <4>1. i + 1 = j + 1
        BY <2>2 DEF ListOK
      <4> QED BY <4>1
    <3> QED BY <3>1, <3>2 DEF ListOK
  <2>4. ListOK(producer)'
    BY <1>2 DEF ListOK, OnlyMoves
  <2>5. \A u \in Threads : Sleeping(u)' <=> (Sleeping(u) /\ u # h)
    <3>1. \A u : Sleeping(u) <=> \/ \E i \in 1 .. Len(consumer) : consumer[i] = u
                                 \/ \E i \in 1 .. Len(producer) : producer[i] = u
      BY <1>1 DEF Sleeping, Range
    <3>2. \A u : Sleeping(u)' <=> \/ \E i \in 1 .. Len(consumer') : consumer'[i] = u
                                  \/ \E i \in 1 .. Len(producer) : producer[i] = u
      BY <1>1, <2>2 DEF Sleeping, Range
    <3>3. \A i \in 1 .. Len(producer) : producer[i] # h
      BY <1>1, <2>2
    <3> QED BY <2>2, <3>1, <3>2, <3>3
  <2>6. h \in Threads /\ h # t /\ pc[h] = "asleep" /\ pc'[h] = "asleep"
    BY <1>1, <1>2, <2>2 DEF OnlyMoves
  <2>7. Sleeping(h)
    BY <1>1, <2>2, SleepingIs, <2>6
  <2>8. \A u \in Threads \ {t, h} : (TakesAt(u)' <=> TakesAt(u)) /\ (GivesAt(u)' <=> GivesAt(u))
    BY <1>1, <2>5 DEF TakesAt, GivesAt, Awake, OnlyMoves
  <2>9. /\ TakesAt(t) /\ ~TakesAt(t)' /\ ~GivesAt(t) /\ ~GivesAt(t)'
        /\ ~TakesAt(h) /\ TakesAt(h)' /\ ~GivesAt(h) /\ ~GivesAt(h)'
    BY <1>1, <2>2, <2>5, <2>6, <2>7 DEF TakesAt, GivesAt, Awake
  <2>10. Givers' = Givers
    BY <1>1, <2>8, <2>9, TakersGivers, TakersGiversNext, InThreads
  <2>11. t \in Takers /\ h \notin Takers /\ t \notin Takers' /\ h \in Takers'
    BY <1>1, <2>6, <2>9, TakersGivers, TakersGiversNext
  <2>12. \A u \in Threads \ {t, h} : u \in Takers' <=> u \in Takers
    BY <2>8, TakersGivers, TakersGiversNext
  <2> DEFINE mid == Takers \ {t}
  <2>13. Takers \ {t} = mid \ {t} /\ mid \ {h} = Takers' \ {h} /\ t \notin mid /\ h \notin mid
    BY <2>6, <2>11, <2>12, InThreads
  <2> HIDE DEF mid
  <2>14. /\ IsFiniteSet(mid) /\ Cardinality(Takers) \in Nat /\ Cardinality(mid) = Cardinality(Takers) - 1
    BY <2>11, <2>13, Change DEF Finite
  <2>15. IsFiniteSet(Takers') /\ Cardinality(Takers') = Cardinality(mid) + 1
    BY <2>11, <2>13, <2>14, Change
  <2>16. Cardinality(Takers') = Cardinality(Takers)
    BY <2>14, <2>15
  <2> QED BY <1>4, <2>2, <2>3, <2>4, <2>10, <2>15, <2>16 DEF Finite
<1> QED BY <1>3, <1>4

\* A consumer that has signalled a producer: it is no Giver any more, and the
\* producer is one instead.
LEMMA ProducerWakes ==
  ASSUME Typed, ListOK(consumer), ListOK(producer), Finite, NEW t \in Consumers, OnlyMoves(t),
         pc[t] = "waking", pc'[t] = "idle", producer' = Wake(producer), consumer' = consumer
  PROVE  /\ producer' \in Seq(Producers) /\ ListOK(consumer)' /\ ListOK(producer)' /\ Finite'
         /\ Takers' = Takers
         /\ producer' # << >> => producer # << >> /\ Cardinality(Givers') = Cardinality(Givers)
<1>1. /\ consumer \in Seq(Consumers) /\ producer \in Seq(Producers) /\ t \in Threads
      /\ Threads = Consumers \union Producers /\ Consumers \intersect Producers = {} /\ t \notin Producers
  BY Constants DEF Typed
<1>2. /\ \A i \in 1 .. Len(consumer) : pc[consumer[i]] = "asleep" /\ consumer[i] \in Threads \ {t}
      /\ \A i \in 1 .. Len(producer) : pc[producer[i]] = "asleep" /\ producer[i] \in Threads \ {t}
  BY <1>1 DEF ListOK
<1>3. CASE producer = << >>
  <2>1. producer' = producer /\ UNCHANGED lists
    BY <1>3 DEF Wake, lists
  <2>2. /\ ListOK(consumer)' /\ ListOK(producer)' /\ Finite'
        /\ Givers \ {t} = Givers' \ {t} /\ Takers \ {t} = Takers' \ {t}
    BY <1>1, <2>1, ListsKept
  <2>3. ~TakesAt(t) /\ ~TakesAt(t)'
    BY <1>1 DEF TakesAt, Awake
  <2>4. Takers' = Takers
    BY <1>1, <2>2, <2>3, TakersGivers, TakersGiversNext
  <2> QED BY <1>1, <1>3, <2>1, <2>2, <2>4
<1>4. CASE producer # << >>
  <2>0. PICK h : h = Head(producer)
    OBVIOUS
  <2>1. producer' = Tail(producer) /\ \A i, j \in 1 .. Len(producer) : producer[i] = producer[j] => i = j
    BY <1>4 DEF Wake, ListOK
  <2>2. /\ h \in Producers /\ h = producer[1] /\ producer' \in Seq(Producers)
        /\ 1 \in 1 .. Len(producer) /\ Len(producer') = Len(producer) - 1
        /\ \A i \in 1 .. Len(producer') : producer'[i] = producer[i + 1] /\ i + 1 \in 1 .. Len(producer)
        /\ \A u : (\E i \in 1 .. Len(producer') : producer'[i] = u)
                     <=> (u # h /\ \E i \in 1 .. Len(producer) : producer[i] = u)
    <3>1. /\ Head(producer) \in Producers /\ Head(producer) = producer[1] /\ Tail(producer) \in Seq(Producers)
          /\ 1 \in 1 .. Len(producer) /\ Len(Tail(producer)) = Len(producer) - 1
          /\ \A i \in 1 .. Len(Tail(producer)) :
                Tail(producer)[i] = producer[i + 1] /\ i + 1 \in 1 .. Len(producer)
          /\ \A u : (\E i \in 1 .. Len(Tail(producer)) : Tail(producer)[i] = u)
                      <=> (u # Head(producer) /\ \E i \in 1 .. Len(producer) : producer[i] = u)
      BY <1>1, <1>4, <2>1, WakeFacts, Zenon
    <3>2. producer' = Tail(producer)
      BY <2>1
    <3> QED BY <2>0, <3>1, <3>2
  <2>3. ListOK(producer)'
    <3>1. \A i \in 1 .. Len(producer') : pc'[producer'[i]] = "asleep"
      BY <1>2, <2>2 DEF OnlyMoves
    <3>2. \A i, j \in 1 .. Len(producer') : producer'[i] = producer'[j] => i = j
      <4> SUFFICES ASSUME NEW i \in 1 .. Len(producer'), NEW j \in 1 .. Len(producer'),
                          producer'[i] = producer'[j]
                   PROVE  i = j
        OBVIOUS
      <4>1. i + 1 = j + 1
        BY <2>2 DEF ListOK
      <4> QED BY <4>1
    <3> QED BY <3>1, <3>2 DEF ListOK
  <2>4. ListOK(consumer)'
    BY <1>2 DEF ListOK, OnlyMoves
  <2>5. \A u \in Threads : Sleeping(u)' <=> (Sleeping(u) /\ u # h)
    <3>1. \A u : Sleeping(u) <=> \/ \E i \in 1 .. Len(producer) : producer[i] = u
                                 \/ \E i \in 1 .. Len(consumer) : consumer[i] = u
      BY <1>1 DEF Sleeping, Range
    <3>2. \A u : Sleeping(u)' <=> \/ \E i \in 1 .. Len(producer') : producer'[i] = u
                                  \/ \E i \in 1 .. Len(consumer) : consumer[i] = u
      BY <1>1, <2>2 DEF Sleeping, Range
    <3>3. \A i \in 1 .. Len(consumer) : consumer[i] # h
      BY <1>1, <2>2
    <3> QED BY <2>2, <3>1, <3>2, <3>3
  <2>6. h \in Threads /\ h # t /\ pc[h] = "asleep" /\ pc'[h] = "asleep"
    BY <1>1, <1>2, <2>2 DEF OnlyMoves
  <2>7. Sleeping(h)
    BY <1>1, <2>2, SleepingIs, <2>6
  <2>8. \A u \in Threads \ {t, h} : (GivesAt(u)' <=> GivesAt(u)) /\ (TakesAt(u)' <=> TakesAt(u))
    BY <1>1, <2>5 DEF GivesAt, TakesAt, Awake, OnlyMoves
  <2>9. /\ GivesAt(t) /\ ~GivesAt(t)' /\ ~TakesAt(t) /\ ~TakesAt(t)'
        /\ ~GivesAt(h) /\ GivesAt(h)' /\ ~TakesAt(h) /\ ~TakesAt(h)'
    BY <1>1, <2>2, <2>5, <2>6, <2>7 DEF GivesAt, TakesAt, Awake
  <2>10. Takers' = Takers
    BY <1>1, <2>8, <2>9, TakersGivers, TakersGiversNext, InThreads
  <2>11. t \in Givers /\ h \notin Givers /\ t \notin Givers' /\ h \in Givers'
    BY <1>1, <2>6, <2>9, TakersGivers, TakersGiversNext
  <2>12. \A u \in Threads \ {t, h} : u \in Givers' <=> u \in Givers
    BY <2>8, TakersGivers, TakersGiversNext
  <2> DEFINE mid == Givers \ {t}
  <2>13. Givers \ {t} = mid \ {t} /\ mid \ {h} = Givers' \ {h} /\ t \notin mid /\ h \notin mid
    BY <2>6, <2>11, <2>12, InThreads
  <2> HIDE DEF mid
  <2>14. /\ IsFiniteSet(mid) /\ Cardinality(Givers) \in Nat /\ Cardinality(mid) = Cardinality(Givers) - 1
    BY <2>11, <2>13, Change DEF Finite
  <2>15. IsFiniteSet(Givers') /\ Cardinality(Givers') = Cardinality(mid) + 1
    BY <2>11, <2>13, <2>14, Change
  <2>16. Cardinality(Givers') = Cardinality(Givers)
    BY <2>14, <2>15
  <2> QED BY <1>4, <2>2, <2>3, <2>4, <2>10, <2>15, <2>16 DEF Finite
<1> QED BY <1>3, <1>4

----------------------------------------------------------------------------
(* Until a switch in a window, what the invariant says of the thread that  *)
(* runs is all it says.                                                    *)

InRangeAt(t) ==
  /\ count \in 0 .. Size /\ D \in 0 .. Size /\ begin \in 0 .. Size
  /\ count = IF pc[t] = "read" THEN D - 1 ELSE D
  /\ pc[t] # "wrap" => begin < Size
  /\ pc[t] = "enter" => IF t \in Producers THEN count < Size ELSE count > 0
  /\ pc[t] = "early" => count < Size /\ index[t] = begin
  /\ pc[t] = "moving" => count = IF t \in Producers THEN Size ELSE 0
  /\ pc[t] = "full" => count = Size
  /\ pc[t] = "empty" => count = 0
  /\ pc[t] \in {"index", "store"} =>
        /\ D >= 1 /\ sent[Len(sent)] = <<t, made[t]>>
        /\ index[t] = IF pc[t] = "store" THEN Pos(begin + D - 1) ELSE D

StoredAt(t) ==
  /\ \A k \in 1 .. Len(got) : got[k] = sent[k]
  /\ \A j \in 0 .. D - 1 :
        (j = D - 1 => pc[t] \notin {"index", "store"}) =>
           arr[Pos(Pos(begin) + j)] = sent[Len(got) + 1 + j]

\* When no other thread is in a window, the parts of the invariant about windows
\* are about thread t alone ...
LEMMA Local ==
  ASSUME Placed, NEW t \in Threads, \A u \in Threads \ {t} : pc[u] \notin Window
  PROVE  /\ InRange => InRangeAt(t)
         /\ Stored => StoredAt(t)
<1>1. /\ \A u \in Consumers \ {t} : pc[u] # "read" /\ pc[u] # "wrap"
      /\ \A u \in Producers \ {t} : pc[u] \notin {"index", "store"}
  BY Constants DEF Window, OffLists
<1>2. InRange => InRangeAt(t)
  BY <1>1, Constants DEF InRange, InRangeAt, Placed
<1>3. Stored => StoredAt(t)
  BY <1>1, Constants DEF Stored, StoredAt
<1> QED BY <1>2, <1>3

\* ... and after a step they follow from what holds of t.
LEMMA LocalNext ==
  ASSUME Placed', NEW t \in Threads, \A u \in Threads \ {t} : pc'[u] \notin Window
  PROVE  /\ InRangeAt(t)' => InRange'
         /\ StoredAt(t)' => Stored'
<1>1. /\ \A u \in Consumers \ {t} : pc'[u] \notin {"read", "wrap", "enter", "empty", "moving"}
      /\ \A u \in Producers \ {t} : pc'[u] \notin {"index", "store", "enter", "early", "full", "moving"}
      /\ t \in Producers \/ t \in Consumers
      /\ Producers \intersect Consumers = {}
  BY Constants DEF Window, OffLists
<1>2. InRangeAt(t)' => InRange'
  BY <1>1 DEF InRange, InRangeAt, Placed
<1>3. StoredAt(t)' => Stored'
  BY <1>1 DEF Stored, StoredAt, Placed
<1> QED BY <1>2, <1>3

----------------------------------------------------------------------------
(* The count                                                               *)

\* A step that moves no element and lets no consumer count one
LEMMA CountedKept ==
  ASSUME Counted, NEW t \in Threads, OnlyMoves(t), (pc[t] = "read") <=> (pc'[t] = "read"),
         UNCHANGED <<count, sent, got>>
  PROVE  Counted'
<1>1. Readers' = Readers
  BY Constants DEF Readers, OnlyMoves
<1> QED BY <1>1 DEF Counted, D

\* An empty queue satisfies the invariant.
LEMMA InitIInv ==
  ASSUME Init
  PROVE  IInv
<1>1. \A t \in Threads : pc[t] = "idle"
  BY DEF Init
<1>2. Takers = {} /\ Givers = {} /\ Readers = {}
  BY <1>1, Constants DEF Takers, Givers, Readers, Awake
<1>3. Finite /\ Cardinality({}) = 0
  BY <1>2, FS_EmptySet DEF Finite
<1>4. D = 0 /\ Len(sent) = 0 /\ Len(got) = 0
  BY DEF Init, D
<1>5. Counted
  <2>1. count = (D - 0) + 0 * WordSize /\ 0 \in Int
    BY <1>4, Constants DEF Init
  <2>2. Same(count, D - 0)
    BY <2>1 DEF Same
  <2> QED BY <1>2, <1>3, <2>2, FS_EmptySet DEF Counted
<1>6. Typed
  <2>1. begin \in 0 .. WordSize - 1 /\ count \in 0 .. WordSize - 1 /\ index \in [Threads -> 0 .. WordSize - 1]
    BY Constants DEF Init
  <2>2. /\ arr \in [0 .. Size - 1 -> Items \union {Garbage}] /\ pc \in [Threads -> Places]
        /\ made \in [Producers -> Nat]
    BY DEF Init, Places
  <2>3. /\ producer \in Seq(Producers) /\ consumer \in Seq(Consumers) /\ sent \in Seq(Items)
        /\ got \in Seq(Items \union {Garbage}) /\ raced \in BOOLEAN
    <3>1. \A S : << >> \in Seq(S)
      OBVIOUS
    <3>2. producer = << >> /\ consumer = << >> /\ sent = << >> /\ got = << >> /\ raced \in BOOLEAN
      BY DEF Init
    <3> QED BY <3>1, <3>2
  <2> QED BY <2>1, <2>2, <2>3 DEF Typed
<1>7. Placed
  BY <1>1, Constants DEF Init, Placed
<1>8. ListOK(producer) /\ ListOK(consumer)
  BY DEF Init, ListOK
<1>9. Alone /\ Told
  BY <1>1 DEF Alone, Window, OffLists, Told, Init, lock!Init
<1>10. InRange
  BY <1>1, <1>4, Constants DEF Init, InRange
<1>11. Stored /\ Remembered
  BY <1>4 DEF Init, Stored, Remembered
<1> QED BY <1>3, <1>5, <1>6, <1>7, <1>8, <1>9, <1>10, <1>11 DEF IInv

----------------------------------------------------------------------------
(* Every action preserves the invariant                                    *)

\* The two sets, and the numbers of their members, after a step of t that
\* leaves the lists alone
LEMMA Numbers ==
  ASSUME IInv, NEW t \in Threads, OnlyMoves(t), UNCHANGED lists, pc[t] = "asleep" => ~Sleeping(t)
  PROVE  /\ ListOK(producer)' /\ ListOK(consumer)' /\ Finite'
         /\ Cardinality(Takers) \in Nat /\ Cardinality(Takers') \in Nat
         /\ Cardinality(Givers) \in Nat /\ Cardinality(Givers') \in Nat
         /\ (TakesAt(t) <=> TakesAt(t)') => Cardinality(Takers') = Cardinality(Takers)
         /\ TakesAt(t) /\ ~TakesAt(t)' => Cardinality(Takers') = Cardinality(Takers) - 1
         /\ ~TakesAt(t) /\ TakesAt(t)' => Cardinality(Takers') = Cardinality(Takers) + 1
         /\ (GivesAt(t) <=> GivesAt(t)') => Cardinality(Givers') = Cardinality(Givers)
         /\ GivesAt(t) /\ ~GivesAt(t)' => Cardinality(Givers') = Cardinality(Givers) - 1
         /\ ~GivesAt(t) /\ GivesAt(t)' => Cardinality(Givers') = Cardinality(Givers) + 1
<1>1. /\ ListOK(producer)' /\ ListOK(consumer)' /\ Finite' /\ IsFiniteSet(Takers) /\ IsFiniteSet(Givers)
      /\ Takers \ {t} = Takers' \ {t} /\ Givers \ {t} = Givers' \ {t}
  BY ListsKept DEF IInv, Finite
<1>2. /\ Cardinality(Takers) \in Nat /\ Cardinality(Takers') \in Nat
      /\ t \in Takers /\ t \in Takers' => Cardinality(Takers') = Cardinality(Takers)
      /\ t \notin Takers /\ t \notin Takers' => Cardinality(Takers') = Cardinality(Takers)
      /\ t \in Takers /\ t \notin Takers' => Cardinality(Takers') = Cardinality(Takers) - 1
      /\ t \notin Takers /\ t \in Takers' => Cardinality(Takers') = Cardinality(Takers) + 1
  BY <1>1, Change
<1>3. /\ Cardinality(Givers) \in Nat /\ Cardinality(Givers') \in Nat
      /\ t \in Givers /\ t \in Givers' => Cardinality(Givers') = Cardinality(Givers)
      /\ t \notin Givers /\ t \notin Givers' => Cardinality(Givers') = Cardinality(Givers)
      /\ t \in Givers /\ t \notin Givers' => Cardinality(Givers') = Cardinality(Givers) - 1
      /\ t \notin Givers /\ t \in Givers' => Cardinality(Givers') = Cardinality(Givers) + 1
  BY <1>1, Change
<1>4. /\ t \in Takers <=> TakesAt(t)
      /\ t \in Givers <=> GivesAt(t)
      /\ t \in Takers' <=> TakesAt(t)'
      /\ t \in Givers' <=> GivesAt(t)'
  BY TakersGivers, TakersGiversNext
<1> QED BY <1>1, <1>2, <1>3, <1>4

\* A step of t that changes nothing but the place where t is, and after which
\* t is still after what sleepers wait for
LEMMA MoveStep ==
  ASSUME IInv, NEW t \in Threads, NEW from, NEW to \in Places, Goes(t, from, to),
         UNCHANGED <<begin, count, arr, producer, consumer, index, made, sent, got>>,
         from = "asleep" => ~Sleeping(t), (from = "read") <=> (to = "read"),
         from \notin {"index", "store"}, Placed', ~raced' /\ InRangeAt(t) => InRangeAt(t)',
         consumer # << >> => (TakesAt(t) => TakesAt(t)'), producer # << >> => (GivesAt(t) => GivesAt(t)')
  PROVE  IInv'
<1>2. UNCHANGED lists
  BY DEF lists
<1>3. /\ OnlyMoves(t) /\ pc[t] = from /\ pc'[t] = to /\ raced' \in BOOLEAN
      /\ ~raced' => ~raced /\ (\A u \in Threads \ {t} : pc[u] \notin Window /\ pc'[u] \notin Window)
      /\ (~raced' => Alone') /\ Told'
  BY GoesFacts DEF IInv, OnlyMoves
<1>4. Typed'
  BY <1>3 DEF IInv, Typed, OnlyMoves
<1>6. Counted'
  BY <1>3, CountedKept DEF IInv
<1>8. /\ ListOK(producer)' /\ ListOK(consumer)' /\ Finite'
      /\ Cardinality(Takers) \in Nat /\ Cardinality(Takers') \in Nat
      /\ Cardinality(Givers) \in Nat /\ Cardinality(Givers') \in Nat
      /\ consumer # << >> => Cardinality(Takers') >= Cardinality(Takers)
      /\ producer # << >> => Cardinality(Givers') >= Cardinality(Givers)
  BY <1>2, <1>3, Numbers
<1>9. ASSUME ~raced'
      PROVE  InRange' /\ Stored' /\ Remembered'
  <2>1. InRangeAt(t) /\ StoredAt(t) /\ Remembered
    BY <1>3, <1>9, Local DEF IInv
  <2>2. InRangeAt(t)'
    BY <1>9, <2>1
  <2>3. StoredAt(t)'
    BY <1>3, <2>1 DEF StoredAt, D
  <2>4. Remembered'
    BY <1>8, <2>1, Constants DEF Remembered, InRangeAt
  <2> QED BY <1>3, <1>9, <2>2, <2>3, <2>4, LocalNext
<1> QED BY <1>3, <1>4, <1>6, <1>8, <1>9 DEF IInv

\* circular_enqueue is called.
LEMMA EnqueueCallStep ==
  ASSUME IInv, NEW t \in Threads, EnqueueCall(t)
  PROVE  IInv'
<1> DEFINE from == "idle"
           to == "test"
<1>1. /\ t \in Producers /\ t \notin Consumers /\ Goes(t, from, to) /\ to \in Places
      /\ UNCHANGED <<begin, count, arr, producer, consumer, index, made, sent, got>>
  BY Constants DEF EnqueueCall, queue, lists, items, Places, Window, OffLists
<1>2. pc[t] = from /\ pc'[t] = to /\ \A u \in Threads \ {t} : pc'[u] = pc[u]
  BY <1>1, GoesFacts DEF IInv
<1>3. Placed'
  BY <1>1, <1>2, Constants DEF IInv, Placed, EnqueueCall
<1>4. InRangeAt(t) => InRangeAt(t)'
  BY <1>1, <1>2 DEF InRangeAt, D
<1>5. /\ consumer # << >> => (TakesAt(t) => TakesAt(t)')
      /\ producer # << >> => (GivesAt(t) => GivesAt(t)')
  BY <1>1, <1>2 DEF TakesAt, GivesAt, Awake
<1> QED BY <1>1, <1>3, <1>4, <1>5, MoveStep

\* circular_dequeue is called.
LEMMA DequeueCallStep ==
  ASSUME IInv, NEW t \in Threads, DequeueCall(t)
  PROVE  IInv'
<1> DEFINE from == "idle"
           to == "test"
<1>1. /\ t \in Consumers /\ t \notin Producers /\ Goes(t, from, to) /\ to \in Places
      /\ UNCHANGED <<begin, count, arr, producer, consumer, index, made, sent, got>>
  BY Constants DEF DequeueCall, queue, lists, items, Places, Window, OffLists
<1>2. pc[t] = from /\ pc'[t] = to /\ \A u \in Threads \ {t} : pc'[u] = pc[u]
  BY <1>1, GoesFacts DEF IInv
<1>3. Placed'
  BY <1>1, <1>2, Constants DEF IInv, Placed
<1>4. InRangeAt(t) => InRangeAt(t)'
  BY <1>1, <1>2 DEF InRangeAt, D
<1>5. /\ consumer # << >> => (TakesAt(t) => TakesAt(t)')
      /\ producer # << >> => (GivesAt(t) => GivesAt(t)')
  BY <1>1, <1>2 DEF TakesAt, GivesAt, Awake
<1> QED BY <1>1, <1>3, <1>4, <1>5, MoveStep

\* mutex_acquire in circular_count takes the lock, or the thread sleeps on it.
LEMMA LockStep ==
  ASSUME IInv, NEW t \in Threads, CountLock(t) \/ CountWait(t)
  PROVE  IInv'
<1>1. PICK place \in {"test", "enter", "early"} : Goes(t, place, place)
  BY DEF CountLock, CountWait
<1>2. UNCHANGED <<begin, count, arr, producer, consumer, index, made, sent, got>> /\ place \in Places
  BY DEF CountLock, CountWait, queue, lists, items, Places, Window
<1>3. pc[t] = place /\ pc'[t] = place /\ \A u \in Threads \ {t} : pc'[u] = pc[u]
  BY <1>1, <1>2, GoesFacts DEF IInv
<1>4. Placed'
  BY <1>2, <1>3, Constants DEF IInv, Placed
<1>5. InRangeAt(t) => InRangeAt(t)'
  BY <1>2, <1>3 DEF InRangeAt, D
<1>6. (TakesAt(t) => TakesAt(t)') /\ (GivesAt(t) => GivesAt(t)')
  BY <1>2, <1>3 DEF TakesAt, GivesAt, Awake, Sleeping
<1> QED BY <1>1, <1>2, <1>4, <1>5, <1>6, MoveStep

\* circular_enqueue looks at the count.
LEMMA EnqueueTestStep ==
  ASSUME IInv, NEW t \in Threads, EnqueueTest(t)
  PROVE  IInv'
<1>1. Goes(t, "test", IF count >= Size THEN "full" ELSE "enter")
  BY DEF EnqueueTest
<1>2. /\ t \in Producers
      /\ UNCHANGED <<begin, count, arr, producer, consumer, index, made, sent, got>> /\ UNCHANGED lists
  BY DEF EnqueueTest, queue, lists, items
<1>3. /\ OnlyMoves(t) /\ pc[t] = "test" /\ pc'[t] = (IF count >= Size THEN "full" ELSE "enter")
      /\ raced' \in BOOLEAN
      /\ ~raced' => ~raced /\ (\A u \in Threads \ {t} : pc[u] \notin Window /\ pc'[u] \notin Window)
      /\ (~raced' => Alone') /\ Told'
  BY <1>1, GoesFacts DEF IInv, OnlyMoves, Places, Window, OffLists
<1>4. Typed'
  BY <1>2, <1>3 DEF IInv, Typed, OnlyMoves
<1>5. Placed'
  BY <1>1, <1>2, <1>3, Constants DEF IInv, Placed, OnlyMoves
<1>6. Counted'
  BY <1>1, <1>2, <1>3, CountedKept DEF IInv
<1>7. t \notin Consumers /\ ~TakesAt(t) /\ ~TakesAt(t)' /\ (GivesAt(t) <=> pc[t] = "test")
      /\ (GivesAt(t)' <=> pc'[t] = "enter")
  BY <1>1, <1>2, <1>3, Constants DEF TakesAt, GivesAt, Awake
<1>8. /\ ListOK(producer)' /\ ListOK(consumer)' /\ Finite'
      /\ Cardinality(Takers') = Cardinality(Takers) /\ Cardinality(Takers) \in Nat
      /\ Cardinality(Givers) \in Nat /\ Cardinality(Givers') \in Nat
      /\ pc'[t] = "enter" => Cardinality(Givers') >= Cardinality(Givers)
  BY <1>1, <1>2, <1>3, <1>7, Numbers
<1>9. ASSUME ~raced'
      PROVE  InRange' /\ Stored' /\ Remembered'
  <2>1. InRangeAt(t) /\ StoredAt(t) /\ Remembered
    BY <1>3, <1>9, Local DEF IInv
  <2>2. InRangeAt(t)'
    BY <1>1, <1>2, <1>3, <2>1, Constants DEF InRangeAt, D
  <2>3. StoredAt(t)'
    BY <1>1, <1>2, <1>3, <2>1 DEF StoredAt, D
  <2>4. Remembered'
    BY <1>2, <1>3, <1>8, <2>1, Constants DEF Remembered, InRangeAt
  <2> QED BY <1>3, <1>5, <1>9, <2>2, <2>3, <2>4, LocalNext
<1> QED BY <1>3, <1>4, <1>5, <1>6, <1>8, <1>9 DEF IInv

\* circular_dequeue looks at the count.
LEMMA DequeueTestStep ==
  ASSUME IInv, NEW t \in Threads, DequeueTest(t)
  PROVE  IInv'
<1>1. Goes(t, "test", IF count = 0 THEN "empty" ELSE "enter")
  BY DEF DequeueTest
<1>2. /\ t \in Consumers
      /\ UNCHANGED <<begin, count, arr, producer, consumer, index, made, sent, got>> /\ UNCHANGED lists
  BY DEF DequeueTest, queue, lists, items
<1>3. /\ OnlyMoves(t) /\ pc[t] = "test" /\ pc'[t] = (IF count = 0 THEN "empty" ELSE "enter") /\ raced' \in BOOLEAN
      /\ ~raced' => ~raced /\ (\A u \in Threads \ {t} : pc[u] \notin Window /\ pc'[u] \notin Window)
      /\ (~raced' => Alone') /\ Told'
  BY <1>1, GoesFacts DEF IInv, OnlyMoves, Places, Window, OffLists
<1>4. Typed'
  BY <1>2, <1>3 DEF IInv, Typed, OnlyMoves
<1>5. Placed'
  BY <1>1, <1>2, <1>3, Constants DEF IInv, Placed, OnlyMoves
<1>6. Counted'
  BY <1>1, <1>2, <1>3, CountedKept DEF IInv
<1>7. t \notin Producers /\ ~GivesAt(t) /\ ~GivesAt(t)' /\ (TakesAt(t) <=> pc[t] = "test")
      /\ (TakesAt(t)' <=> pc'[t] = "enter")
  BY <1>1, <1>2, <1>3, Constants DEF TakesAt, GivesAt, Awake
<1>8. /\ ListOK(producer)' /\ ListOK(consumer)' /\ Finite'
      /\ Cardinality(Givers') = Cardinality(Givers) /\ Cardinality(Givers) \in Nat
      /\ Cardinality(Takers) \in Nat /\ Cardinality(Takers') \in Nat
      /\ pc'[t] = "enter" => Cardinality(Takers') >= Cardinality(Takers)
  BY <1>1, <1>2, <1>3, <1>7, Numbers
<1>9. ASSUME ~raced'
      PROVE  InRange' /\ Stored' /\ Remembered'
  <2>1. InRangeAt(t) /\ StoredAt(t) /\ Remembered
    BY <1>3, <1>9, Local DEF IInv
  <2>2. InRangeAt(t)'
    BY <1>1, <1>2, <1>3, <1>7, <2>1, Constants DEF InRangeAt, D
  <2>3. StoredAt(t)'
    BY <1>1, <1>2, <1>3, <2>1 DEF StoredAt, D
  <2>4. Remembered'
    BY <1>2, <1>3, <1>8, <2>1, Constants DEF Remembered, InRangeAt
  <2> QED BY <1>3, <1>5, <1>9, <2>2, <2>3, <2>4, LocalNext
<1> QED BY <1>3, <1>4, <1>5, <1>6, <1>8, <1>9 DEF IInv

\* A thread that was woken looks at the count again.
LEMMA WokenStep ==
  ASSUME IInv, NEW t \in Threads, Woken(t)
  PROVE  IInv'
<1>1. Goes(t, "asleep", "test") /\ ~Sleeping(t)
  BY DEF Woken
<1>2. UNCHANGED <<begin, count, arr, producer, consumer, index, made, sent, got>> /\ UNCHANGED lists
  BY DEF Woken, queue, lists, items
<1>3. /\ OnlyMoves(t) /\ pc[t] = "asleep" /\ pc'[t] = "test" /\ raced' \in BOOLEAN
      /\ ~raced' => ~raced /\ (\A u \in Threads \ {t} : pc[u] \notin Window /\ pc'[u] \notin Window)
      /\ (~raced' => Alone') /\ Told'
  BY <1>1, GoesFacts DEF IInv, OnlyMoves, Places, Window, OffLists
<1>4. Typed'
  BY <1>2, <1>3 DEF IInv, Typed, OnlyMoves
<1>5. Placed'
  BY <1>2, <1>3, Constants DEF IInv, Placed, OnlyMoves
<1>6. Counted'
  BY <1>2, <1>3, CountedKept DEF IInv
<1>7. (TakesAt(t) <=> TakesAt(t)') /\ (GivesAt(t) <=> GivesAt(t)')
  BY <1>1, <1>3, Constants DEF TakesAt, GivesAt, Awake
<1>8. /\ ListOK(producer)' /\ ListOK(consumer)' /\ Finite'
      /\ Cardinality(Givers') = Cardinality(Givers) /\ Cardinality(Takers') = Cardinality(Takers)
  BY <1>1, <1>2, <1>3, <1>7, Numbers
<1>9. ASSUME ~raced'
      PROVE  InRange' /\ Stored' /\ Remembered'
  <2>1. InRangeAt(t) /\ StoredAt(t) /\ Remembered
    BY <1>3, <1>9, Local DEF IInv
  <2>2. InRangeAt(t)'
    BY <1>2, <1>3, <2>1 DEF InRangeAt, D
  <2>3. StoredAt(t)'
    BY <1>2, <1>3, <2>1 DEF StoredAt, D
  <2>4. Remembered'
    BY <1>2, <1>8, <2>1 DEF Remembered
  <2> QED BY <1>3, <1>5, <1>9, <2>2, <2>3, <2>4, LocalNext
<1> QED BY <1>3, <1>4, <1>5, <1>6, <1>8, <1>9 DEF IInv

\* A producer that found the queue full leaves the run ring.
LEMMA EnqueueUnlinkStep ==
  ASSUME IInv, NEW t \in Threads, EnqueueUnlink(t)
  PROVE  IInv'
<1> DEFINE from == "full"
           to == "moving"
<1>1. /\ t \in Producers /\ t \notin Consumers /\ Goes(t, from, to) /\ to \in Places
      /\ UNCHANGED <<begin, count, arr, producer, consumer, index, made, sent, got>>
  BY Constants DEF EnqueueUnlink, queue, lists, items, Places, Window, OffLists
<1>2. pc[t] = from /\ pc'[t] = to /\ \A u \in Threads \ {t} : pc'[u] = pc[u]
  BY <1>1, GoesFacts DEF IInv
<1>3. Placed'
  BY <1>1, <1>2, Constants DEF IInv, Placed
<1>4. InRangeAt(t) => InRangeAt(t)'
  BY <1>1, <1>2 DEF InRangeAt, D
<1>5. /\ consumer # << >> => (TakesAt(t) => TakesAt(t)')
      /\ producer # << >> => (GivesAt(t) => GivesAt(t)')
  BY <1>1, <1>2 DEF TakesAt, GivesAt, Awake
<1> QED BY <1>1, <1>3, <1>4, <1>5, MoveStep

\* A consumer that found the queue empty leaves the run ring.
LEMMA DequeueUnlinkStep ==
  ASSUME IInv, NEW t \in Threads, DequeueUnlink(t)
  PROVE  IInv'
<1> DEFINE from == "empty"
           to == "moving"
<1>1. /\ t \in Consumers /\ t \notin Producers /\ Goes(t, from, to) /\ to \in Places
      /\ UNCHANGED <<begin, count, arr, producer, consumer, index, made, sent, got>>
  BY Constants DEF DequeueUnlink, queue, lists, items, Places, Window, OffLists
<1>2. pc[t] = from /\ pc'[t] = to /\ \A u \in Threads \ {t} : pc'[u] = pc[u]
  BY <1>1, GoesFacts DEF IInv
<1>3. Placed'
  BY <1>1, <1>2, Constants DEF IInv, Placed
<1>4. InRangeAt(t) => InRangeAt(t)'
  BY <1>1, <1>2 DEF InRangeAt, D
<1>5. /\ consumer # << >> => (TakesAt(t) => TakesAt(t)')
      /\ producer # << >> => (GivesAt(t) => GivesAt(t)')
  BY <1>1, <1>2 DEF TakesAt, GivesAt, Awake
<1> QED BY <1>1, <1>3, <1>4, <1>5, MoveStep

\* A producer that found the queue full goes to sleep.
LEMMA EnqueueSleepStep ==
  ASSUME IInv, NEW t \in Threads, EnqueueSleep(t)
  PROVE  IInv'
<1>1. Goes(t, "moving", "asleep")
  BY DEF EnqueueSleep
<1>2. /\ t \in Producers /\ producer' = PutOn(producer, t)
      /\ UNCHANGED <<begin, count, arr, consumer, index, made, sent, got>>
  BY DEF EnqueueSleep, queue, items
<1>3. /\ OnlyMoves(t) /\ pc[t] = "moving" /\ pc'[t] = "asleep" /\ raced' \in BOOLEAN
      /\ ~raced' => ~raced /\ (\A u \in Threads \ {t} : pc[u] \notin Window /\ pc'[u] \notin Window)
      /\ (~raced' => Alone') /\ Told'
  BY <1>1, GoesFacts DEF IInv, OnlyMoves, Places, Window, OffLists
<1>8. /\ producer' \in Seq(Producers) /\ ListOK(producer)' /\ ListOK(consumer)' /\ Finite'
      /\ ~raced' => Takers' = Takers /\ Givers' = Givers
  <2>1. CASE broken
    <3>1. UNCHANGED lists /\ raced
      BY <1>2, <2>1 DEF PutOn, lists, IInv, Told
    <3> QED BY <1>3, <3>1, Numbers DEF IInv, Typed, lists
  <2>2. CASE ~broken
    <3>1. producer' = Append(producer, t)
      BY <1>2, <2>2 DEF PutOn
    <3> QED BY <1>2, <1>3, <3>1, ProducerSleeps DEF IInv, Finite
  <2> QED BY <2>1, <2>2
<1>4. Typed'
  BY <1>2, <1>3, <1>8 DEF IInv, Typed, OnlyMoves
<1>5. Placed'
  BY <1>2, <1>3, Constants DEF IInv, Placed, OnlyMoves
<1>6. Counted'
  BY <1>2, <1>3, CountedKept DEF IInv
<1>7. Cardinality(Takers) \in Nat /\ Cardinality(Givers) \in Nat
  BY FS_CardinalityType DEF IInv, Finite
<1>9. ASSUME ~raced'
      PROVE  InRange' /\ Stored' /\ Remembered'
  <2>1. InRangeAt(t) /\ StoredAt(t) /\ Remembered
    BY <1>3, <1>9, Local DEF IInv
  <2>2. InRangeAt(t)'
    BY <1>2, <1>3, <2>1 DEF InRangeAt, D
  <2>3. StoredAt(t)'
    BY <1>2, <1>3, <2>1 DEF StoredAt, D
  <2>4. Remembered'
    BY <1>2, <1>3, <1>7, <1>8, <1>9, <2>1, Constants DEF Remembered, InRangeAt
  <2> QED BY <1>3, <1>5, <1>9, <2>2, <2>3, <2>4, LocalNext
<1> QED BY <1>3, <1>4, <1>5, <1>6, <1>8, <1>9 DEF IInv

\* A consumer that found the queue empty goes to sleep.
LEMMA DequeueSleepStep ==
  ASSUME IInv, NEW t \in Threads, DequeueSleep(t)
  PROVE  IInv'
<1>1. Goes(t, "moving", "asleep")
  BY DEF DequeueSleep
<1>2. /\ t \in Consumers /\ consumer' = PutOn(consumer, t)
      /\ UNCHANGED <<begin, count, arr, producer, index, made, sent, got>>
  BY DEF DequeueSleep, queue, items
<1>3. /\ OnlyMoves(t) /\ pc[t] = "moving" /\ pc'[t] = "asleep" /\ raced' \in BOOLEAN
      /\ ~raced' => ~raced /\ (\A u \in Threads \ {t} : pc[u] \notin Window /\ pc'[u] \notin Window)
      /\ (~raced' => Alone') /\ Told'
  BY <1>1, GoesFacts DEF IInv, OnlyMoves, Places, Window, OffLists
<1>8. /\ consumer' \in Seq(Consumers) /\ ListOK(producer)' /\ ListOK(consumer)' /\ Finite'
      /\ ~raced' => Takers' = Takers /\ Givers' = Givers
  <2>1. CASE broken
    <3>1. UNCHANGED lists /\ raced
      BY <1>2, <2>1 DEF PutOn, lists, IInv, Told
    <3> QED BY <1>3, <3>1, Numbers DEF IInv, Typed, lists
  <2>2. CASE ~broken
    <3>1. consumer' = Append(consumer, t)
      BY <1>2, <2>2 DEF PutOn
    <3> QED BY <1>2, <1>3, <3>1, ConsumerSleeps DEF IInv, Finite
  <2> QED BY <2>1, <2>2
<1>4. Typed'
  BY <1>2, <1>3, <1>8 DEF IInv, Typed, OnlyMoves
<1>5. Placed'
  BY <1>2, <1>3, Constants DEF IInv, Placed, OnlyMoves
<1>6. Counted'
  BY <1>2, <1>3, CountedKept DEF IInv
<1>7. Cardinality(Takers) \in Nat /\ Cardinality(Givers) \in Nat
  BY FS_CardinalityType DEF IInv, Finite
<1>9. ASSUME ~raced'
      PROVE  InRange' /\ Stored' /\ Remembered'
  <2>1. InRangeAt(t) /\ StoredAt(t) /\ Remembered
    BY <1>3, <1>9, Local DEF IInv
  <2>2. InRangeAt(t)'
    BY <1>2, <1>3, <2>1 DEF InRangeAt, D
  <2>3. StoredAt(t)'
    BY <1>2, <1>3, <2>1 DEF StoredAt, D
  <2>4. Remembered'
    BY <1>2, <1>3, <1>7, <1>8, <1>9, <2>1, Constants DEF Remembered, InRangeAt
  <2> QED BY <1>3, <1>5, <1>9, <2>2, <2>3, <2>4, LocalNext
<1> QED BY <1>3, <1>4, <1>5, <1>6, <1>8, <1>9 DEF IInv

\* A producer looks for a sleeping consumer.
LEMMA EnqueueSignalStep ==
  ASSUME IInv, NEW t \in Threads, EnqueueSignal(t)
  PROVE  IInv'
<1> DEFINE from == "signal"
           to == IF consumer = << >> THEN "idle" ELSE "waking"
<1>1. /\ t \in Producers /\ t \notin Consumers /\ Goes(t, from, to) /\ to \in Places
      /\ UNCHANGED <<begin, count, arr, producer, consumer, index, made, sent, got>>
  BY Constants DEF EnqueueSignal, queue, lists, items, Places, Window, OffLists
<1>2. pc[t] = from /\ pc'[t] = to /\ \A u \in Threads \ {t} : pc'[u] = pc[u]
  BY <1>1, GoesFacts DEF IInv
<1>3. Placed'
  BY <1>1, <1>2, Constants DEF IInv, Placed
<1>4. InRangeAt(t) => InRangeAt(t)'
  BY <1>1, <1>2 DEF InRangeAt, D
<1>5. /\ consumer # << >> => (TakesAt(t) => TakesAt(t)')
      /\ producer # << >> => (GivesAt(t) => GivesAt(t)')
  BY <1>1, <1>2 DEF TakesAt, GivesAt, Awake
<1> QED BY <1>1, <1>3, <1>4, <1>5, MoveStep

\* A consumer looks for a sleeping producer.
LEMMA DequeueSignalStep ==
  ASSUME IInv, NEW t \in Threads, DequeueSignal(t)
  PROVE  IInv'
<1> DEFINE from == "signal"
           to == IF producer = << >> THEN "idle" ELSE "waking"
<1>1. /\ t \in Consumers /\ t \notin Producers /\ Goes(t, from, to) /\ to \in Places
      /\ UNCHANGED <<begin, count, arr, producer, consumer, index, made, sent, got>>
  BY Constants DEF DequeueSignal, queue, lists, items, Places, Window, OffLists
<1>2. pc[t] = from /\ pc'[t] = to /\ \A u \in Threads \ {t} : pc'[u] = pc[u]
  BY <1>1, GoesFacts DEF IInv
<1>3. Placed'
  BY <1>1, <1>2, Constants DEF IInv, Placed
<1>4. InRangeAt(t) => InRangeAt(t)'
  BY <1>1, <1>2 DEF InRangeAt, D
<1>5. /\ consumer # << >> => (TakesAt(t) => TakesAt(t)')
      /\ producer # << >> => (GivesAt(t) => GivesAt(t)')
  BY <1>1, <1>2 DEF TakesAt, GivesAt, Awake
<1> QED BY <1>1, <1>3, <1>4, <1>5, MoveStep

\* A producer wakes the first sleeping consumer.
LEMMA EnqueueWakeStep ==
  ASSUME IInv, NEW t \in Threads, EnqueueWake(t)
  PROVE  IInv'
<1>1. Goes(t, "waking", "idle")
  BY DEF EnqueueWake
<1>2. /\ t \in Producers /\ consumer' = Wake(consumer)
      /\ UNCHANGED <<begin, count, arr, producer, index, made, sent, got>>
  BY DEF EnqueueWake, queue, items
<1>3. /\ OnlyMoves(t) /\ pc[t] = "waking" /\ pc'[t] = "idle" /\ raced' \in BOOLEAN
      /\ ~raced' => ~raced /\ (\A u \in Threads \ {t} : pc[u] \notin Window /\ pc'[u] \notin Window)
      /\ (~raced' => Alone') /\ Told'
  BY <1>1, GoesFacts DEF IInv, OnlyMoves, Places, Window, OffLists
<1>8. /\ consumer' \in Seq(Consumers) /\ ListOK(producer)' /\ ListOK(consumer)' /\ Finite'
      /\ Givers' = Givers
      /\ consumer' # << >> => consumer # << >> /\ Cardinality(Takers') = Cardinality(Takers)
  BY <1>2, <1>3, ConsumerWakes DEF IInv
<1>4. Typed'
  BY <1>2, <1>3, <1>8 DEF IInv, Typed, OnlyMoves
<1>5. Placed'
  BY <1>2, <1>3, Constants DEF IInv, Placed, OnlyMoves
<1>6. Counted'
  BY <1>2, <1>3, CountedKept DEF IInv
<1>9. ASSUME ~raced'
      PROVE  InRange' /\ Stored' /\ Remembered'
  <2>1. InRangeAt(t) /\ StoredAt(t) /\ Remembered
    BY <1>3, <1>9, Local DEF IInv
  <2>2. InRangeAt(t)'
    BY <1>2, <1>3, <2>1 DEF InRangeAt, D
  <2>3. StoredAt(t)'
    BY <1>2, <1>3, <2>1 DEF StoredAt, D
  <2>4. Remembered'
    BY <1>2, <1>8, <2>1 DEF Remembered
  <2> QED BY <1>3, <1>5, <1>9, <2>2, <2>3, <2>4, LocalNext
<1> QED BY <1>3, <1>4, <1>5, <1>6, <1>8, <1>9 DEF IInv

\* A consumer wakes the first sleeping producer.
LEMMA DequeueWakeStep ==
  ASSUME IInv, NEW t \in Threads, DequeueWake(t)
  PROVE  IInv'
<1>1. Goes(t, "waking", "idle")
  BY DEF DequeueWake
<1>2. /\ t \in Consumers /\ producer' = Wake(producer)
      /\ UNCHANGED <<begin, count, arr, consumer, index, made, sent, got>>
  BY DEF DequeueWake, queue, items
<1>3. /\ OnlyMoves(t) /\ pc[t] = "waking" /\ pc'[t] = "idle" /\ raced' \in BOOLEAN
      /\ ~raced' => ~raced /\ (\A u \in Threads \ {t} : pc[u] \notin Window /\ pc'[u] \notin Window)
      /\ (~raced' => Alone') /\ Told'
  BY <1>1, GoesFacts DEF IInv, OnlyMoves, Places, Window, OffLists
<1>8. /\ producer' \in Seq(Producers) /\ ListOK(producer)' /\ ListOK(consumer)' /\ Finite'
      /\ Takers' = Takers
      /\ producer' # << >> => producer # << >> /\ Cardinality(Givers') = Cardinality(Givers)
  BY <1>2, <1>3, ProducerWakes DEF IInv
<1>4. Typed'
  BY <1>2, <1>3, <1>8 DEF IInv, Typed, OnlyMoves
<1>5. Placed'
  BY <1>2, <1>3, Constants DEF IInv, Placed, OnlyMoves
<1>6. Counted'
  BY <1>2, <1>3, CountedKept DEF IInv
<1>9. ASSUME ~raced'
      PROVE  InRange' /\ Stored' /\ Remembered'
  <2>1. InRangeAt(t) /\ StoredAt(t) /\ Remembered
    BY <1>3, <1>9, Local DEF IInv
  <2>2. InRangeAt(t)'
    BY <1>2, <1>3, <2>1 DEF InRangeAt, D
  <2>3. StoredAt(t)'
    BY <1>2, <1>3, <2>1 DEF StoredAt, D
  <2>4. Remembered'
    BY <1>2, <1>8, <2>1 DEF Remembered
  <2> QED BY <1>3, <1>5, <1>9, <2>2, <2>3, <2>4, LocalNext
<1> QED BY <1>3, <1>4, <1>5, <1>6, <1>8, <1>9 DEF IInv

\* An element has come or gone, and the count with it.
LEMMA CountMoves ==
  ASSUME NEW c \in Int, NEW x \in Int, NEW cc \in Int, NEW y \in Int, Same(c, x),
         y - x \in {cc - c, cc - c + WordSize, cc - c - WordSize}
  PROVE  Same(cc, y)
<1>0. PICK q \in Int : c = x + q * WordSize
  BY DEF Same
<1>1. \A r \in Int : r * WordSize \in Int /\ (r + 1) * WordSize = r * WordSize + WordSize
                                       /\ (r - 1) * WordSize = r * WordSize - WordSize
  BY Constants
<1>2. q \in Int /\ q + 1 \in Int /\ q - 1 \in Int
  OBVIOUS
<1>3. CASE y - x = cc - c
  <2>1. cc = y + q * WordSize
    BY <1>0, <1>1, <1>3
  <2> QED BY <2>1 DEF Same
<1>4. CASE y - x = cc - c + WordSize
  <2>1. cc = y + (q - 1) * WordSize
    BY <1>0, <1>1, <1>4, Constants
  <2> QED BY <1>2, <2>1 DEF Same
<1>5. CASE y - x = cc - c - WordSize
  <2>1. cc = y + (q + 1) * WordSize
    BY <1>0, <1>1, <1>5, Constants
  <2> QED BY <1>2, <2>1 DEF Same
<1> QED BY <1>3, <1>4, <1>5

\* An index computed modulo the size is a word.
LEMMA Indexes ==
  ASSUME NEW x \in Int
  PROVE  x % Size \in 0 .. WordSize - 1
<1>1. x % Size \in 0 .. Size - 1
  BY Constants
<1> QED BY <1>1, Constants

\* The types of the lengths the invariant is about
LEMMA Lengths ==
  ASSUME Typed
  PROVE  /\ Len(sent) \in Nat /\ Len(got) \in Nat /\ D \in Int /\ D = Len(sent) - Len(got)
         /\ begin \in Nat /\ count \in Nat /\ count < WordSize
BY Constants DEF Typed, D

\* A producer reads begin before it counts its element in.
LEMMA EnqueueEarlyStep ==
  ASSUME IInv, NEW t \in Threads, EnqueueEarly(t)
  PROVE  IInv'
<1>1. Goes(t, "enter", "early")
  BY DEF EnqueueEarly
<1>2. /\ t \in Producers /\ index' = [index EXCEPT ![t] = begin]
      /\ UNCHANGED <<begin, count, arr, producer, consumer, made, sent, got>> /\ UNCHANGED lists
  BY DEF EnqueueEarly, queue, lists, items
<1>3. /\ OnlyMoves(t) /\ pc[t] = "enter" /\ pc'[t] = "early" /\ raced' \in BOOLEAN
      /\ ~raced' => ~raced /\ (\A u \in Threads \ {t} : pc[u] \notin Window /\ pc'[u] \notin Window)
      /\ (~raced' => Alone') /\ Told'
  BY <1>1, GoesFacts DEF IInv, OnlyMoves, Places, Window, OffLists
<1>10. index' \in [Threads -> 0 .. WordSize - 1] /\ index'[t] = begin
  BY <1>2 DEF IInv, Typed
<1>4. Typed'
  BY <1>2, <1>3, <1>10 DEF IInv, Typed, OnlyMoves
<1>5. Placed'
  BY <1>2, <1>3, Constants DEF IInv, Placed, OnlyMoves
<1>6. Counted'
  BY <1>2, <1>3, CountedKept DEF IInv
<1>7. (TakesAt(t) <=> TakesAt(t)') /\ (GivesAt(t) <=> GivesAt(t)')
  BY <1>2, <1>3, Constants DEF TakesAt, GivesAt, Awake
<1>8. /\ ListOK(producer)' /\ ListOK(consumer)' /\ Finite'
      /\ Cardinality(Givers') = Cardinality(Givers) /\ Cardinality(Takers') = Cardinality(Takers)
  BY <1>2, <1>3, <1>7, Numbers
<1>9. ASSUME ~raced'
      PROVE  InRange' /\ Stored' /\ Remembered'
  <2>1. InRangeAt(t) /\ StoredAt(t) /\ Remembered
    BY <1>3, <1>9, Local DEF IInv
  <2>2. InRangeAt(t)'
    BY <1>2, <1>3, <1>10, <2>1 DEF InRangeAt, D
  <2>3. StoredAt(t)'
    BY <1>2, <1>3, <2>1 DEF StoredAt, D
  <2>4. Remembered'
    BY <1>2, <1>8, <2>1 DEF Remembered
  <2> QED BY <1>3, <1>5, <1>9, <2>2, <2>3, <2>4, LocalNext
<1> QED BY <1>3, <1>4, <1>5, <1>6, <1>8, <1>9 DEF IInv

\* A producer counts its element in.
LEMMA EnqueueCountStep ==
  ASSUME IInv, NEW t \in Threads, EnqueueCount(t)
  PROVE  IInv'
<1>1. PICK from \in {"enter", "early"}, to \in {"store", "index"} :
              /\ Goes(t, from, to) /\ (from = "early" <=> to = "store")
              /\ to = "store" => index' = [index EXCEPT ![t] = (@ + count' - 1) % Size]
              /\ to = "index" => index' = [index EXCEPT ![t] = count']
  BY DEF EnqueueCount
<1>2. /\ t \in Producers /\ count' = circular_count(1)
      /\ made' = [made EXCEPT ![t] = @ + 1] /\ sent' = Append(sent, <<t, made'[t]>>)
      /\ UNCHANGED <<begin, arr, producer, consumer, got>> /\ UNCHANGED lists
  BY DEF EnqueueCount, lists
<1>3. /\ OnlyMoves(t) /\ pc[t] = from /\ pc'[t] = to /\ raced' \in BOOLEAN
      /\ ~raced' => ~raced /\ (\A u \in Threads \ {t} : pc[u] \notin Window /\ pc'[u] \notin Window)
      /\ (~raced' => Alone') /\ Told'
  BY <1>1, GoesFacts DEF IInv, OnlyMoves, Places, Window, OffLists
<1>11. /\ to = "store" => index' = [index EXCEPT ![t] = (index[t] + count' - 1) % Size]
       /\ to = "index" => index' = [index EXCEPT ![t] = count']
  BY <1>1
<1>12. /\ count' = (IF count + 1 < WordSize THEN count + 1 ELSE 0) /\ count' \in 0 .. WordSize - 1
  BY <1>2, CountUp DEF IInv, Typed
<1>13. /\ made[t] \in Nat /\ made[t] < ItemsEach[t] /\ ItemsEach[t] \in Nat
  BY <1>1, <1>2, <1>3, Constants DEF IInv, Typed, Placed
<1>14. /\ made' \in [Producers -> Nat] /\ made'[t] = made[t] + 1
       /\ \A u \in Producers \ {t} : made'[u] = made[u]
  BY <1>2, <1>13 DEF IInv, Typed
<1>15. <<t, made'[t]>> \in Items
  <2>1. made'[t] \in 1 .. ItemsEach[t]
    BY <1>13, <1>14
  <2>2. <<t, made'[t]>> \in {t} \X (1 .. ItemsEach[t])
    BY <2>1
  <2> QED BY <1>2, <2>2 DEF Items
<1>16. /\ sent' \in Seq(Items) /\ Len(sent') = Len(sent) + 1 /\ sent'[Len(sent')] = <<t, made'[t]>>
       /\ \A k \in 1 .. Len(sent) : sent'[k] = sent[k]
  BY <1>2, <1>15 DEF IInv, Typed
<1>17. D' = D + 1 /\ Len(sent) \in Nat /\ Len(got) \in Nat /\ D \in Int /\ D = Len(sent) - Len(got)
  BY <1>2, <1>16, Lengths DEF IInv, D
<1>18. index' \in [Threads -> 0 .. WordSize - 1]
  <2>1. index \in [Threads -> 0 .. WordSize - 1] /\ index[t] \in Nat /\ count' \in Nat
    BY <1>12 DEF IInv, Typed
  <2>2. (index[t] + count' - 1) % Size \in 0 .. WordSize - 1
    BY <2>1, Indexes
  <2> QED BY <1>11, <1>12, <2>1, <2>2
<1>4. Typed'
  BY <1>2, <1>3, <1>12, <1>14, <1>16, <1>18 DEF IInv, Typed, OnlyMoves
<1>5. Placed'
  <2>1. \A u \in Producers \ {t} : u \in Threads /\ pc'[u] = pc[u] /\ made'[u] = made[u]
    BY <1>3, <1>14, Constants DEF OnlyMoves
  <2>2. \A u \in Consumers : u \in Threads \ {t} /\ pc'[u] = pc[u]
    BY <1>2, <1>3, Constants DEF OnlyMoves
  <2>3. pc'[t] \in {"index", "store"} /\ made'[t] \in Nat /\ made'[t] <= ItemsEach[t] /\ made'[t] >= 1
    BY <1>1, <1>3, <1>13, <1>14
  <2> QED BY <2>1, <2>2, <2>3 DEF IInv, Placed
<1>6. Counted'
  <2>1. Readers' = Readers
    BY <1>1, <1>2, <1>3, Constants DEF Readers, OnlyMoves
  <2>2. Cardinality(Readers) \in Int /\ count \in Int /\ count' \in Int /\ WordSize \in Nat /\ D' \in Int
    BY <1>12, <1>17, FS_CardinalityType, Lengths, Constants DEF IInv, Counted
  <2>3. count' = count + 1 \/ count' = count + 1 - WordSize
    BY <1>12, <2>2, Lengths DEF IInv
  <2>4. /\ D - Cardinality(Readers) \in Int /\ D' - Cardinality(Readers) \in Int
        /\ (D' - Cardinality(Readers)) - (D - Cardinality(Readers))
              \in {count' - count, count' - count + WordSize, count' - count - WordSize}
    BY <1>17, <2>2, <2>3
  <2>5. Same(count', D' - Cardinality(Readers))
    BY <2>2, <2>4, CountMoves DEF IInv, Counted
  <2> QED BY <2>1, <2>5 DEF IInv, Counted, Same
<1>7. t \notin Consumers /\ ~TakesAt(t) /\ TakesAt(t)' /\ GivesAt(t) /\ ~GivesAt(t)'
  BY <1>1, <1>2, <1>3, Constants DEF TakesAt, GivesAt, Awake
<1>8. /\ ListOK(producer)' /\ ListOK(consumer)' /\ Finite'
      /\ Cardinality(Takers') = Cardinality(Takers) + 1 /\ Cardinality(Takers) \in Nat
      /\ Cardinality(Givers') = Cardinality(Givers) - 1 /\ Cardinality(Givers) \in Nat
  BY <1>1, <1>2, <1>3, <1>7, Numbers
<1>9. ASSUME ~raced'
      PROVE  InRange' /\ Stored' /\ Remembered'
  <2>1. InRangeAt(t) /\ StoredAt(t) /\ Remembered
    BY <1>3, <1>9, Local DEF IInv
  <2>5. /\ count = D /\ D \in 0 .. Size - 1 /\ count' = count + 1 /\ begin \in 0 .. Size - 1
        /\ D' = D + 1 /\ begin' = begin /\ (to = "store" => index[t] = begin)
    BY <1>1, <1>2, <1>3, <1>12, <1>17, <2>1, Constants, SMTT(30) DEF InRangeAt
  <2>2. InRangeAt(t)'
    <3>1. index \in [Threads -> 0 .. WordSize - 1]
      BY DEF IInv, Typed
    <3>2. begin + count' - 1 \in 0 .. 2 * Size - 1 /\ begin + count' - 1 = begin + D' - 1
      BY <2>5, Constants
    <3>3. index'[t] = IF to = "store" THEN Pos(begin + D' - 1) ELSE D'
      BY <1>1, <1>11, <2>5, <3>1, <3>2, Rounds
    <3> QED BY <1>1, <1>3, <1>16, <2>5, <3>3, Constants DEF InRangeAt
  <2>3. StoredAt(t)'
    <3>1. \A k \in 1 .. Len(got) : k \in 1 .. Len(sent)
      BY <1>17, <2>5
    <3>2. \A j \in 0 .. D - 1 : Len(got) + 1 + j \in 1 .. Len(sent)
      BY <1>17, <2>5
    <3>3. \A j \in 0 .. D - 1 : arr[Pos(Pos(begin) + j)] = sent[Len(got) + 1 + j]
      BY <1>1, <1>3, <2>1 DEF StoredAt
    <3>4. \A j \in 0 .. D' - 1 : j # D' - 1 => j \in 0 .. D - 1
      BY <2>5
    <3>5. pc'[t] \in {"index", "store"}
      BY <1>1, <1>3
    <3>6. \A k \in 1 .. Len(got') : got'[k] = sent'[k]
      BY <1>2, <1>16, <2>1, <3>1 DEF StoredAt
    <3>7. \A j \in 0 .. D' - 1 : j # D' - 1 => arr'[Pos(Pos(begin') + j)] = sent'[Len(got') + 1 + j]
      BY <1>2, <1>16, <3>2, <3>3, <3>4
    <3> QED BY <3>5, <3>6, <3>7 DEF StoredAt
  <2>4. Remembered'
    BY <1>2, <1>8, <2>1, <2>5, Constants DEF Remembered
  <2> QED BY <1>3, <1>5, <1>9, <2>2, <2>3, <2>4, LocalNext
<1> QED BY <1>3, <1>4, <1>5, <1>6, <1>8, <1>9 DEF IInv

\* A producer computes the index of its element.
LEMMA EnqueueIndexStep ==
  ASSUME IInv, NEW t \in Threads, EnqueueIndex(t)
  PROVE  IInv'
<1>1. Goes(t, "index", "store")
  BY DEF EnqueueIndex
<1>2. /\ t \in Producers /\ index' = [index EXCEPT ![t] = (begin + @ - 1) % Size]
      /\ UNCHANGED <<begin, count, arr, producer, consumer, made, sent, got>> /\ UNCHANGED lists
  BY DEF EnqueueIndex, queue, lists, items
<1>3. /\ OnlyMoves(t) /\ pc[t] = "index" /\ pc'[t] = "store" /\ raced' \in BOOLEAN
      /\ ~raced' => ~raced /\ (\A u \in Threads \ {t} : pc[u] \notin Window /\ pc'[u] \notin Window)
      /\ (~raced' => Alone') /\ Told'
  BY <1>1, GoesFacts DEF IInv, OnlyMoves, Places, Window, OffLists
<1>10. /\ index \in [Threads -> 0 .. WordSize - 1] /\ begin \in Nat
  BY DEF IInv, Typed
<1>11. index'[t] = (begin + index[t] - 1) % Size
  BY <1>2, <1>10
<1>12. index' \in [Threads -> 0 .. WordSize - 1]
  <2>1. (begin + index[t] - 1) % Size \in 0 .. WordSize - 1
    <3>1. index[t] \in Nat
      BY <1>10
    <3> QED BY <1>10, <3>1, Constants
  <2> QED BY <1>2, <1>10, <2>1
<1>4. Typed'
  BY <1>2, <1>3, <1>12 DEF IInv, Typed, OnlyMoves
<1>5. Placed'
  BY <1>2, <1>3, Constants DEF IInv, Placed, OnlyMoves
<1>6. Counted'
  BY <1>2, <1>3, CountedKept DEF IInv
<1>7. (TakesAt(t) <=> TakesAt(t)') /\ (GivesAt(t) <=> GivesAt(t)')
  BY <1>2, <1>3, Constants DEF TakesAt, GivesAt, Awake
<1>8. /\ ListOK(producer)' /\ ListOK(consumer)' /\ Finite'
      /\ Cardinality(Givers') = Cardinality(Givers) /\ Cardinality(Takers') = Cardinality(Takers)
  BY <1>2, <1>3, <1>7, Numbers
<1>9. ASSUME ~raced'
      PROVE  InRange' /\ Stored' /\ Remembered'
  <2>1. InRangeAt(t) /\ StoredAt(t) /\ Remembered
    BY <1>3, <1>9, Local DEF IInv
  <2>2. InRangeAt(t)'
    <3>1. D' = D /\ D \in 1 .. Size /\ index[t] = D /\ begin \in 0 .. Size - 1 /\ begin' = begin
      BY <1>2, <1>3, <2>1, Constants DEF InRangeAt, D
    <3>2. begin + D - 1 \in 0 .. 2 * Size - 1
      BY <3>1, Constants
    <3>3. index'[t] = Pos(begin' + D' - 1)
      BY <1>11, <3>1, <3>2, Rounds
    <3> QED BY <1>2, <1>3, <2>1, <3>1, <3>3 DEF InRangeAt
  <2>3. StoredAt(t)'
    BY <1>2, <1>3, <2>1 DEF StoredAt, D
  <2>4. Remembered'
    BY <1>2, <1>8, <2>1 DEF Remembered
  <2> QED BY <1>3, <1>5, <1>9, <2>2, <2>3, <2>4, LocalNext
<1> QED BY <1>3, <1>4, <1>5, <1>6, <1>8, <1>9 DEF IInv

\* A producer stores its element.
LEMMA EnqueueStoreStep ==
  ASSUME IInv, NEW t \in Threads, EnqueueStore(t)
  PROVE  IInv'
<1>1. Goes(t, "store", "signal")
  BY DEF EnqueueStore
<1>2. /\ t \in Producers /\ arr' = [arr EXCEPT ![index[t]] = <<t, made[t]>>]
      /\ index' = [index EXCEPT ![t] = 0]
      /\ UNCHANGED <<begin, count, producer, consumer, made, sent, got>> /\ UNCHANGED lists
  BY DEF EnqueueStore, lists, items
<1>3. /\ OnlyMoves(t) /\ pc[t] = "store" /\ pc'[t] = "signal" /\ raced' \in BOOLEAN
      /\ ~raced' => ~raced /\ (\A u \in Threads \ {t} : pc[u] \notin Window /\ pc'[u] \notin Window)
      /\ (~raced' => Alone') /\ Told'
  BY <1>1, GoesFacts DEF IInv, OnlyMoves, Places, Window, OffLists
<1>10. /\ index \in [Threads -> 0 .. WordSize - 1] /\ arr \in [0 .. Size - 1 -> Items \union {Garbage}]
       /\ made[t] \in 1 .. ItemsEach[t]
  BY <1>2, <1>3, Constants DEF IInv, Typed, Placed
<1>11. <<t, made[t]>> \in Items
  <2>1. <<t, made[t]>> \in {t} \X (1 .. ItemsEach[t])
    BY <1>10
  <2> QED BY <1>2, <2>1 DEF Items
<1>12. arr' \in [0 .. Size - 1 -> Items \union {Garbage}]
  BY <1>2, <1>10, <1>11
<1>13. index' \in [Threads -> 0 .. WordSize - 1]
  BY <1>2, <1>10, Constants
<1>4. Typed'
  BY <1>2, <1>3, <1>12, <1>13 DEF IInv, Typed, OnlyMoves
<1>5. Placed'
  BY <1>2, <1>3, Constants DEF IInv, Placed, OnlyMoves
<1>6. Counted'
  BY <1>2, <1>3, CountedKept DEF IInv
<1>7. (TakesAt(t) <=> TakesAt(t)') /\ (GivesAt(t) <=> GivesAt(t)')
  BY <1>2, <1>3, Constants DEF TakesAt, GivesAt, Awake
<1>8. /\ ListOK(producer)' /\ ListOK(consumer)' /\ Finite'
      /\ Cardinality(Givers') = Cardinality(Givers) /\ Cardinality(Takers') = Cardinality(Takers)
  BY <1>2, <1>3, <1>7, Numbers
<1>9. ASSUME ~raced'
      PROVE  InRange' /\ Stored' /\ Remembered'
  <2>1. InRangeAt(t) /\ StoredAt(t) /\ Remembered
    BY <1>3, <1>9, Local DEF IInv
  <2>2. InRangeAt(t)'
    BY <1>2, <1>3, <2>1 DEF InRangeAt, D
  <2>3. StoredAt(t)'
    <3>1. /\ D' = D /\ D \in 1 .. Size /\ index[t] = Pos(begin + D - 1) /\ begin \in 0 .. Size - 1
          /\ begin' = begin /\ Pos(begin) = begin /\ sent[Len(sent)] = <<t, made[t]>>
      BY <1>2, <1>3, <2>1, Constants DEF InRangeAt, D, Pos
    <3>2. \A j \in 0 .. D - 1 : Pos(begin + j) \in 0 .. Size - 1
      BY <3>1, Constants, SMTT(30) DEF Pos
    <3>3. \A j \in 0 .. D - 1 : j # D - 1 => Pos(begin + j) # Pos(begin + D - 1)
      BY <3>1, Constants DEF Pos
    <3>4. Len(got) + 1 + (D - 1) = Len(sent) /\ begin + (D - 1) = begin + D - 1 /\ D - 1 \in 0 .. D - 1
      BY <3>1, Lengths DEF IInv
    <3>5. \A j \in 0 .. D - 1 : arr'[Pos(begin + j)] = IF j = D - 1 THEN sent[Len(sent)] ELSE arr[Pos(begin + j)]
      BY <1>2, <1>10, <3>1, <3>2, <3>3, <3>4
    <3>6. \A j \in 0 .. D - 1 : arr'[Pos(begin + j)] = sent[Len(got) + 1 + j]
      BY <2>1, <3>1, <3>4, <3>5 DEF StoredAt
    <3> QED BY <1>2, <2>1, <3>1, <3>6, ZenonT(30) DEF StoredAt
  <2>4. Remembered'
    BY <1>2, <1>8, <2>1 DEF Remembered
  <2> QED BY <1>3, <1>5, <1>9, <2>2, <2>3, <2>4, LocalNext
<1> QED BY <1>3, <1>4, <1>5, <1>6, <1>8, <1>9 DEF IInv

\* A consumer counts an element out.
LEMMA DequeueCountStep ==
  ASSUME IInv, NEW t \in Threads, DequeueCount(t)
  PROVE  IInv'
<1>1. Goes(t, "enter", "read")
  BY DEF DequeueCount
<1>2. /\ t \in Consumers /\ count' = circular_count(-1)
      /\ UNCHANGED <<begin, arr, producer, consumer, index, made, sent, got>> /\ UNCHANGED lists
  BY DEF DequeueCount, lists, items
<1>3. /\ OnlyMoves(t) /\ pc[t] = "enter" /\ pc'[t] = "read" /\ raced' \in BOOLEAN
      /\ ~raced' => ~raced /\ (\A u \in Threads \ {t} : pc[u] \notin Window /\ pc'[u] \notin Window)
      /\ (~raced' => Alone') /\ Told'
  BY <1>1, GoesFacts DEF IInv, OnlyMoves, Places, Window, OffLists
<1>12. count' = (IF count > 0 THEN count - 1 ELSE WordSize - 1) /\ count' \in 0 .. WordSize - 1
  BY <1>2, CountDown DEF IInv, Typed
<1>4. Typed'
  BY <1>2, <1>3, <1>12 DEF IInv, Typed, OnlyMoves
<1>5. Placed'
  BY <1>2, <1>3, Constants DEF IInv, Placed, OnlyMoves
<1>6. Counted'
  <2>1. t \notin Readers /\ t \in Readers' /\ Readers \ {t} = Readers' \ {t}
    BY <1>2, <1>3, Constants DEF Readers, OnlyMoves
  <2>2. /\ IsFiniteSet(Readers') /\ Cardinality(Readers) \in Nat
        /\ Cardinality(Readers') = Cardinality(Readers) + 1
    BY <2>1, Change DEF IInv, Counted
  <2>3. count \in Int /\ count' \in Int /\ WordSize \in Nat /\ D' = D /\ D \in Int
    BY <1>2, <1>12, Lengths, Constants DEF IInv, D
  <2>4. /\ D - Cardinality(Readers) \in Int /\ D' - Cardinality(Readers') \in Int
        /\ (D' - Cardinality(Readers')) - (D - Cardinality(Readers))
              \in {count' - count, count' - count + WordSize, count' - count - WordSize}
    BY <1>12, <2>2, <2>3, Lengths DEF IInv
  <2>5. Same(count', D' - Cardinality(Readers'))
    BY <2>3, <2>4, CountMoves DEF IInv, Counted
  <2> QED BY <2>2, <2>5 DEF IInv, Counted, Same
<1>7. t \notin Producers /\ TakesAt(t) /\ ~TakesAt(t)' /\ ~GivesAt(t) /\ GivesAt(t)'
  BY <1>2, <1>3, Constants DEF TakesAt, GivesAt, Awake
<1>8. /\ ListOK(producer)' /\ ListOK(consumer)' /\ Finite'
      /\ Cardinality(Takers') = Cardinality(Takers) - 1 /\ Cardinality(Takers) \in Nat
      /\ Cardinality(Givers') = Cardinality(Givers) + 1 /\ Cardinality(Givers) \in Nat
  BY <1>2, <1>3, <1>7, Numbers
<1>9. ASSUME ~raced'
      PROVE  InRange' /\ Stored' /\ Remembered'
  <2>1. InRangeAt(t) /\ StoredAt(t) /\ Remembered
    BY <1>3, <1>9, Local DEF IInv
  <2>5. /\ count = D /\ D \in 1 .. Size /\ count' = count - 1 /\ begin \in 0 .. Size - 1
        /\ D' = D /\ begin' = begin
    BY <1>2, <1>3, <1>7, <1>12, <2>1, Constants DEF InRangeAt, D
  <2>2. InRangeAt(t)'
    BY <1>3, <2>5, Constants DEF InRangeAt
  <2>3. StoredAt(t)'
    BY <1>2, <1>3, <2>1 DEF StoredAt, D
  <2>4. Remembered'
    BY <1>2, <1>8, <2>1, <2>5, Constants DEF Remembered
  <2> QED BY <1>3, <1>5, <1>9, <2>2, <2>3, <2>4, LocalNext
<1> QED BY <1>3, <1>4, <1>5, <1>6, <1>8, <1>9 DEF IInv

\* A consumer reads its element and moves begin.
LEMMA DequeueReadStep ==
  ASSUME IInv, NEW t \in Threads, DequeueRead(t)
  PROVE  IInv'
<1>1. Goes(t, "read", "wrap")
  BY DEF DequeueRead
<1>2. /\ t \in Consumers /\ got' = Append(got, IF begin < Size THEN arr[begin] ELSE Garbage)
      /\ begin' = (begin + 1) % WordSize
      /\ UNCHANGED <<count, arr, producer, consumer, index, made, sent>> /\ UNCHANGED lists
  BY DEF DequeueRead, lists
<1>3. /\ OnlyMoves(t) /\ pc[t] = "read" /\ pc'[t] = "wrap" /\ raced' \in BOOLEAN
      /\ ~raced' => ~raced /\ (\A u \in Threads \ {t} : pc[u] \notin Window /\ pc'[u] \notin Window)
      /\ (~raced' => Alone') /\ Told'
  BY <1>1, GoesFacts DEF IInv, OnlyMoves, Places, Window, OffLists
<1>10. begin \in 0 .. WordSize - 1 /\ arr \in [0 .. Size - 1 -> Items \union {Garbage}]
  BY DEF IInv, Typed
<1>11. begin' \in 0 .. WordSize - 1 /\ (begin < Size => begin' = begin + 1)
  <2> DEFINE x == begin + 1
  <2>1. x \in 0 .. 2 * WordSize /\ x = begin + 1 /\ begin' = x % WordSize
    BY <1>2, <1>10, Constants
  <2> HIDE DEF x
  <2>2. begin' = IF x < WordSize THEN x ELSE IF x < 2 * WordSize THEN x - WordSize ELSE 0
    BY <2>1, Constants, SmallRemainder
  <2> QED BY <1>10, <2>1, <2>2, Constants
<1>12. (IF begin < Size THEN arr[begin] ELSE Garbage) \in Items \union {Garbage}
  BY <1>10, Constants
<1>13. /\ got' \in Seq(Items \union {Garbage}) /\ Len(got') = Len(got) + 1
       /\ got'[Len(got) + 1] = (IF begin < Size THEN arr[begin] ELSE Garbage)
       /\ \A k \in 1 .. Len(got) : got'[k] = got[k]
  BY <1>2, <1>12 DEF IInv, Typed
<1>14. D' = D - 1 /\ Len(sent) \in Nat /\ Len(got) \in Nat /\ D \in Int /\ D = Len(sent) - Len(got)
  BY <1>2, <1>13, Lengths DEF IInv, D
<1>4. Typed'
  BY <1>2, <1>3, <1>11, <1>13 DEF IInv, Typed, OnlyMoves
<1>5. Placed'
  BY <1>2, <1>3, Constants DEF IInv, Placed, OnlyMoves
<1>6. Counted'
  <2>1. t \in Readers /\ t \notin Readers' /\ Readers \ {t} = Readers' \ {t}
    BY <1>2, <1>3, Constants DEF Readers, OnlyMoves
  <2>2. /\ IsFiniteSet(Readers') /\ Cardinality(Readers) \in Nat
        /\ Cardinality(Readers') = Cardinality(Readers) - 1
    BY <2>1, Change DEF IInv, Counted
  <2>3. D' - Cardinality(Readers') = D - Cardinality(Readers)
    BY <1>14, <2>2
  <2> QED BY <1>2, <2>2, <2>3 DEF IInv, Counted, Same
<1>7. t \notin Producers /\ ~TakesAt(t) /\ ~TakesAt(t)' /\ GivesAt(t) /\ GivesAt(t)'
  BY <1>2, <1>3, Constants DEF TakesAt, GivesAt, Awake
<1>8. /\ ListOK(producer)' /\ ListOK(consumer)' /\ Finite'
      /\ Cardinality(Takers') = Cardinality(Takers) /\ Cardinality(Givers') = Cardinality(Givers)
  BY <1>2, <1>3, <1>7, Numbers
<1>9. ASSUME ~raced'
      PROVE  InRange' /\ Stored' /\ Remembered'
  <2>1. InRangeAt(t) /\ StoredAt(t) /\ Remembered
    BY <1>3, <1>9, Local DEF IInv
  <2>5. /\ count = D - 1 /\ D \in 1 .. Size /\ count' = count /\ begin \in 0 .. Size - 1
        /\ begin' = begin + 1 /\ D' = D - 1
    BY <1>2, <1>3, <1>11, <1>14, <2>1, Constants, SMTT(30) DEF InRangeAt
  <2>2. InRangeAt(t)'
    BY <1>3, <2>5, Constants DEF InRangeAt
  <2>3. StoredAt(t)'
    <3>1. \A j \in 0 .. D - 1 : arr[Pos(Pos(begin) + j)] = sent[Len(got) + 1 + j]
      BY <1>3, <2>1 DEF StoredAt
    <3>2. Pos(begin) = begin /\ Pos(begin + 0) = begin /\ 0 \in 0 .. D - 1 /\ Len(got) + 1 + 0 = Len(got) + 1
      BY <1>14, <2>5, Constants DEF Pos
    <3>3. got'[Len(got) + 1] = sent[Len(got) + 1]
      <4>1. arr[begin] = sent[Len(got) + 1]
        BY <3>1, <3>2
      <4> QED BY <1>13, <2>5, <4>1, Constants
    <3>4. \A k \in 1 .. Len(got') : k \in 1 .. Len(got) \/ k = Len(got) + 1
      BY <1>13, <1>14
    <3>5. \A k \in 1 .. Len(got') : got'[k] = sent'[k]
      BY <1>2, <1>13, <2>1, <3>3, <3>4 DEF StoredAt
    <3>6. \A j \in 0 .. D' - 1 : /\ j + 1 \in 0 .. D - 1 /\ Pos(Pos(begin') + j) = Pos(begin + (j + 1))
                               /\ Len(got') + 1 + j = Len(got) + 1 + (j + 1)
      BY <1>13, <1>14, <2>5, Constants, SMTT(30) DEF Pos
    <3>7. \A j \in 0 .. D' - 1 : arr'[Pos(Pos(begin') + j)] = sent'[Len(got') + 1 + j]
      BY <1>2, <3>1, <3>2, <3>6
    <3> QED BY <3>5, <3>7 DEF StoredAt
  <2>4. Remembered'
    BY <1>2, <1>8, <2>1, <2>5 DEF Remembered
  <2> QED BY <1>3, <1>5, <1>9, <2>2, <2>3, <2>4, LocalNext
<1> QED BY <1>3, <1>4, <1>5, <1>6, <1>8, <1>9 DEF IInv

\* A consumer brings begin round to 0.
LEMMA DequeueWrapStep ==
  ASSUME IInv, NEW t \in Threads, DequeueWrap(t)
  PROVE  IInv'
<1>1. Goes(t, "wrap", "signal")
  BY DEF DequeueWrap
<1>2. /\ t \in Consumers /\ begin' = begin % Size
      /\ UNCHANGED <<count, arr, producer, consumer, index, made, sent, got>> /\ UNCHANGED lists
  BY DEF DequeueWrap, Wrap, lists, items
<1>3. /\ OnlyMoves(t) /\ pc[t] = "wrap" /\ pc'[t] = "signal" /\ raced' \in BOOLEAN
      /\ ~raced' => ~raced /\ (\A u \in Threads \ {t} : pc[u] \notin Window /\ pc'[u] \notin Window)
      /\ (~raced' => Alone') /\ Told'
  BY <1>1, GoesFacts DEF IInv, OnlyMoves, Places, Window, OffLists
<1>10. begin' \in 0 .. WordSize - 1
  BY <1>2, Indexes, Lengths DEF IInv
<1>4. Typed'
  BY <1>2, <1>3, <1>10 DEF IInv, Typed, OnlyMoves
<1>5. Placed'
  BY <1>2, <1>3, Constants DEF IInv, Placed, OnlyMoves
<1>6. Counted'
  BY <1>2, <1>3, CountedKept DEF IInv
<1>7. (TakesAt(t) <=> TakesAt(t)') /\ (GivesAt(t) <=> GivesAt(t)')
  BY <1>2, <1>3, Constants DEF TakesAt, GivesAt, Awake
<1>8. /\ ListOK(producer)' /\ ListOK(consumer)' /\ Finite'
      /\ Cardinality(Givers') = Cardinality(Givers) /\ Cardinality(Takers') = Cardinality(Takers)
  BY <1>2, <1>3, <1>7, Numbers
<1>9. ASSUME ~raced'
      PROVE  InRange' /\ Stored' /\ Remembered'
  <2>1. InRangeAt(t) /\ StoredAt(t) /\ Remembered
    BY <1>3, <1>9, Local DEF IInv
  <2>5. begin' = Pos(begin) /\ begin' \in 0 .. Size - 1 /\ Pos(begin') = Pos(begin)
    <3>1. begin \in 0 .. 2 * Size - 1
      BY <2>1, Constants DEF InRangeAt
    <3>2. begin' = Pos(begin) /\ Pos(begin) \in 0 .. Size - 1
      BY <1>2, <3>1, Rounds
    <3> QED BY <3>2, Constants DEF Pos
  <2>2. InRangeAt(t)'
    BY <1>2, <1>3, <2>1, <2>5, Constants DEF InRangeAt, D
  <2>3. StoredAt(t)'
    BY <1>2, <1>3, <2>1, <2>5 DEF StoredAt, D
  <2>4. Remembered'
    BY <1>2, <1>8, <2>1 DEF Remembered
  <2> QED BY <1>3, <1>5, <1>9, <2>2, <2>3, <2>4, LocalNext
<1> QED BY <1>3, <1>4, <1>5, <1>6, <1>8, <1>9 DEF IInv

\* A list holds finitely many threads.
LEMMA FiniteRange ==
  ASSUME NEW Mine, NEW list \in Seq(Mine)
  PROVE  IsFiniteSet(Range(list))
<1>1. Len(list) \in Nat /\ list \in [1 .. Len(list) -> Mine] /\ Range(list) = {list[i] : i \in 1 .. Len(list)}
  BY DEF Range
<1>2. IsFiniteSet(1 .. Len(list))
  BY <1>1, FS_Interval
<1>3. list \in Surjection(1 .. Len(list), Range(list))
  BY <1>1 DEF Surjection
<1> QED BY <1>2, <1>3, FS_Surjection

\* A tick falls into the middle of a change to a list.
LEMMA TickStep ==
  ASSUME IInv, Tick
  PROVE  IInv'
<1>1. /\ raced' = TRUE /\ producer' = << >> /\ consumer' = << >>
      /\ UNCHANGED <<begin, count, arr, pc, index, made, sent, got>>
  BY DEF Tick, queue, items
<1>2. Typed' /\ Told' /\ Placed' /\ ListOK(producer)' /\ ListOK(consumer)'
  <2>1. \A S : << >> \in Seq(S)
    OBVIOUS
  <2>2. Typed'
    BY <1>1, <2>1 DEF IInv, Typed
  <2> QED BY <1>1, <2>2 DEF IInv, Told, Placed, ListOK
<1>3. Counted'
  <2>1. Readers' = Readers /\ D' = D
    BY <1>1 DEF Readers, D
  <2> QED BY <1>1, <2>1 DEF IInv, Counted, Same
<1>4. IsFiniteSet(Range(producer) \union Range(consumer))
  BY FiniteRange, FS_Union DEF IInv, Typed
<1>5. /\ Takers' \subseteq Takers \union (Range(producer) \union Range(consumer))
      /\ Givers' \subseteq Givers \union (Range(producer) \union Range(consumer))
  BY <1>1 DEF Takers, Givers, Awake, Sleeping
<1>6. Finite'
  <2>1. /\ IsFiniteSet(Takers \union (Range(producer) \union Range(consumer)))
        /\ IsFiniteSet(Givers \union (Range(producer) \union Range(consumer)))
    BY <1>4, FS_Union DEF IInv, Finite
  <2> QED BY <1>5, <2>1, FS_Subset DEF Finite
<1> QED BY <1>1, <1>2, <1>3, <1>6 DEF IInv

\* Every step keeps the invariant.
LEMMA NextIInv ==
  ASSUME IInv, [Next]_vars
  PROVE  IInv'
<1>1. CASE Next
  <2>0. CASE Tick
    BY <2>0, TickStep
  <2>1. CASE \E t \in Threads : Step(t)
    <3>1. PICK t \in Threads : Step(t)
      BY <2>1
    <3> QED BY <3>1, EnqueueCallStep, EnqueueTestStep, EnqueueUnlinkStep, EnqueueSleepStep, EnqueueEarlyStep,
               EnqueueCountStep, EnqueueIndexStep, EnqueueStoreStep, EnqueueSignalStep, EnqueueWakeStep,
               DequeueCallStep, DequeueTestStep, DequeueUnlinkStep, DequeueSleepStep, DequeueCountStep,
               DequeueReadStep, DequeueWrapStep, DequeueSignalStep, DequeueWakeStep, LockStep, WokenStep
               DEF Step
  <2> QED BY <1>1, <2>0, <2>1 DEF Next
<1>2. CASE UNCHANGED vars
  <2>1. UNCHANGED <<begin, count, arr, producer, consumer, pc, index, made, sent, got, raced, broken>>
    BY <1>2 DEF vars, queue, lists, items
  <2>2. UNCHANGED <<Takers, Givers, Readers, D>>
    BY <2>1 DEF Takers, Givers, Readers, D, Awake, Sleeping
  <2>3. Typed' /\ Told' /\ Placed' /\ ListOK(producer)' /\ ListOK(consumer)'
    BY <2>1 DEF IInv, Typed, Told, Placed, ListOK
  <2>4. Counted' /\ Finite'
    BY <2>1, <2>2 DEF IInv, Counted, Same, Finite
  <2>5. ~raced' => Alone' /\ InRange' /\ Stored' /\ Remembered'
    BY <2>1, <2>2 DEF IInv, Alone, InRange, Stored, Remembered
  <2> QED BY <2>3, <2>4, <2>5 DEF IInv
<1> QED BY <1>1, <1>2

(* The inductive invariant of the queue always holds (circular_enqueue,    *)
(* circular_dequeue).                                                      *)
THEOREM Invariance == Spec => []IInv
BY InitIInv, NextIInv, PTL DEF Spec

----------------------------------------------------------------------------
(* What the invariant shows                                                *)

\* The invariant implies that elements come out in order ...
LEMMA OrderFacts ==
  ASSUME IInv
  PROVE  InOrder
<1> SUFFICES ASSUME ~raced PROVE IsPrefix(got, sent)
  BY DEF InOrder, FirstInFirstOut
<1>1. /\ Len(sent) \in Nat /\ Len(got) \in Nat /\ Len(got) <= Len(sent) /\ sent \in Seq(Items)
      /\ got \in Seq(Items \union {Garbage}) /\ sent \in Seq(Items \union {Garbage})
      /\ \A k \in 1 .. Len(got) : got[k] = sent[k]
  BY Lengths DEF IInv, Typed, InRange, Stored
<1>2. /\ SubSeq(sent, 1, Len(got)) \in Seq(Items \union {Garbage})
      /\ Len(SubSeq(sent, 1, Len(got))) = Len(got)
      /\ \A k \in 1 .. Len(got) : SubSeq(sent, 1, Len(got))[k] = sent[k]
  BY <1>1
<1>3. got = SubSeq(sent, 1, Len(got))
  BY <1>1, <1>2
<1>4. SubSeq(got, 1, Len(got)) = got
  BY <1>1
<1> QED BY <1>1, <1>3, <1>4 DEF IsPrefix

\* ... that the count is exact ...
LEMMA CountFacts ==
  ASSUME IInv
  PROVE  CountExact
<1>1. TypeOK
  BY DEF IInv, Typed, InRange, TypeOK
<1>2. ASSUME \A t \in Threads : pc[t] \notin {"index", "store", "read"}
      PROVE  count = (Len(sent) - Len(got)) % WordSize
  <2>1. Readers = {}
    BY <1>2, Constants DEF Readers
  <2>2. Cardinality(Readers) = 0
    BY <2>1, FS_EmptySet
  <2>3. PICK q \in Int : count = D - 0 + q * WordSize
    BY <2>2 DEF IInv, Counted, Same
  <2>4. D \in Int /\ count \in 0 .. WordSize - 1 /\ q * WordSize \in Int /\ (-q) * WordSize = -(q * WordSize)
    BY Lengths, Constants DEF IInv, Typed
  <2>5. D = (-q) * WordSize + count /\ -q \in Int
    BY <2>3, <2>4
  <2>6. D % WordSize = count
    BY <2>4, <2>5, Constants, Remainder
  <2> QED BY <2>6 DEF D
<1> QED BY <1>1, <1>2 DEF CountExact

\* ... and that nobody sleeps beside an element or a free slot for ever.
LEMMA SleeperFacts ==
  ASSUME IInv
  PROVE  NobodyForgotten
<1> SUFFICES ASSUME ~raced PROVE
        /\ (consumer # << >> /\ count > 0) =>
              \/ \E t \in Consumers : pc[t] \in {"test", "enter"}
                                        \/ (pc[t] = "asleep" /\ ~Sleeping(t))
              \/ \E t \in Producers : pc[t] \in {"index", "store", "signal", "waking"}
        /\ (producer # << >> /\ count < Size) =>
              \/ \E t \in Producers : pc[t] \in {"test", "enter", "early"}
                                        \/ (pc[t] = "asleep" /\ ~Sleeping(t))
              \/ \E t \in Consumers : pc[t] \in {"read", "wrap", "signal", "waking"}
  BY DEF NobodyForgotten
<1>1. Remembered /\ count \in Nat /\ Size \in Nat /\ Cardinality({}) = 0
  BY Lengths, Constants, FS_EmptySet DEF IInv
<1>2. (consumer # << >> /\ count > 0) => Takers # {}
  BY <1>1 DEF Remembered
<1>3. (producer # << >> /\ count < Size) => Givers # {}
  BY <1>1 DEF Remembered
<1> QED BY <1>2, <1>3 DEF Takers, Givers, Awake, IInv, Placed

(* Until a thread is switched to while another is in a window, elements    *)
(* come out in the order in which they went in, for any number of          *)
(* producers, consumers and slots (circular_enqueue, circular_dequeue).    *)
THEOREM OrderKept == Spec => []InOrder
BY Invariance, OrderFacts, PTL

(* Races or not, the count is the number of elements put in less those     *)
(* taken out, modulo the word, whenever no thread is between counting and  *)
(* doing; until a race it keeps to the size (circular_count).              *)
THEOREM CountKept == Spec => []CountExact
BY Invariance, CountFacts, PTL

(* Until a race no consumer sleeps on elements and no producer on free     *)
(* slots unless one that was woken, or will be, is after them              *)
(* (circular_enqueue, circular_dequeue).                                   *)
THEOREM NobodyLeftAsleep == Spec => []NobodyForgotten
BY Invariance, SleeperFacts, PTL
=============================================================================
