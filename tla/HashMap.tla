------------------------------ MODULE HashMap ------------------------------
(***************************************************************************)
(* The hash table of kernel/kernel/klib/map.c: open addressing with        *)
(* quadratic probing, deleted nodes left as tombstones, and a capacity     *)
(* taken from a table of primes that follows the load.                     *)
(*                                                                         *)
(* A call is begun, may move the nodes to a list of another capacity one   *)
(* by one, and ends with its own loop of probes, which is one action: the  *)
(* loop stops at the first probe that satisfies its condition. The 32-bit  *)
(* probe counter comes round to 0, so a loop no probe stops never ends.    *)
(***************************************************************************)
EXTENDS Naturals, FiniteSets

CONSTANTS
    Keys,        \* the keys clients use, natural numbers
    Values,
    Absent,      \* "there is no such key"
    primes,      \* the capacities by level
    FirstLevel,  \* the level map_init starts with, 3: the lowest
    LastLevel,   \* the level that no longer grows, 27
    WordSize,    \* 2^32: probe counters and indexes are computed modulo it
    UniqueKeys   \* clients insert only keys the map does not have, as task.c does

ASSUME MapAssumption ==
    /\ Keys \subseteq Nat /\ Absent \notin Values
    /\ FirstLevel \in Nat /\ LastLevel \in Nat /\ FirstLevel <= LastLevel
    /\ primes \in [FirstLevel .. LastLevel -> Nat \ {0}]
    /\ WordSize \in Nat \ {0}
    /\ UniqueKeys \in BOOLEAN

\* From one level to the next the capacities grow by a third at least and not
\* more than threefold, as those of map.c do from level 2 on.
ASSUME PrimesAssumption ==
    \A l \in FirstLevel .. LastLevel - 1 :
        4 * primes[l] <= 3 * primes[l + 1] /\ primes[l + 1] <= 3 * primes[l]

VARIABLES
    list,            \* map->list
    capacity_level,
    size,
    pc,              \* "idle", "rehash", "work" or "endless"
    op,              \* the call in progress
    old_list, i,     \* of map_rehash
    ret,             \* what map_find returned, until the next call
    contents         \* history: what clients have inserted and not deleted

vars == <<list, capacity_level, size, pc, op, old_list, i, ret, contents>>

NoCall == [name |-> "none"]

Levels == FirstLevel .. LastLevel
Slots(level) == 0 .. primes[level] - 1
capacity == primes[capacity_level]

MAP_EMPTY   == [status |-> "empty"]
MAP_DELETED == [status |-> "deleted"]  \* its key and value are never read again
MAP_OCCUPIED(k, v) == [status |-> "occupied", key |-> k, value |-> v]

Occupied(L)   == {s \in DOMAIN L : L[s].status = "occupied"}
Holding(L, k) == {s \in Occupied(L) : L[s].key = k}
Empty(L)      == {s \in DOMAIN L : L[s].status = "empty"}

----------------------------------------------------------------------------
(* hash and probe. Looking at a node twice changes nothing, so a loop is    *)
(* told by the order in which it first comes to each node.                  *)

\* The node a loop that started at node h of a list looks at as its p-th
Probe(level, h, p) == ((h + p * p) % WordSize) % primes[level]

\* The number of the first probe of each node; WordSize if there is none
rank ==
    [level \in Levels |-> [h \in Slots(level) |-> [s \in Slots(level) |->
        IF \E p \in 0 .. WordSize - 1 : Probe(level, h, p) = s
           THEN CHOOSE p \in 0 .. WordSize - 1 :
                   Probe(level, h, p) = s /\ \A q \in 0 .. p - 1 : Probe(level, h, q) # s
           ELSE WordSize]]]

Rank(k, s) == rank[capacity_level][k % capacity][s]

\* A loop for key k that stops at the nodes of S stops at s.
StopsAt(k, S, s) ==
    s \in S /\ Rank(k, s) < WordSize /\ \A t \in S : Rank(k, s) <= Rank(k, t)

\* It never stops.
Endless(k, S) == \A s \in S : Rank(k, s) = WordSize

\* A bug to be caught: a search ends at a tombstone.
FindStopsAtDeleted(k) == (DOMAIN list \ Occupied(list)) \union Holding(list, k)

\* _map_find stops at an empty node and at the key ...
FindStops(k) == Empty(list) \union Holding(list, k)

\* A bug to be caught: an insertion takes no tombstone.
InsertStopsAtEmpty(k) == Empty(list) \union Holding(list, k)

\* ... map_insert at a node that is not occupied, and at the key.
InsertStops(k) == (DOMAIN list \ Occupied(list)) \union Holding(list, k)

\* map_find, where the loop of _map_find stops
Lookup(k) ==
    IF \E s \in Holding(list, k) : StopsAt(k, FindStops(k), s)
       THEN list[CHOOSE s \in Holding(list, k) : StopsAt(k, FindStops(k), s)].value
       ELSE Absent

----------------------------------------------------------------------------
NewList(level) == [s \in Slots(level) |-> MAP_EMPTY]

\* map_init
Init ==
    /\ capacity_level = FirstLevel /\ size = 0 /\ list = NewList(FirstLevel)
    /\ pc = "idle" /\ old_list = << >> /\ i = 0 /\ ret = Absent
    /\ op = NoCall /\ contents = [k \in Keys |-> Absent]

\* A bug to be caught: the list shrinks whatever its load.
ShrinksAlways == capacity_level > FirstLevel

\* Load factors: three quarters full before an insertion, one quarter full
\* before a deletion
Grows   == capacity_level < LastLevel /\ (capacity - size) * 3 <= size
Shrinks == capacity_level > FirstLevel /\ capacity - size >= 3 * size

\* map_rehash begins: an empty list of the new level replaces the old one
Rehash(level) ==
    /\ old_list' = list /\ i' = 0
    /\ list' = NewList(level) /\ capacity_level' = level /\ size' = 0
    /\ pc' = "rehash"

NoRehash == pc' = "work" /\ UNCHANGED <<list, capacity_level, size, old_list, i>>

\* The node at which the loop of map_insert stops gets the key and the value,
\* and size grows, whether or not the key was there.
Place(k, v) ==
    \E s \in InsertStops(k) :
        /\ StopsAt(k, InsertStops(k), s)
        /\ list' = [list EXCEPT ![s] = MAP_OCCUPIED(k, v)]
        /\ size' = size + 1

InsertBegin(k, v) ==
    /\ pc = "idle" /\ (UniqueKeys => contents[k] = Absent)
    /\ op' = [name |-> "insert", key |-> k, value |-> v]
    /\ IF Grows THEN Rehash(capacity_level + 1) ELSE NoRehash
    /\ ret' = Absent /\ UNCHANGED contents

DeleteBegin(k) ==
    /\ pc = "idle"
    /\ op' = [name |-> "delete", key |-> k]
    /\ IF Shrinks THEN Rehash(capacity_level - 1) ELSE NoRehash
    /\ ret' = Absent /\ UNCHANGED contents

FindBegin(k) ==
    /\ pc = "idle"
    /\ op' = [name |-> "find", key |-> k]
    /\ NoRehash
    /\ ret' = Absent /\ UNCHANGED contents

\* One iteration of map_rehash: the node is inserted by map_insert. (Were the
\* new list three quarters full already, that would be a rehash of its own;
\* see NoNestedRehash.)
RehashNode ==
    /\ pc = "rehash" /\ i \in DOMAIN old_list
    /\ IF i \in Occupied(old_list)
          THEN ~Grows /\ Place(old_list[i].key, old_list[i].value)
          ELSE UNCHANGED <<list, size>>
    /\ i' = i + 1
    /\ UNCHANGED <<capacity_level, pc, op, old_list, ret, contents>>

\* A bug to be caught: the last node is not moved.
AllMovedEarly == i + 1 \notin DOMAIN old_list

AllMoved == i \notin DOMAIN old_list

RehashEnd ==
    /\ pc = "rehash" /\ AllMoved
    /\ pc' = "work" /\ old_list' = << >> /\ i' = 0
    /\ UNCHANGED <<list, capacity_level, size, op, ret, contents>>

Insert ==
    /\ pc = "work" /\ op.name = "insert"
    /\ Place(op.key, op.value)
    /\ contents' = [contents EXCEPT ![op.key] = op.value]
    /\ pc' = "idle" /\ op' = NoCall
    /\ UNCHANGED <<capacity_level, old_list, i, ret>>

Delete ==
    /\ pc = "work" /\ op.name = "delete"
    /\ \E s \in FindStops(op.key) :
          /\ StopsAt(op.key, FindStops(op.key), s)
          /\ IF s \in Holding(list, op.key)
                THEN list' = [list EXCEPT ![s] = MAP_DELETED] /\ size' = size - 1
                ELSE UNCHANGED <<list, size>>
    /\ contents' = [contents EXCEPT ![op.key] = Absent]
    /\ pc' = "idle" /\ op' = NoCall
    /\ UNCHANGED <<capacity_level, old_list, i, ret>>

Find ==
    /\ pc = "work" /\ op.name = "find"
    /\ ~Endless(op.key, FindStops(op.key))
    /\ ret' = Lookup(op.key)
    /\ pc' = "idle" /\ op' = NoCall
    /\ UNCHANGED <<list, capacity_level, size, old_list, i, contents>>

\* The loop of a call goes round for ever.
Spin ==
    /\ pc \in {"work", "endless"}
    /\ Endless(op.key, IF op.name = "insert" THEN InsertStops(op.key) ELSE FindStops(op.key))
    /\ pc' = "endless"
    /\ UNCHANGED <<list, capacity_level, size, op, old_list, i, ret, contents>>

Next ==
    \/ \E k \in Keys : DeleteBegin(k) \/ FindBegin(k) \/ \E v \in Values : InsertBegin(k, v)
    \/ RehashNode \/ RehashEnd
    \/ Insert \/ Delete \/ Find \/ Spin

Spec == Init /\ [][Next]_vars

----------------------------------------------------------------------------
(* Properties                                                              *)

\* What the map holds. While nodes are being moved, the ones not yet moved
\* are still in the old list.
Stored ==
    [k \in Keys |->
        IF pc = "rehash" /\ \E s \in Holding(old_list, k) : s >= i
           THEN old_list[CHOOSE s \in Holding(old_list, k) : s >= i].value
           ELSE Lookup(k)]

Promise == INSTANCE AbstractMap
             WITH contents <- Stored, call <- op

\* Clients that never insert a key twice see a map: whatever the order of the
\* calls, through tombstones, growing and shrinking, map_find returns what was
\* inserted last and not deleted since, and no call disturbs another key.
ImplementsMap == Promise!Spec

\* Every field keeps to its range, and size counts the occupied nodes.
TypeOK ==
    /\ capacity_level \in Levels
    /\ DOMAIN list = Slots(capacity_level)
    /\ \A s \in DOMAIN list : list[s] \in {MAP_EMPTY, MAP_DELETED}
                              \union {MAP_OCCUPIED(k, v) : k \in Keys, v \in Values}
    /\ pc \in {"idle", "rehash", "work", "endless"}
    /\ ret \in Values \union {Absent}
    /\ size = Cardinality(Occupied(list))

\* Through all insertions and deletions size counts the occupied nodes (TypeOK),
\* and so map_rehash never makes map_insert rehash again, growing or shrinking:
\* a nested map_rehash would free the list that the outer one is filling.
NoNestedRehash == TypeOK /\ ((pc = "rehash" /\ i \in Occupied(old_list)) => ~Grows)

\* The only calls that never return are map_find and map_delete of a key that
\* the map does not have: a loop for a key that is there, and the loop of every
\* insertion, gets to a node that stops it, although the quadratic probes miss
\* nearly half of the nodes and tombstones are never cleared.
OnlyMissesSpin == pc = "endless" => op.name # "insert" /\ contents[op.key] = Absent

\* Between two calls map_find returns, for every key, the value inserted last
\* and not deleted since; for a key that is not there it finds nothing.
FindsContents == pc = "idle" => \A k \in Keys : Lookup(k) = contents[k]
=============================================================================
