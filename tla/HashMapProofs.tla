--------------------------- MODULE HashMapProofs ---------------------------
(***************************************************************************)
(* Proofs about HashMap, for every table of capacities, every word size    *)
(* and every set of keys: clients that never insert a key twice see the    *)
(* map that klib/map.h promises.                                           *)
(***************************************************************************)
EXTENDS HashMap, Functions, FiniteSetTheorems, WellFoundedInduction, TLAPS

Node == {MAP_EMPTY, MAP_DELETED} \union {MAP_OCCUPIED(k, v) : k \in Keys, v \in Values}

\* The number of the probe at which a loop for key k comes to node s
R(lev, k, s) == rank[lev][k % primes[lev]][s]

\* No key is in two nodes.
Unique(L) == \A s, t \in Occupied(L) : L[s].key = L[t].key => s = t

\* A search for a key that is in the list gets to it: no node that is looked
\* at before is empty.
Reached(L, lev) ==
  \A s \in Occupied(L) :
     /\ R(lev, L[s].key, s) < WordSize
     /\ \A t \in DOMAIN L : R(lev, L[s].key, t) < R(lev, L[s].key, s) => L[t].status # "empty"

IsTable(L, lev) == L \in [Slots(lev) -> Node] /\ Unique(L) /\ Reached(L, lev)

----------------------------------------------------------------------------
(* Nodes and probes                                                        *)

\* What a node is told by its status.
LEMMA Nodes ==
  /\ \A n \in Node : /\ n.status \in {"empty", "deleted", "occupied"}
                     /\ n.status = "occupied" => n.key \in Keys /\ n.value \in Values
                     /\ n.status = "empty" => n = MAP_EMPTY
  /\ \A k \in Keys, v \in Values :
        /\ MAP_OCCUPIED(k, v) \in Node /\ MAP_OCCUPIED(k, v).status = "occupied"
        /\ MAP_OCCUPIED(k, v).key = k /\ MAP_OCCUPIED(k, v).value = v
  /\ MAP_EMPTY \in Node /\ MAP_EMPTY.status = "empty"
  /\ MAP_DELETED \in Node /\ MAP_DELETED.status = "deleted"
<1>1. \A k \in Keys, v \in Values :
        /\ MAP_OCCUPIED(k, v) \in Node /\ MAP_OCCUPIED(k, v).status = "occupied"
        /\ MAP_OCCUPIED(k, v).key = k /\ MAP_OCCUPIED(k, v).value = v
  BY DEF Node, MAP_OCCUPIED
<1>2. /\ MAP_EMPTY \in Node /\ MAP_EMPTY.status = "empty"
      /\ MAP_DELETED \in Node /\ MAP_DELETED.status = "deleted"
  BY DEF Node, MAP_EMPTY, MAP_DELETED
<1>3. ASSUME NEW n \in Node
      PROVE  /\ n.status \in {"empty", "deleted", "occupied"}
             /\ n.status = "occupied" => n.key \in Keys /\ n.value \in Values
             /\ n.status = "empty" => n = MAP_EMPTY
  <2>1. n = MAP_EMPTY \/ n = MAP_DELETED \/ \E k \in Keys, v \in Values : n = MAP_OCCUPIED(k, v)
    BY DEF Node
  <2>2. CASE n = MAP_EMPTY
    BY <1>2, <2>2
  <2>3. CASE n = MAP_DELETED
    BY <1>2, <2>3
  <2>4. CASE \E k \in Keys, v \in Values : n = MAP_OCCUPIED(k, v)
    <3>1. PICK k \in Keys, v \in Values : n = MAP_OCCUPIED(k, v)
      BY <2>4
    <3> QED BY <1>1, <3>1
  <2> QED BY <2>1, <2>2, <2>3, <2>4
<1> QED BY <1>1, <1>2, <1>3

\* A non-empty set of numbers has a least element.
LEMMA LeastElement ==
  ASSUME NEW S, S \subseteq Nat, S # {}
  PROVE  \E k \in S : \A j \in S : ~ (j < k)
<1>1. PICK k \in S : \A j \in S : ~ (<<j, k>> \in OpToRel(<, Nat))
  BY NatLessThanWellFounded, WFMin
<1> QED BY <1>1 DEF OpToRel

\* Capacities are positive, and a level is a number.
LEMMA Capacities ==
  ASSUME NEW lev \in Levels
  PROVE  /\ lev \in Nat /\ primes[lev] \in Nat \ {0}
         /\ \A k \in Keys : k % primes[lev] \in Slots(lev)
<1>1. lev \in Nat /\ primes[lev] \in Nat \ {0}
  BY MapAssumption DEF Levels
<1>2. \A k \in Keys : k \in Nat
  BY MapAssumption
<1> QED BY <1>1, <1>2 DEF Slots

\* The first probe of a node is a number up to WordSize, and one probe looks
\* at one node.
LEMMA Ranks ==
  ASSUME NEW lev \in Levels, NEW k \in Keys
  PROVE  /\ WordSize \in Nat
         /\ \A s \in Slots(lev) : R(lev, k, s) \in 0 .. WordSize
         /\ \A s, t \in Slots(lev) :
               (R(lev, k, s) = R(lev, k, t) /\ R(lev, k, s) < WordSize) => s = t
<1>0. WordSize \in Nat \ {0}
  BY MapAssumption
<1> PICK h \in Slots(lev) : h = k % primes[lev]
  BY Capacities
<1> DEFINE First(s) == CHOOSE p \in 0 .. WordSize - 1 :
                          Probe(lev, h, p) = s /\ \A q \in 0 .. p - 1 : Probe(lev, h, q) # s
<1>1. ASSUME NEW s \in Slots(lev)
      PROVE  R(lev, k, s) = IF \E p \in 0 .. WordSize - 1 : Probe(lev, h, p) = s
                               THEN First(s) ELSE WordSize
  BY DEF R, rank
<1>2. ASSUME NEW s \in Slots(lev), \E p \in 0 .. WordSize - 1 : Probe(lev, h, p) = s
      PROVE  First(s) \in 0 .. WordSize - 1 /\ Probe(lev, h, First(s)) = s
  <2> DEFINE S == {p \in 0 .. WordSize - 1 : Probe(lev, h, p) = s}
  <2>1. S \subseteq Nat /\ S # {}
    BY <1>0, <1>2
  <2>2. PICK p \in S : \A q \in S : ~ (q < p)
    <3> HIDE DEF S
    <3> QED BY <2>1, LeastElement
  <2>3. p \in 0 .. WordSize - 1 /\ Probe(lev, h, p) = s
    BY <2>2
  <2>4. \A q \in 0 .. p - 1 : Probe(lev, h, q) # s
    <3> SUFFICES ASSUME NEW q \in 0 .. p - 1, Probe(lev, h, q) = s
                 PROVE  FALSE
      OBVIOUS
    <3>1. q \in 0 .. WordSize - 1 /\ q < p
      BY <1>0, <2>3
    <3> QED BY <2>2, <3>1
  <2> QED BY <2>3, <2>4
<1> HIDE DEF First
<1>3. \A s \in Slots(lev) : \/ R(lev, k, s) = WordSize
                            \/ R(lev, k, s) \in 0 .. WordSize - 1 /\ Probe(lev, h, R(lev, k, s)) = s
  BY <1>1, <1>2
<1>4. \A s \in Slots(lev) : R(lev, k, s) \in 0 .. WordSize
  BY <1>0, <1>3
<1>5. \A s, t \in Slots(lev) :
         (R(lev, k, s) = R(lev, k, t) /\ R(lev, k, s) < WordSize) => s = t
  BY <1>0, <1>3
<1> QED BY <1>0, <1>4, <1>5

\* A list has as many nodes as its capacity says.
LEMMA SlotsFinite ==
  ASSUME NEW n \in Nat \ {0}
  PROVE  IsFiniteSet(0 .. n - 1) /\ Cardinality(0 .. n - 1) = n
<1>1. PICK e \in Int : e = n - 1
  OBVIOUS
<1>2. /\ IsFiniteSet(0 .. e)
      /\ Cardinality(0 .. e) = IF 0 > e THEN 0 ELSE e - 0 + 1
  <2>1. 0 \in Int
    OBVIOUS
  <2> QED BY <2>1, FS_Interval, Zenon
<1> QED BY <1>1, <1>2

\* The occupied nodes of a list are finitely many, at most its capacity.
LEMMA OccupiedFinite ==
  ASSUME NEW lev \in Levels, NEW L \in [Slots(lev) -> Node]
  PROVE  /\ IsFiniteSet(Occupied(L)) /\ Cardinality(Occupied(L)) \in Nat
         /\ Cardinality(Occupied(L)) <= primes[lev]
<1>1. primes[lev] \in Nat \ {0}
  BY Capacities
<1>2. IsFiniteSet(Slots(lev)) /\ Cardinality(Slots(lev)) = primes[lev]
  BY <1>1, SlotsFinite DEF Slots
<1>3. Occupied(L) \subseteq Slots(lev)
  BY DEF Occupied
<1>4. IsFiniteSet(Occupied(L)) /\ Cardinality(Occupied(L)) <= Cardinality(Slots(lev))
  BY <1>2, <1>3, FS_Subset
<1> QED BY <1>2, <1>4, FS_CardinalityType

\* The loop of map_insert for a key that is not in list L stops at node s.
FirstFree(L, lev, k, s) ==
  /\ s \in DOMAIN L \ Occupied(L) /\ R(lev, k, s) < WordSize
  /\ \A t \in DOMAIN L \ Occupied(L) : R(lev, k, s) <= R(lev, k, t)

\* List L2 is list L with key k and value v put in node s.
WithKey(L, L2, lev, k, v, s) ==
  /\ IsTable(L2, lev)
  /\ Occupied(L2) = Occupied(L) \union {s} /\ L2[s].key = k /\ L2[s].value = v
  /\ \A t \in Occupied(L) : L2[t] = L[t]
  /\ Cardinality(Occupied(L2)) = Cardinality(Occupied(L)) + 1

\* A key is put where the loop of map_insert stops.
LEMMA Placed ==
  ASSUME NEW lev \in Levels, NEW L, IsTable(L, lev), NEW k \in Keys, NEW v \in Values,
         Holding(L, k) = {}, NEW s, FirstFree(L, lev, k, s),
         NEW L2, L2 = [L EXCEPT ![s] = MAP_OCCUPIED(k, v)]
  PROVE  WithKey(L, L2, lev, k, v, s)
<1>0. /\ s \in DOMAIN L /\ s \notin Occupied(L) /\ R(lev, k, s) < WordSize
      /\ \A t \in DOMAIN L \ Occupied(L) : R(lev, k, s) <= R(lev, k, t)
  BY DEF FirstFree
<1>1. L \in [Slots(lev) -> Node] /\ Unique(L) /\ Reached(L, lev)
  BY DEF IsTable
<1>2. /\ L2 \in [Slots(lev) -> Node] /\ L2[s] = MAP_OCCUPIED(k, v)
      /\ DOMAIN L2 = DOMAIN L /\ DOMAIN L = Slots(lev)
      /\ \A t \in DOMAIN L \ {s} : L2[t] = L[t]
  BY <1>0, <1>1, Nodes
<1>3. L2[s].status = "occupied" /\ L2[s].key = k /\ L2[s].value = v
  BY <1>2, Nodes
<1>4. Occupied(L2) = Occupied(L) \union {s} /\ \A t \in Occupied(L) : L2[t] = L[t]
  BY <1>0, <1>2, <1>3 DEF Occupied
<1>5. \A t \in Occupied(L) : L[t].key # k /\ t \in DOMAIN L /\ t # s
  BY <1>0 DEF Holding, Occupied
<1>6. Unique(L2)
  BY <1>1, <1>3, <1>4, <1>5 DEF Unique
<1>7. \A t \in DOMAIN L : L2[t].status = "empty" => L[t].status = "empty" /\ t \notin Occupied(L)
  BY <1>0, <1>2, <1>3 DEF Occupied
<1>8. Reached(L2, lev)
  <2> SUFFICES ASSUME NEW a \in Occupied(L2)
               PROVE  /\ R(lev, L2[a].key, a) < WordSize
                      /\ \A t \in DOMAIN L2 : R(lev, L2[a].key, t) < R(lev, L2[a].key, a)
                                                  => L2[t].status # "empty"
    BY DEF Reached
  <2>1. CASE a = s
    <3>1. \A t \in DOMAIN L : R(lev, k, t) \in Nat
      BY <1>2, Ranks
    <3>2. \A t \in DOMAIN L : R(lev, k, t) < R(lev, k, s) => t \in Occupied(L)
      BY <1>0, <3>1
    <3> QED BY <1>0, <1>2, <1>3, <1>7, <2>1, <3>2
  <2>2. CASE a # s
    <3>1. a \in Occupied(L) /\ L2[a] = L[a]
      BY <1>4, <2>2
    <3> QED BY <1>1, <1>2, <1>7, <3>1 DEF Reached
  <2> QED BY <2>1, <2>2
<1>9. Cardinality(Occupied(L2)) = Cardinality(Occupied(L)) + 1
  BY <1>0, <1>1, <1>4, OccupiedFinite, FS_AddElement
<1> QED BY <1>2, <1>3, <1>4, <1>6, <1>8, <1>9 DEF IsTable, WithKey

\* List L2 is list L with node s deleted.
WithoutNode(L, L2, lev, s) ==
  /\ IsTable(L2, lev)
  /\ Occupied(L2) = Occupied(L) \ {s}
  /\ \A t \in Occupied(L) \ {s} : L2[t] = L[t]
  /\ Cardinality(Occupied(L2)) = Cardinality(Occupied(L)) - 1

\* A node is deleted: it goes on leading searches for other keys past it.
LEMMA Dropped ==
  ASSUME NEW lev \in Levels, NEW L, IsTable(L, lev), NEW s \in Occupied(L),
         NEW L2, L2 = [L EXCEPT ![s] = MAP_DELETED]
  PROVE  WithoutNode(L, L2, lev, s)
<1>1. L \in [Slots(lev) -> Node] /\ Unique(L) /\ Reached(L, lev)
  BY DEF IsTable
<1>2. /\ L2 \in [Slots(lev) -> Node] /\ L2[s] = MAP_DELETED
      /\ DOMAIN L2 = DOMAIN L /\ DOMAIN L = Slots(lev) /\ s \in DOMAIN L
      /\ \A t \in DOMAIN L \ {s} : L2[t] = L[t]
  BY <1>1, Nodes DEF Occupied
<1>3. L2[s].status = "deleted"
  BY <1>2, Nodes
<1>4. Occupied(L2) = Occupied(L) \ {s} /\ \A t \in Occupied(L) \ {s} : L2[t] = L[t]
  BY <1>2, <1>3 DEF Occupied
<1>5. Unique(L2)
  BY <1>1, <1>4 DEF Unique
<1>6. \A t \in DOMAIN L : L2[t].status = "empty" => L[t].status = "empty"
  BY <1>2, <1>3
<1>7. Reached(L2, lev)
  BY <1>1, <1>2, <1>4, <1>6 DEF Reached
<1>8. Cardinality(Occupied(L2)) = Cardinality(Occupied(L)) - 1
  BY <1>1, <1>4, OccupiedFinite, FS_RemoveElement
<1> QED BY <1>2, <1>4, <1>5, <1>7, <1>8 DEF IsTable, WithoutNode

\* A new list is empty.
LEMMA NewTable ==
  ASSUME NEW lev \in Levels
  PROVE  IsTable(NewList(lev), lev) /\ Occupied(NewList(lev)) = {}
<1>1. NewList(lev) \in [Slots(lev) -> Node] /\ \A s \in Slots(lev) : NewList(lev)[s] = MAP_EMPTY
  BY Nodes DEF NewList
<1>2. Occupied(NewList(lev)) = {}
  BY <1>1, Nodes DEF Occupied
<1> QED BY <1>1, <1>2 DEF IsTable, Unique, Reached

----------------------------------------------------------------------------
(* The inductive invariant                                                 *)

\* The nodes that map_rehash has yet to move
Left == IF pc = "rehash" THEN {s \in Occupied(old_list) : s >= i} ELSE {}

Typed ==
  /\ capacity_level \in Levels
  /\ pc \in {"idle", "rehash", "work", "endless"}
  /\ ret \in Values \union {Absent}
  /\ op \in Promise!Calls \union {NoCall}
  /\ pc = "idle" <=> op = NoCall
  /\ contents \in [Keys -> Values \union {Absent}]

Table == IsTable(list, capacity_level) /\ size = Cardinality(Occupied(list))

\* While nodes are moved: where they come from, and that there is room for
\* all of them below the load at which map_insert would rehash.
Moving ==
  pc = "rehash" =>
     /\ \E lev \in Levels : old_list \in [Slots(lev) -> Node] /\ i \in 0 .. primes[lev]
     /\ Unique(old_list)
     /\ \A s \in Left, t \in Occupied(list) : old_list[s].key # list[t].key
     /\ 4 * (size + Cardinality(Left)) <= 3 * capacity

\* The nodes have the keys and values that clients inserted and did not delete.
Agrees ==
  /\ \A s \in Occupied(list) : contents[list[s].key] = list[s].value
  /\ \A s \in Left : contents[old_list[s].key] = old_list[s].value
  /\ \A k \in Keys : contents[k] # Absent =>
        \/ \E s \in Occupied(list) : list[s].key = k
        \/ \E s \in Left : old_list[s].key = k
  /\ op.name = "insert" => contents[op.key] = Absent

IInv == Typed /\ Table /\ Moving /\ Agrees

\* map_find of a key that is there stops at its node, and nowhere else.
LEMMA LookupIs ==
  ASSUME capacity_level \in Levels, IsTable(list, capacity_level), NEW k \in Keys
  PROVE  /\ \A s \in Holding(list, k) :
               /\ Lookup(k) = list[s].value /\ Rank(k, s) < WordSize
               /\ \A t \in FindStops(k) : StopsAt(k, FindStops(k), t) => t = s
         /\ Holding(list, k) = {} => Lookup(k) = Absent
<1>1. \A s : Rank(k, s) = R(capacity_level, k, s)
  BY DEF Rank, R, capacity
<1>2. DOMAIN list = Slots(capacity_level) /\ Unique(list) /\ Reached(list, capacity_level)
  BY DEF IsTable
<1>3. /\ WordSize \in Nat
      /\ \A s \in DOMAIN list : Rank(k, s) \in 0 .. WordSize
      /\ \A s, t \in DOMAIN list : (Rank(k, s) = Rank(k, t) /\ Rank(k, s) < WordSize) => s = t
  BY <1>1, <1>2, Ranks
<1>4. \A s \in Holding(list, k) : s \in DOMAIN list /\ s \in Occupied(list) /\ list[s].key = k
  BY DEF Holding, Occupied
<1>5. \A t \in FindStops(k) : t \in DOMAIN list /\ (list[t].status = "empty" \/ t \in Holding(list, k))
  BY <1>4 DEF FindStops, Empty
<1>6. ASSUME NEW s \in Holding(list, k)
      PROVE  StopsAt(k, FindStops(k), s) /\ Rank(k, s) < WordSize
  <2>1. Rank(k, s) < WordSize
    BY <1>1, <1>2, <1>4 DEF Reached
  <2>2. ASSUME NEW t \in FindStops(k)
        PROVE  Rank(k, s) <= Rank(k, t)
    <3>1. CASE list[t].status = "empty"
      <4>1. ~(Rank(k, t) < Rank(k, s))
        BY <1>1, <1>2, <1>4, <1>5, <3>1 DEF Reached
      <4> QED BY <1>3, <1>4, <1>5, <4>1
    <3>2. CASE t \in Holding(list, k)
      BY <1>2, <1>3, <1>4, <3>2 DEF Unique
    <3> QED BY <1>5, <3>1, <3>2
  <2> QED BY <2>1, <2>2 DEF StopsAt, FindStops
<1>7. ASSUME NEW s \in Holding(list, k), NEW t \in FindStops(k), StopsAt(k, FindStops(k), t)
      PROVE  t = s
  <2>1. Rank(k, s) <= Rank(k, t) /\ Rank(k, t) <= Rank(k, s) /\ Rank(k, t) < WordSize
    BY <1>6, <1>7 DEF StopsAt
  <2> QED BY <1>3, <1>4, <1>5, <2>1
<1>8. ASSUME NEW s \in Holding(list, k)
      PROVE  Lookup(k) = list[s].value
  <2>1. \A t \in Holding(list, k) : t = s
    BY <1>2, <1>4 DEF Unique
  <2>2. (CHOOSE t \in Holding(list, k) : StopsAt(k, FindStops(k), t)) = s
    BY <1>6, <2>1
  <2> QED BY <1>6, <2>2 DEF Lookup
<1>9. Holding(list, k) = {} => Lookup(k) = Absent
  BY DEF Lookup
<1> QED BY <1>6, <1>7, <1>8, <1>9

\* Outside map_rehash the list has what clients inserted and did not delete.
LEMMA HoldingIs ==
  ASSUME IInv, NEW k \in Keys, pc # "rehash"
  PROVE  /\ contents[k] = Absent <=> Holding(list, k) = {}
         /\ \A s \in Holding(list, k) : contents[k] = list[s].value
<1>1. \A s \in Occupied(list) : contents[list[s].key] = list[s].value /\ list[s].value \in Values
  BY Nodes DEF IInv, Agrees, Table, IsTable, Occupied
<1>2. contents[k] # Absent => \E s \in Occupied(list) : list[s].key = k
  BY DEF IInv, Agrees, Left
<1>3. Absent \notin Values
  BY MapAssumption
<1> QED BY <1>1, <1>2, <1>3 DEF Holding

----------------------------------------------------------------------------
(* One lemma per step                                                      *)

\* The facts about a call that begins, whichever it is
Begins == /\ pc = "idle" /\ op' \in Promise!Calls /\ ret' = Absent /\ contents' = contents
          /\ op'.name = "insert" => contents[op'.key] = Absent

\* A call is never NoCall.
LEMMA CallsAreNamed == \A c \in Promise!Calls : c # NoCall
BY DEF Promise!Calls, NoCall

\* A call begins without map_rehash.
LEMMA WorkBegins ==
  ASSUME IInv, Begins, NoRehash
  PROVE  IInv'
<1>1. Left = {} /\ Left' = {}
  BY DEF Begins, NoRehash, Left
<1>2. Typed'
  BY CallsAreNamed DEF IInv, Typed, Begins, NoRehash
<1>3. Table' /\ Moving'
  BY DEF IInv, Table, Moving, NoRehash
<1>4. Agrees'
  BY <1>1 DEF IInv, Agrees, Begins, NoRehash
<1> QED BY <1>2, <1>3, <1>4 DEF IInv

\* A call begins with map_rehash to a level with room for the nodes.
LEMMA RehashBegins ==
  ASSUME IInv, Begins, NEW lev \in Levels, Rehash(lev), 4 * size <= 3 * primes[lev]
  PROVE  IInv'
<1>1. /\ pc' = "rehash" /\ old_list' = list /\ i' = 0 /\ list' = NewList(lev)
      /\ capacity_level' = lev /\ size' = 0
  BY DEF Rehash
<1>2. IsTable(list', lev) /\ Occupied(list') = {}
  BY <1>1, NewTable
<1>3. capacity_level \in Levels /\ IsTable(list, capacity_level) /\ size = Cardinality(Occupied(list))
  BY DEF IInv, Typed, Table
<1>4. list \in [Slots(capacity_level) -> Node] /\ Unique(list)
  BY <1>3 DEF IsTable
<1>5. Left = {} /\ Left' = Occupied(list)
  <2>1. \A s \in Occupied(list) : s >= 0
    BY <1>3, <1>4, Capacities DEF Occupied, Slots
  <2>2. Left' = {s \in Occupied(list) : s >= 0}
    BY <1>1 DEF Left
  <2> QED BY <2>1, <2>2 DEF Left, Begins
<1>6. Typed'
  BY <1>1, CallsAreNamed DEF IInv, Typed, Begins
<1>7. Table'
  <2>1. Cardinality(Occupied(list')) = 0
    BY <1>2, FS_EmptySet
  <2> QED BY <1>1, <1>2, <2>1 DEF Table
<1>8. Moving'
  <2>1. 4 * (size' + Cardinality(Left')) <= 3 * capacity'
    <3>1. size \in Nat /\ size = Cardinality(Left') /\ size' = 0
      BY <1>1, <1>3, <1>4, <1>5, OccupiedFinite
    <3>2. capacity' = primes[lev] /\ primes[lev] \in Nat
      BY <1>1, Capacities DEF capacity
    <3> QED BY <3>1, <3>2
  <2>2. old_list' \in [Slots(capacity_level) -> Node] /\ i' \in 0 .. primes[capacity_level]
    BY <1>1, <1>3, <1>4, Capacities
  <2>3. Unique(old_list') /\ \A s \in Left', t2 \in Occupied(list') : old_list'[s].key # list'[t2].key
    BY <1>1, <1>2, <1>4
  <2> QED BY <1>3, <2>1, <2>2, <2>3 DEF Moving
<1>9. Agrees'
  <2>1. \A s \in Occupied(list) : contents[list[s].key] = list[s].value
    BY DEF IInv, Agrees
  <2>2. \A k \in Keys : contents[k] # Absent => \E s \in Occupied(list) : list[s].key = k
    BY <1>5 DEF IInv, Agrees
  <2>3. contents' = contents /\ (op'.name = "insert" => contents[op'.key] = Absent)
    BY DEF Begins
  <2>4. \A s \in Occupied(list') : FALSE
    BY <1>2
  <2> QED BY <1>1, <1>5, <2>1, <2>2, <2>3, <2>4 DEF Agrees
<1> QED BY <1>6, <1>7, <1>8, <1>9 DEF IInv

\* What is known when the loop of map_insert for a key that is not there stops
LEMMA PlaceIs ==
  ASSUME capacity_level \in Levels, IsTable(list, capacity_level),
         size = Cardinality(Occupied(list)),
         NEW k \in Keys, NEW v \in Values, Holding(list, k) = {}, Place(k, v)
  PROVE  \E s \in DOMAIN list :
            /\ s \notin Occupied(list)
            /\ IsTable(list', capacity_level) /\ size' = Cardinality(Occupied(list'))
            /\ size' = size + 1
            /\ Occupied(list') = Occupied(list) \union {s}
            /\ list'[s].key = k /\ list'[s].value = v
            /\ \A t \in Occupied(list) : list'[t] = list[t]
<1>1. PICK s \in InsertStops(k) : /\ StopsAt(k, InsertStops(k), s)
                                  /\ list' = [list EXCEPT ![s] = MAP_OCCUPIED(k, v)]
                                  /\ size' = size + 1
  BY DEF Place
<1>2. InsertStops(k) = DOMAIN list \ Occupied(list)
  BY DEF InsertStops
<1>3. \A t : Rank(k, t) = R(capacity_level, k, t)
  BY DEF Rank, R, capacity
<1>4. /\ s \in DOMAIN list /\ s \notin Occupied(list) /\ R(capacity_level, k, s) < WordSize
      /\ \A t \in DOMAIN list \ Occupied(list) : R(capacity_level, k, s) <= R(capacity_level, k, t)
  BY <1>1, <1>2, <1>3 DEF StopsAt
<1>5. /\ IsTable(list', capacity_level)
      /\ Occupied(list') = Occupied(list) \union {s} /\ list'[s].key = k /\ list'[s].value = v
      /\ \A t \in Occupied(list) : list'[t] = list[t]
      /\ Cardinality(Occupied(list')) = Cardinality(Occupied(list)) + 1
  <2>1. PICK L2 : L2 = list'
    OBVIOUS
  <2>2. L2 = [list EXCEPT ![s] = MAP_OCCUPIED(k, v)] /\ FirstFree(list, capacity_level, k, s)
    BY <1>1, <1>4, <2>1 DEF FirstFree
  <2>3. WithKey(list, L2, capacity_level, k, v, s)
    BY <2>2, Placed
  <2> QED BY <2>1, <2>3 DEF WithKey
<1> QED BY <1>1, <1>4, <1>5

\* map_rehash goes to the next node of the old list.
LEMMA LeftIs ==
  ASSUME IInv, pc = "rehash", i \in DOMAIN old_list, pc' = pc, old_list' = old_list, i' = i + 1
  PROVE  /\ i \in Nat /\ Left' = Left \ {i}
         /\ i \in Left <=> i \in Occupied(old_list)
         /\ \E lev \in Levels : old_list' \in [Slots(lev) -> Node] /\ i' \in 0 .. primes[lev]
         /\ IsFiniteSet(Left) /\ Left \subseteq Occupied(old_list)
         /\ \A s \in Left : /\ s \in Nat /\ old_list[s].key \in Keys /\ old_list[s].value \in Values
                            /\ old_list[s].status = "occupied"
<1>1. PICK lev \in Levels : old_list \in [Slots(lev) -> Node] /\ i \in 0 .. primes[lev]
  BY DEF IInv, Moving
<1>2. primes[lev] \in Nat
  BY Capacities
<1>3. DOMAIN old_list = 0 .. primes[lev] - 1 /\ i \in 0 .. primes[lev] - 1
  BY <1>1 DEF Slots
<1>4. i \in Nat /\ i' \in 0 .. primes[lev] /\ old_list' \in [Slots(lev) -> Node]
  BY <1>1, <1>2, <1>3
<1>5. Occupied(old_list) \subseteq 0 .. primes[lev] - 1 /\ IsFiniteSet(Occupied(old_list))
  BY <1>1, <1>3, OccupiedFinite DEF Occupied
<1>6. Left = {s \in Occupied(old_list) : s >= i} /\ Left' = {s \in Occupied(old_list) : s >= i + 1}
  BY DEF Left
<1>7. Left' = Left \ {i} /\ (i \in Left <=> i \in Occupied(old_list)) /\ Left \subseteq Occupied(old_list)
  BY <1>2, <1>4, <1>5, <1>6
<1>8. IsFiniteSet(Left)
  BY <1>5, <1>7, FS_Subset
<1>9. ASSUME NEW s \in Left
      PROVE  /\ s \in Nat /\ old_list[s].key \in Keys /\ old_list[s].value \in Values
             /\ old_list[s].status = "occupied"
  <2>1. s \in DOMAIN old_list /\ old_list[s].status = "occupied"
    BY <1>7 DEF Occupied
  <2>2. old_list[s] \in Node /\ s \in Nat
    BY <1>1, <1>2, <1>3, <2>1
  <2> QED BY <2>1, <2>2, Nodes
<1> QED BY <1>1, <1>4, <1>7, <1>8, <1>9

\* One node is moved to the new list.
LEMMA RehashNodeKeeps ==
  ASSUME IInv, RehashNode
  PROVE  IInv'
<1>1. /\ pc = "rehash" /\ i \in DOMAIN old_list /\ pc' = pc /\ old_list' = old_list /\ i' = i + 1
      /\ capacity_level' = capacity_level /\ op' = op /\ ret' = ret /\ contents' = contents
  BY DEF RehashNode
<1>2. /\ i \in Nat /\ Left' = Left \ {i}
      /\ i \in Left <=> i \in Occupied(old_list)
      /\ \E lev \in Levels : old_list' \in [Slots(lev) -> Node] /\ i' \in 0 .. primes[lev]
      /\ IsFiniteSet(Left) /\ Left \subseteq Occupied(old_list)
      /\ \A s \in Left : /\ s \in Nat /\ old_list[s].key \in Keys /\ old_list[s].value \in Values
                         /\ old_list[s].status = "occupied"
  BY <1>1, LeftIs
<1>3. /\ capacity_level \in Levels /\ IsTable(list, capacity_level)
      /\ size = Cardinality(Occupied(list)) /\ Unique(old_list)
      /\ \A s \in Left, t \in Occupied(list) : old_list[s].key # list[t].key
      /\ 4 * (size + Cardinality(Left)) <= 3 * capacity
  BY <1>1 DEF IInv, Typed, Table, Moving
<1>4. Typed'
  BY <1>1 DEF IInv, Typed
<1>5. /\ \A s \in Occupied(list) : contents[list[s].key] = list[s].value
      /\ \A s \in Left : contents[old_list[s].key] = old_list[s].value
      /\ \A k \in Keys : contents[k] # Absent =>
            \/ \E s \in Occupied(list) : list[s].key = k
            \/ \E s \in Left : old_list[s].key = k
      /\ op.name = "insert" => contents[op.key] = Absent
  BY DEF IInv, Agrees
<1>6. capacity' = capacity
  BY <1>1 DEF capacity
<1>7. CASE i \in Occupied(old_list)
  <2>1. i \in Left /\ Place(old_list[i].key, old_list[i].value)
    BY <1>2, <1>7 DEF RehashNode
  <2>2. PICK k \in Keys, v \in Values : k = old_list[i].key /\ v = old_list[i].value
    BY <1>2, <2>1
  <2>3. Holding(list, k) = {}
    BY <1>3, <2>1, <2>2 DEF Holding
  <2>4. Place(k, v)
    BY <2>1, <2>2
  <2>5. PICK s \in DOMAIN list :
            /\ s \notin Occupied(list)
            /\ IsTable(list', capacity_level) /\ size' = Cardinality(Occupied(list'))
            /\ size' = size + 1
            /\ Occupied(list') = Occupied(list) \union {s}
            /\ list'[s].key = k /\ list'[s].value = v
            /\ \A t \in Occupied(list) : list'[t] = list[t]
    BY <1>3, <2>3, <2>4, PlaceIs
  <2>6. Table'
    BY <1>1, <2>5 DEF Table
  <2>7. Moving'
    <3>1. \A a \in Left', t \in Occupied(list') : old_list'[a].key # list'[t].key
      <4> SUFFICES ASSUME NEW a \in Left', NEW t \in Occupied(list')
                   PROVE  old_list[a].key # list'[t].key
        BY <1>1
      <4>1. a \in Left /\ a # i /\ a \in Occupied(old_list) /\ i \in Occupied(old_list)
        BY <1>2, <1>7
      <4>2. CASE t = s
        BY <1>3, <2>2, <2>5, <4>1, <4>2 DEF Unique
      <4>3. CASE t \in Occupied(list)
        BY <1>3, <2>5, <4>1, <4>3
      <4> QED BY <2>5, <4>2, <4>3
    <3>2. 4 * (size' + Cardinality(Left')) <= 3 * capacity'
      <4>1. Cardinality(Left') = Cardinality(Left) - 1 /\ Cardinality(Left) \in Nat
        BY <1>2, <2>1, FS_RemoveElement, FS_CardinalityType
      <4>2. size \in Nat
        BY <1>3, OccupiedFinite DEF IsTable
      <4>3. size' + Cardinality(Left') = size + Cardinality(Left)
        BY <2>5, <4>1, <4>2
      <4> QED BY <1>3, <1>6, <4>3
    <3>3. Unique(old_list')
      BY <1>1, <1>3
    <3> QED BY <1>2, <3>1, <3>2, <3>3 DEF Moving
  <2>8. Agrees'
    <3>1. \A t \in Occupied(list') : contents[list'[t].key] = list'[t].value
      BY <1>5, <2>1, <2>2, <2>5
    <3>2. \A t \in Left' : contents[old_list[t].key] = old_list[t].value
      BY <1>2, <1>5
    <3>3. ASSUME NEW j \in Keys, contents[j] # Absent
          PROVE  \/ \E t \in Occupied(list') : list'[t].key = j
                 \/ \E t \in Left' : old_list[t].key = j
      <4>1. CASE \E t \in Occupied(list) : list[t].key = j
        BY <2>5, <4>1
      <4>2. CASE \E t \in Left : old_list[t].key = j
        BY <1>2, <2>2, <2>5, <4>2
      <4> QED BY <1>5, <3>3, <4>1, <4>2
    <3> QED BY <1>1, <1>5, <3>1, <3>2, <3>3 DEF Agrees
  <2> QED BY <1>4, <2>6, <2>7, <2>8 DEF IInv
<1>8. CASE i \notin Occupied(old_list)
  <2>1. list' = list /\ size' = size /\ Left' = Left
    BY <1>2, <1>8 DEF RehashNode
  <2>2. Table' /\ Agrees'
    BY <1>1, <2>1 DEF IInv, Table, Agrees
  <2>3. Moving'
    BY <1>1, <1>2, <1>3, <1>6, <2>1 DEF Moving
  <2> QED BY <1>4, <2>2, <2>3 DEF IInv
<1> QED BY <1>7, <1>8

\* The old list is freed: all its nodes have been moved.
LEMMA RehashEndKeeps ==
  ASSUME IInv, RehashEnd
  PROVE  IInv'
<1>1. /\ pc = "rehash" /\ i \notin DOMAIN old_list /\ pc' = "work"
      /\ list' = list /\ capacity_level' = capacity_level /\ size' = size
      /\ op' = op /\ ret' = ret /\ contents' = contents
  BY DEF RehashEnd, AllMoved
<1>2. Left = {} /\ Left' = {}
  <2>1. PICK lev \in Levels : old_list \in [Slots(lev) -> Node] /\ i \in 0 .. primes[lev]
    BY <1>1 DEF IInv, Moving
  <2>2. primes[lev] \in Nat /\ DOMAIN old_list = 0 .. primes[lev] - 1
    BY <2>1, Capacities DEF Slots
  <2>3. i = primes[lev]
    BY <1>1, <2>1, <2>2
  <2>4. \A s \in Occupied(old_list) : ~ (s >= i)
    BY <2>2, <2>3 DEF Occupied
  <2> QED BY <1>1, <2>4 DEF Left
<1>3. Typed'
  BY <1>1 DEF IInv, Typed
<1>4. Table' /\ Moving'
  BY <1>1 DEF IInv, Table, Moving
<1>5. Agrees'
  BY <1>1, <1>2 DEF IInv, Agrees
<1> QED BY <1>3, <1>4, <1>5 DEF IInv

\* The key of a call in progress is one of Keys, and a value one of Values.
LEMMA CallIs ==
  ASSUME IInv, pc # "idle"
  PROVE  /\ op \in Promise!Calls /\ op.key \in Keys /\ op.name \in {"insert", "delete", "find"}
         /\ op.name = "insert" => op.value \in Values
<1>1. op \in Promise!Calls
  BY DEF IInv, Typed
<1> QED BY <1>1 DEF Promise!Calls

\* map_insert ends.
LEMMA InsertKeeps ==
  ASSUME IInv, Insert
  PROVE  IInv'
<1>1. /\ pc = "work" /\ op.name = "insert" /\ pc' = "idle" /\ op' = NoCall
      /\ Place(op.key, op.value) /\ contents' = [contents EXCEPT ![op.key] = op.value]
      /\ capacity_level' = capacity_level /\ ret' = ret
  BY DEF Insert
<1>2. PICK k \in Keys, v \in Values : k = op.key /\ v = op.value
  BY <1>1, CallIs
<1>3. contents[k] = Absent /\ Place(k, v)
  BY <1>1, <1>2 DEF IInv, Agrees
<1>4. Holding(list, k) = {}
  BY <1>1, <1>3, HoldingIs
<1>5. /\ capacity_level \in Levels /\ IsTable(list, capacity_level)
      /\ size = Cardinality(Occupied(list)) /\ contents \in [Keys -> Values \union {Absent}]
  BY DEF IInv, Typed, Table
<1>6. PICK s \in DOMAIN list :
            /\ s \notin Occupied(list)
            /\ IsTable(list', capacity_level) /\ size' = Cardinality(Occupied(list'))
            /\ size' = size + 1
            /\ Occupied(list') = Occupied(list) \union {s}
            /\ list'[s].key = k /\ list'[s].value = v
            /\ \A t \in Occupied(list) : list'[t] = list[t]
  BY <1>3, <1>4, <1>5, PlaceIs
<1>7. /\ contents' \in [Keys -> Values \union {Absent}] /\ contents'[k] = v
      /\ \A j \in Keys \ {k} : contents'[j] = contents[j]
  BY <1>1, <1>2, <1>5
<1>8. Left = {} /\ Left' = {}
  BY <1>1 DEF Left
<1>9. Typed' /\ Table' /\ Moving'
  <2>1. Typed'
    BY <1>1, <1>7 DEF IInv, Typed
  <2>2. Table' /\ Moving'
    BY <1>1, <1>6 DEF Table, Moving
  <2> QED BY <2>1, <2>2
<1>10. Agrees'
  <2>1. \A t \in Occupied(list) : list[t].key \in Keys /\ list[t].key # k
    BY <1>4, <1>5, Nodes DEF Holding, IsTable, Occupied
  <2>2. \A t \in Occupied(list') : contents'[list'[t].key] = list'[t].value
    BY <1>6, <1>7, <2>1 DEF IInv, Agrees
  <2>3. \A j \in Keys : contents'[j] # Absent => \E t \in Occupied(list') : list'[t].key = j
    <3> SUFFICES ASSUME NEW j \in Keys, contents'[j] # Absent
                 PROVE  \E t \in Occupied(list') : list'[t].key = j
      OBVIOUS
    <3>1. CASE j = k
      BY <1>6, <3>1
    <3>2. CASE j # k
      <4>1. PICK t \in Occupied(list) : list[t].key = j
        BY <1>7, <1>8, <3>2 DEF IInv, Agrees
      <4> QED BY <1>6, <4>1
    <3> QED BY <3>1, <3>2
  <2>4. op'.name # "insert"
    BY <1>1 DEF NoCall
  <2> QED BY <1>8, <2>2, <2>3, <2>4 DEF Agrees
<1> QED BY <1>9, <1>10 DEF IInv

\* map_delete ends.
LEMMA DeleteKeeps ==
  ASSUME IInv, Delete
  PROVE  IInv'
<1>1. /\ pc = "work" /\ op.name = "delete" /\ pc' = "idle" /\ op' = NoCall
      /\ contents' = [contents EXCEPT ![op.key] = Absent]
      /\ capacity_level' = capacity_level /\ ret' = ret
  BY DEF Delete
<1>2. PICK k \in Keys : k = op.key
  BY <1>1, CallIs
<1>3. PICK s \in FindStops(k) :
          /\ StopsAt(k, FindStops(k), s)
          /\ IF s \in Holding(list, k)
                THEN list' = [list EXCEPT ![s] = MAP_DELETED] /\ size' = size - 1
                ELSE UNCHANGED <<list, size>>
  BY <1>2 DEF Delete
<1>4. /\ capacity_level \in Levels /\ IsTable(list, capacity_level)
      /\ size = Cardinality(Occupied(list)) /\ contents \in [Keys -> Values \union {Absent}]
  BY DEF IInv, Typed, Table
<1>5. /\ contents' \in [Keys -> Values \union {Absent}] /\ contents'[k] = Absent
      /\ \A j \in Keys \ {k} : contents'[j] = contents[j]
  BY <1>1, <1>2, <1>4
<1>6. Left = {} /\ Left' = {}
  BY <1>1 DEF Left
<1>7. Typed'
  BY <1>1, <1>5 DEF IInv, Typed
<1>8. op'.name # "insert"
  BY <1>1 DEF NoCall
<1>9. \A t \in Occupied(list) : list[t].key \in Keys
  BY <1>4, Nodes DEF IsTable, Occupied
<1>10. CASE s \in Holding(list, k)
  <2>1. s \in Occupied(list) /\ list[s].key = k
    BY <1>10 DEF Holding
  <2>2. PICK L2 : L2 = list'
    OBVIOUS
  <2>3. L2 = [list EXCEPT ![s] = MAP_DELETED] /\ size' = size - 1
    BY <1>3, <1>10, <2>2
  <2>4. /\ IsTable(L2, capacity_level)
        /\ Occupied(L2) = Occupied(list) \ {s}
        /\ \A t \in Occupied(list) \ {s} : L2[t] = list[t]
        /\ Cardinality(Occupied(L2)) = Cardinality(Occupied(list)) - 1
    <3>1. WithoutNode(list, L2, capacity_level, s)
      BY <1>4, <2>1, <2>3, Dropped
    <3> QED BY <3>1 DEF WithoutNode
  <2>5. Table' /\ Moving'
    BY <1>1, <1>4, <2>2, <2>3, <2>4 DEF Table, Moving
  <2>6. \A t \in Occupied(list) \ {s} : list[t].key # k
    BY <1>4, <2>1 DEF IsTable, Unique
  <2>7. \A t \in Occupied(list') : contents'[list'[t].key] = list'[t].value
    BY <1>5, <1>9, <2>2, <2>4, <2>6 DEF IInv, Agrees
  <2>8. \A j \in Keys : contents'[j] # Absent => \E t \in Occupied(list') : list'[t].key = j
    <3> SUFFICES ASSUME NEW j \in Keys, contents'[j] # Absent
                 PROVE  \E t \in Occupied(list') : list'[t].key = j
      OBVIOUS
    <3>1. j # k
      BY <1>5
    <3>2. PICK t \in Occupied(list) : list[t].key = j
      BY <1>5, <1>6, <3>1 DEF IInv, Agrees
    <3> QED BY <2>1, <2>2, <2>4, <3>1, <3>2
  <2>9. Agrees'
    BY <1>6, <1>8, <2>7, <2>8 DEF Agrees
  <2> QED BY <1>7, <2>5, <2>9 DEF IInv
<1>11. CASE s \notin Holding(list, k)
  <2>1. list' = list /\ size' = size
    BY <1>3, <1>11
  <2>2. Holding(list, k) = {}
    <3> SUFFICES ASSUME NEW t \in Holding(list, k)
                 PROVE  FALSE
      OBVIOUS
    <3>1. s = t
      BY <1>3, <1>4, LookupIs
    <3> QED BY <1>11, <3>1
  <2>3. Table' /\ Moving'
    BY <1>1, <1>4, <2>1 DEF Table, Moving
  <2>4. \A t \in Occupied(list) : list[t].key # k
    BY <2>2 DEF Holding
  <2>5. \A t \in Occupied(list) : contents'[list[t].key] = list[t].value
    BY <1>5, <1>9, <2>4 DEF IInv, Agrees
  <2>6. \A j \in Keys : contents'[j] # Absent => \E t \in Occupied(list) : list[t].key = j
    BY <1>5, <1>6 DEF IInv, Agrees
  <2>7. Agrees'
    BY <1>6, <1>8, <2>1, <2>5, <2>6 DEF Agrees
  <2> QED BY <1>7, <2>3, <2>7 DEF IInv
<1> QED BY <1>10, <1>11

\* map_find ends.
LEMMA FindKeeps ==
  ASSUME IInv, Find
  PROVE  IInv'
<1>1. /\ pc = "work" /\ op.name = "find" /\ pc' = "idle" /\ op' = NoCall /\ ret' = Lookup(op.key)
      /\ list' = list /\ capacity_level' = capacity_level /\ size' = size /\ contents' = contents
  BY DEF Find
<1>2. PICK k \in Keys : k = op.key
  BY <1>1, CallIs
<1>3. capacity_level \in Levels /\ IsTable(list, capacity_level)
  BY DEF IInv, Typed, Table
<1>4. Lookup(k) \in Values \union {Absent}
  <2>1. CASE Holding(list, k) = {}
    BY <1>3, <2>1, LookupIs
  <2>2. CASE Holding(list, k) # {}
    <3>1. PICK s \in Holding(list, k) : Lookup(k) = list[s].value
      BY <1>3, <2>2, LookupIs
    <3> QED BY <1>3, <3>1, Nodes DEF Holding, Occupied, IsTable
  <2> QED BY <2>1, <2>2
<1>5. Left = {} /\ Left' = {}
  BY <1>1 DEF Left
<1>6. Typed'
  BY <1>1, <1>2, <1>4 DEF IInv, Typed
<1>7. Table' /\ Moving'
  BY <1>1 DEF IInv, Table, Moving
<1>8. op'.name # "insert"
  BY <1>1 DEF NoCall
<1>9. Agrees'
  BY <1>1, <1>5, <1>8 DEF IInv, Agrees
<1> QED BY <1>6, <1>7, <1>9 DEF IInv

\* A loop that never stops changes nothing.
LEMMA SpinKeeps ==
  ASSUME IInv, Spin
  PROVE  IInv'
<1>1. /\ pc \in {"work", "endless"} /\ pc' = "endless"
      /\ list' = list /\ capacity_level' = capacity_level /\ size' = size /\ op' = op
      /\ ret' = ret /\ contents' = contents
  BY DEF Spin
<1>2. Left = {} /\ Left' = {}
  BY <1>1 DEF Left
<1>3. Typed' /\ Table' /\ Moving'
  BY <1>1 DEF IInv, Typed, Table, Moving
<1>4. Agrees'
  BY <1>1, <1>2 DEF IInv, Agrees
<1> QED BY <1>3, <1>4 DEF IInv

\* The list grows into a level with room, and shrinks into one.
LEMMA RoomAhead ==
  ASSUME IInv
  PROVE  /\ size \in Nat /\ size <= capacity /\ capacity \in Nat \ {0} /\ capacity_level \in Nat
         /\ Grows => capacity_level + 1 \in Levels /\ 4 * size <= 3 * primes[capacity_level + 1]
         /\ Shrinks => capacity_level - 1 \in Levels /\ 4 * size <= 3 * primes[capacity_level - 1]
<1>1. capacity_level \in Levels /\ list \in [Slots(capacity_level) -> Node] /\ size = Cardinality(Occupied(list))
  BY DEF IInv, Typed, Table, IsTable
<1>2. /\ size \in Nat /\ size <= capacity /\ capacity \in Nat \ {0} /\ capacity_level \in Nat
      /\ capacity = primes[capacity_level]
  BY <1>1, OccupiedFinite, Capacities DEF capacity
<1>3. FirstLevel \in Nat /\ LastLevel \in Nat /\ capacity_level \in FirstLevel .. LastLevel
  BY <1>1, MapAssumption DEF Levels
<1>4. ASSUME Grows
      PROVE  capacity_level + 1 \in Levels /\ 4 * size <= 3 * primes[capacity_level + 1]
  <2>1. capacity_level \in FirstLevel .. LastLevel - 1 /\ capacity_level + 1 \in Levels
    BY <1>3, <1>4 DEF Grows, Levels
  <2>2. 4 * primes[capacity_level] <= 3 * primes[capacity_level + 1]
    BY <2>1, PrimesAssumption
  <2>3. primes[capacity_level + 1] \in Nat
    BY <2>1, Capacities
  <2> QED BY <1>2, <2>1, <2>2, <2>3
<1>5. ASSUME Shrinks
      PROVE  capacity_level - 1 \in Levels /\ 4 * size <= 3 * primes[capacity_level - 1]
  <2>1. PICK l : l = capacity_level - 1
    OBVIOUS
  <2>2. l \in FirstLevel .. LastLevel - 1 /\ l \in Levels /\ l + 1 = capacity_level
    BY <1>3, <1>5, <2>1 DEF Shrinks, Levels
  <2>3. primes[l + 1] <= 3 * primes[l]
    BY <2>2, PrimesAssumption
  <2>4. primes[l] \in Nat
    BY <2>2, Capacities
  <2>5. capacity - size >= 3 * size
    BY <1>5 DEF Shrinks
  <2> QED BY <1>2, <2>1, <2>2, <2>3, <2>4, <2>5
<1> QED BY <1>2, <1>4, <1>5

\* map_insert is called.
LEMMA InsertBeginKeeps ==
  ASSUME IInv, UniqueKeys, NEW k \in Keys, NEW v \in Values, InsertBegin(k, v)
  PROVE  IInv'
<1>1. Begins
  BY DEF InsertBegin, Begins, Promise!Calls
<1>2. CASE Grows
  BY <1>1, <1>2, RoomAhead, RehashBegins DEF InsertBegin
<1>3. CASE ~Grows
  BY <1>1, <1>3, WorkBegins DEF InsertBegin
<1> QED BY <1>2, <1>3

\* map_delete is called.
LEMMA DeleteBeginKeeps ==
  ASSUME IInv, NEW k \in Keys, DeleteBegin(k)
  PROVE  IInv'
<1>1. Begins
  BY DEF DeleteBegin, Begins, Promise!Calls
<1>2. CASE Shrinks
  BY <1>1, <1>2, RoomAhead, RehashBegins DEF DeleteBegin
<1>3. CASE ~Shrinks
  BY <1>1, <1>3, WorkBegins DEF DeleteBegin
<1> QED BY <1>2, <1>3

\* map_find is called.
LEMMA FindBeginKeeps ==
  ASSUME IInv, NEW k \in Keys, FindBegin(k)
  PROVE  IInv'
<1>1. Begins
  BY DEF FindBegin, Begins, Promise!Calls
<1> QED BY <1>1, WorkBegins DEF FindBegin

\* map_init establishes the invariant.
LEMMA InitHolds == Init => IInv
<1> SUFFICES ASSUME Init
             PROVE  IInv
  OBVIOUS
<1>1. /\ capacity_level = FirstLevel /\ size = 0 /\ list = NewList(FirstLevel) /\ pc = "idle"
      /\ ret = Absent /\ op = NoCall /\ contents = [k \in Keys |-> Absent]
  BY DEF Init
<1>2. FirstLevel \in Levels
  BY MapAssumption DEF Levels
<1>3. IsTable(list, capacity_level) /\ Occupied(list) = {}
  BY <1>1, <1>2, NewTable
<1>4. Typed
  BY <1>1, <1>2 DEF Typed
<1>5. Table /\ Moving
  BY <1>1, <1>3, FS_EmptySet DEF Table, Moving
<1>6. Agrees
  <2>1. Left = {}
    BY <1>1 DEF Left
  <2>2. op.name # "insert" /\ \A k \in Keys : contents[k] = Absent
    BY <1>1 DEF NoCall
  <2> QED BY <1>3, <2>1, <2>2 DEF Agrees
<1> QED BY <1>4, <1>5, <1>6 DEF IInv

\* Every step keeps the invariant.
LEMMA NextKeeps ==
  ASSUME IInv, UniqueKeys, [Next]_vars
  PROVE  IInv'
<1>1. CASE \E k \in Keys : DeleteBegin(k) \/ FindBegin(k) \/ \E v \in Values : InsertBegin(k, v)
  BY <1>1, DeleteBeginKeeps, FindBeginKeeps, InsertBeginKeeps
<1>2. CASE RehashNode
  BY <1>2, RehashNodeKeeps
<1>3. CASE RehashEnd
  BY <1>3, RehashEndKeeps
<1>4. CASE Insert
  BY <1>4, InsertKeeps
<1>5. CASE Delete
  BY <1>5, DeleteKeeps
<1>6. CASE Find
  BY <1>6, FindKeeps
<1>7. CASE Spin
  BY <1>7, SpinKeeps
<1>8. CASE UNCHANGED vars
  <2>1. Left' = Left
    BY <1>8 DEF vars, Left
  <2> QED BY <1>8, <2>1 DEF vars, IInv, Typed, Table, Moving, Agrees, capacity
<1> QED BY <1>1, <1>2, <1>3, <1>4, <1>5, <1>6, <1>7, <1>8 DEF Next

\* The inductive invariant: the list is a table whose searches reach their
\* keys, and it has, with what map_rehash has yet to move, exactly the keys
\* that clients inserted and did not delete.
THEOREM Invariance == ASSUME UniqueKeys PROVE Spec => []IInv
<1>1. Init => IInv
  BY InitHolds
<1>2. IInv /\ [Next]_vars => IInv'
  BY NextKeeps
<1> QED BY <1>1, <1>2, PTL DEF Spec

----------------------------------------------------------------------------
(* What the invariant shows                                                *)

\* Through all insertions and deletions of a client that never inserts a key
\* twice, size counts the occupied nodes, and so the map_insert calls of
\* map_rehash (map.c:44) never rehash again, whatever the level.
THEOREM RehashNeverNests == ASSUME UniqueKeys PROVE Spec => []NoNestedRehash
<1>1. ASSUME IInv
      PROVE  TypeOK
  <2>1. capacity_level \in Levels /\ list \in [Slots(capacity_level) -> Node] /\ size = Cardinality(Occupied(list))
    BY <1>1 DEF IInv, Typed, Table, IsTable
  <2>2. DOMAIN list = Slots(capacity_level) /\ \A s \in DOMAIN list : list[s] \in Node
    BY <2>1
  <2> QED BY <1>1, <2>1, <2>2 DEF TypeOK, Node, IInv, Typed
<1>2. ASSUME IInv, pc = "rehash", i \in Occupied(old_list)
      PROVE  ~Grows
  <2>1. PICK lev \in Levels : old_list \in [Slots(lev) -> Node] /\ i \in 0 .. primes[lev]
    BY <1>2 DEF IInv, Moving
  <2>2. Left \subseteq Occupied(old_list) /\ i \in Left
    BY <1>2, <2>1, Capacities DEF Left
  <2>3. IsFiniteSet(Left)
    BY <2>1, <2>2, OccupiedFinite, FS_Subset
  <2>4. Cardinality(Left) \in Nat /\ Cardinality(Left) # 0
    BY <2>2, <2>3, FS_CardinalityType, FS_EmptySet
  <2>5. 4 * (size + Cardinality(Left)) <= 3 * capacity
    BY <1>2 DEF IInv, Moving
  <2>6. size \in Nat /\ capacity \in Nat
    BY <1>2, RoomAhead
  <2> QED BY <2>4, <2>5, <2>6 DEF Grows
<1>3. IInv => NoNestedRehash
  BY <1>1, <1>2 DEF NoNestedRehash
<1> QED BY <1>3, Invariance, PTL

\* What map_find returns between two calls, for every key
LEMMA LookupExact ==
  ASSUME IInv, pc # "rehash", NEW k \in Keys
  PROVE  Lookup(k) = contents[k]
<1>1. capacity_level \in Levels /\ IsTable(list, capacity_level)
  BY DEF IInv, Typed, Table
<1>2. CASE Holding(list, k) = {}
  BY <1>1, <1>2, LookupIs, HoldingIs
<1>3. CASE Holding(list, k) # {}
  <2>1. PICK s \in Holding(list, k) : TRUE
    BY <1>3
  <2> QED BY <1>1, <2>1, LookupIs, HoldingIs
<1> QED BY <1>2, <1>3

\* Between two calls map_find gives the value inserted last and not deleted
\* since, and nothing for a key that is not there: no order of insertions,
\* deletions, tombstones, growing and shrinking loses a key.
THEOREM FindsWhatWasInserted == ASSUME UniqueKeys PROVE Spec => []FindsContents
<1>1. IInv => FindsContents
  BY LookupExact DEF FindsContents
<1> QED BY <1>1, Invariance, PTL

\* What the refinement takes for the contents of the map is what clients
\* inserted and did not delete, also in the middle of map_rehash.
LEMMA StoredIs ==
  ASSUME IInv
  PROVE  Stored = contents
<1>1. contents \in [Keys -> Values \union {Absent}] /\ capacity_level \in Levels /\ IsTable(list, capacity_level)
  BY DEF IInv, Typed, Table
<1>2. ASSUME NEW k \in Keys
      PROVE  (IF pc = "rehash" /\ \E s \in Holding(old_list, k) : s >= i
                THEN old_list[CHOOSE s \in Holding(old_list, k) : s >= i].value
                ELSE Lookup(k)) = contents[k]
  <2>1. CASE pc # "rehash"
    BY <2>1, LookupExact
  <2>2. CASE pc = "rehash" /\ \E s \in Holding(old_list, k) : s >= i
    <3>1. PICK s \in Holding(old_list, k) : s >= i
      BY <2>2
    <3>2. \A t \in Holding(old_list, k) : t = s
      BY <2>2, <3>1 DEF Holding, IInv, Moving, Unique
    <3>3. (CHOOSE t \in Holding(old_list, k) : t >= i) = s
      BY <3>1, <3>2
    <3>4. s \in Left /\ old_list[s].key = k
      BY <2>2, <3>1 DEF Left, Holding
    <3>5. contents[k] = old_list[s].value
      BY <3>4 DEF IInv, Agrees
    <3> QED BY <2>2, <3>3, <3>5
  <2>3. CASE pc = "rehash" /\ ~ \E s \in Holding(old_list, k) : s >= i
    <3>1. \A s \in Left : old_list[s].key # k
      BY <2>3 DEF Left, Holding
    <3>2. Lookup(k) = contents[k]
      <4>1. CASE Holding(list, k) = {}
        <5>1. contents[k] = Absent
          BY <3>1, <4>1 DEF IInv, Agrees, Holding
        <5> QED BY <1>1, <4>1, <5>1, LookupIs
      <4>2. CASE Holding(list, k) # {}
        <5>1. PICK s \in Holding(list, k) : TRUE
          BY <4>2
        <5>2. contents[k] = list[s].value
          BY <5>1 DEF IInv, Agrees, Holding
        <5> QED BY <1>1, <5>1, <5>2, LookupIs
      <4> QED BY <4>1, <4>2
    <3> QED BY <2>3, <3>2
  <2> QED BY <2>1, <2>2, <2>3
<1> QED BY <1>1, <1>2 DEF Stored

\* map_insert, map_delete and map_find implement the map of AbstractMap for a
\* client that never inserts a key twice: each call takes effect once, on its
\* own key, in the step in which its loop ends, and map_rehash has no effect.
THEOREM MapImplemented == ASSUME UniqueKeys PROVE Spec => ImplementsMap
<1>1. ASSUME Init
      PROVE  Promise!Init
  <2>1. Stored = contents
    BY <1>1, InitHolds, StoredIs
  <2> QED BY <1>1, <2>1 DEF Init, Promise!Init, NoCall, Promise!NoCall
<1> DEFINE Same == Stored = contents
<1>0. IInv => Same
  BY StoredIs
<1>2. ASSUME IInv, Same, Same', UniqueKeys, [Next]_vars
      PROVE  [Promise!Next]_Promise!vars
  <2>1. Stored = contents
    BY <1>2
  <2>2. Stored' = contents'
    BY <1>2
  <2>3. ASSUME Begins
        PROVE  Promise!Invoke
    BY <1>2, <2>1, <2>2, <2>3 DEF Promise!Invoke, Begins, IInv, Typed, NoCall, Promise!NoCall
  <2>4. CASE \E k \in Keys : DeleteBegin(k) \/ FindBegin(k) \/ \E v \in Values : InsertBegin(k, v)
    <3>1. Begins
      <4>1. CASE \E k \in Keys : DeleteBegin(k)
        BY <4>1 DEF DeleteBegin, Begins, Promise!Calls
      <4>2. CASE \E k \in Keys : FindBegin(k)
        BY <4>2 DEF FindBegin, Begins, Promise!Calls
      <4>3. CASE \E k \in Keys, v \in Values : InsertBegin(k, v)
        BY <1>2, <4>3 DEF InsertBegin, Begins, Promise!Calls
      <4> QED BY <2>4, <4>1, <4>2, <4>3
    <3> QED BY <2>3, <3>1 DEF Promise!Next
  <2>5. CASE RehashNode \/ RehashEnd \/ Spin \/ UNCHANGED vars
    <3>1. contents' = contents /\ op' = op /\ ret' = ret
      BY <2>5 DEF RehashNode, RehashEnd, Spin, vars
    <3> QED BY <2>1, <2>2, <3>1 DEF Promise!vars
  <2>6. CASE Insert
    BY <2>1, <2>2, <2>6 DEF Insert, Promise!Insert, Promise!Next, NoCall, Promise!NoCall
  <2>7. CASE Delete
    BY <2>1, <2>2, <2>7 DEF Delete, Promise!Delete, Promise!Next, NoCall, Promise!NoCall
  <2>8. CASE Find
    <3>1. op.key \in Keys /\ pc # "rehash" /\ ret' = Lookup(op.key)
      BY <1>2, <2>8, CallIs DEF Find
    <3>2. Lookup(op.key) = contents[op.key]
      BY <1>2, <3>1, LookupExact
    <3> QED BY <2>1, <2>2, <2>8, <3>1, <3>2 DEF Find, Promise!Find, Promise!Next, NoCall, Promise!NoCall
  <2> QED BY <1>2, <2>4, <2>5, <2>6, <2>7, <2>8 DEF Next
<1> HIDE DEF Same
<1> QED BY <1>0, <1>1, <1>2, Invariance, PTL DEF Spec, ImplementsMap, Promise!Spec

----------------------------------------------------------------------------
(* Which calls return                                                      *)

\* From every node the probes of a loop come to every node: true of map.c's
\* capacities up to 43669 at least, once the 32-bit squares have overflowed.
ProbesReachAll ==
  \A lev \in Levels : \A h, s \in Slots(lev) : rank[lev][h][s] < WordSize

\* A call that inserts finds a node that is not occupied.
Room == (pc \in {"work", "endless"} /\ op.name = "insert") => size < capacity

\* A call that goes on for ever looks for a key that is not there.
Missing == (pc = "endless" /\ op.name # "insert") => contents[op.key] = Absent

\* There are fewer keys in the list than keys, as long as one is not there.
LEMMA KeysCounted ==
  ASSUME IInv, NEW k \in Keys, contents[k] = Absent, pc # "rehash", IsFiniteSet(Keys)
  PROVE  size < Cardinality(Keys) /\ Cardinality(Keys) \in Nat
<1> DEFINE f == [s \in Occupied(list) |-> list[s].key]
<1>1. list \in [Slots(capacity_level) -> Node] /\ Unique(list) /\ size = Cardinality(Occupied(list))
  BY DEF IInv, Table, IsTable
<1>2. \A s \in Occupied(list) : list[s].key \in Keys \ {k}
  <2>1. Holding(list, k) = {}
    BY HoldingIs
  <2> QED BY <1>1, <2>1, Nodes DEF Occupied, Holding
<1>3. f \in Injection(Occupied(list), Keys \ {k})
  <2>1. f \in [Occupied(list) -> Keys \ {k}]
    BY <1>2
  <2>2. \A s, t \in Occupied(list) : f[s] = f[t] => s = t
    BY <1>1 DEF Unique
  <2> QED BY <2>1, <2>2 DEF Injection, IsInjective
<1>4. IsFiniteSet(Keys \ {k}) /\ Cardinality(Keys \ {k}) = Cardinality(Keys) - 1
  BY FS_RemoveElement
<1>5. Cardinality(Occupied(list)) <= Cardinality(Keys \ {k})
  <2> HIDE DEF f
  <2> QED BY <1>3, <1>4, FS_Injection
<1>6. Cardinality(Keys) \in Nat
  BY FS_CardinalityType
<1>7. size \in Nat
  BY RoomAhead
<1> QED BY <1>1, <1>4, <1>5, <1>6, <1>7

\* A search for a key that is there ends.
LEMMA MissingKeeps ==
  ASSUME IInv, Missing, [Next]_vars
  PROVE  Missing'
<1>1. CASE UNCHANGED vars
  BY <1>1 DEF vars, Missing
<1>2. CASE Spin
  <2> SUFFICES ASSUME op.name # "insert"
               PROVE  contents[op.key] = Absent
    BY <1>2 DEF Spin, Missing
  <2>1. pc # "idle" /\ pc # "rehash"
    BY <1>2 DEF Spin
  <2>2. PICK k \in Keys : k = op.key
    BY <2>1, CallIs
  <2>3. Endless(k, FindStops(k))
    BY <1>2, <2>2 DEF Spin
  <2>4. ASSUME NEW s \in Holding(list, k)
        PROVE  FALSE
    <3>1. Rank(k, s) < WordSize
      BY LookupIs DEF IInv, Typed, Table
    <3>2. Rank(k, s) = WordSize
      BY <2>3 DEF Endless, FindStops
    <3> QED BY <3>1, <3>2, MapAssumption
  <2> QED BY <2>1, <2>2, <2>4, HoldingIs
<1>3. CASE Next /\ ~Spin
  <2>1. pc' # "endless"
    BY <1>3 DEF Next, DeleteBegin, FindBegin, InsertBegin, Rehash, NoRehash, RehashNode, RehashEnd,
                Insert, Delete, Find
  <2> QED BY <2>1 DEF Missing
<1> QED BY <1>1, <1>2, <1>3

\* A key is inserted only below the load at which the list is full.
LEMMA RoomKeeps ==
  ASSUME IInv, UniqueKeys, Room, [Next]_vars,
         IsFiniteSet(Keys), Cardinality(Keys) <= primes[LastLevel]
  PROVE  Room'
<1>0. /\ size \in Nat /\ capacity \in Nat \ {0} /\ capacity_level \in Levels
      /\ FirstLevel \in Nat /\ LastLevel \in Nat
  BY RoomAhead, MapAssumption DEF IInv, Typed
<1>1. CASE UNCHANGED vars
  BY <1>1 DEF vars, Room, capacity
<1>2. CASE Spin
  BY <1>2 DEF Spin, Room, capacity
<1>3. CASE Insert \/ Delete \/ Find
  BY <1>3 DEF Insert, Delete, Find, Room
<1>4. CASE RehashNode
  BY <1>4 DEF RehashNode, Room
<1>5. CASE RehashEnd
  <2>1. size' = size /\ capacity' = capacity
    BY <1>5 DEF RehashEnd, capacity
  <2>2. 4 * (size + Cardinality(Left)) <= 3 * capacity /\ Cardinality(Left) \in Nat
    <3>1. PICK lev \in Levels : old_list \in [Slots(lev) -> Node]
      BY <1>5 DEF IInv, Moving, RehashEnd
    <3>2. IsFiniteSet(Left)
      BY <3>1, OccupiedFinite, FS_Subset, FS_EmptySet DEF Left
    <3> QED BY <1>5, <3>2, FS_CardinalityType DEF IInv, Moving, RehashEnd
  <2> QED BY <1>0, <2>1, <2>2 DEF Room
<1>6. ASSUME NEW k \in Keys, DeleteBegin(k) \/ FindBegin(k)
      PROVE  Room'
  BY <1>6 DEF DeleteBegin, FindBegin, Room
<1>7. ASSUME NEW k \in Keys, NEW v \in Values, InsertBegin(k, v)
      PROVE  Room'
  <2>1. CASE Grows
    BY <1>7, <2>1 DEF InsertBegin, Rehash, Room
  <2>2. CASE ~Grows
    <3>1. size' = size /\ capacity' = capacity
      BY <1>7, <2>2 DEF InsertBegin, NoRehash, capacity
    <3>2. CASE capacity_level < LastLevel
      BY <1>0, <2>2, <3>1, <3>2 DEF Grows, Room
    <3>3. CASE ~(capacity_level < LastLevel)
      <4>1. capacity = primes[LastLevel]
        BY <1>0, <3>3 DEF capacity, Levels
      <4>2. contents[k] = Absent /\ pc # "rehash"
        BY <1>7 DEF InsertBegin
      <4>3. size < Cardinality(Keys) /\ Cardinality(Keys) \in Nat
        BY <4>2, KeysCounted
      <4> QED BY <1>0, <3>1, <4>1, <4>3 DEF Room
    <3> QED BY <3>2, <3>3
  <2> QED BY <2>1, <2>2
<1> QED BY <1>1, <1>2, <1>3, <1>4, <1>5, <1>6, <1>7 DEF Next

\* A loop of map.c goes round for ever only in map_find and map_delete of a key
\* that is not there, as long as the last capacity is enough for all keys and
\* the probes, overflowing, come to every node.
THEOREM OtherCallsReturn ==
  ASSUME UniqueKeys, ProbesReachAll, IsFiniteSet(Keys), Cardinality(Keys) <= primes[LastLevel]
  PROVE  Spec => []OnlyMissesSpin
<1> DEFINE Inv == IInv /\ Room /\ Missing
<1>1. Init => Inv
  BY InitHolds DEF Init, Room, Missing
<1>2. ASSUME Inv, [Next]_vars
      PROVE  Inv'
  BY <1>2, NextKeeps, RoomKeeps, MissingKeeps
<1>3. ASSUME Inv, Spin
      PROVE  op.name # "insert"
  <2> SUFFICES ASSUME op.name = "insert"
               PROVE  FALSE
    OBVIOUS
  <2>1. pc \in {"work", "endless"} /\ Endless(op.key, InsertStops(op.key))
    BY <1>3 DEF Spin
  <2>2. PICK k \in Keys : k = op.key
    BY <1>3, <2>1, CallIs
  <2>3. /\ capacity_level \in Levels /\ list \in [Slots(capacity_level) -> Node]
        /\ size = Cardinality(Occupied(list)) /\ size < capacity
    BY <1>3, <2>1 DEF Room, IInv, Typed, Table, IsTable
  <2>4. Occupied(list) # Slots(capacity_level)
    <3>1. Cardinality(Slots(capacity_level)) = capacity
      BY <2>3, Capacities, SlotsFinite DEF Slots, capacity
    <3> QED BY <1>3, <2>3, <3>1, RoomAhead
  <2>5. PICK s \in Slots(capacity_level) : s \notin Occupied(list)
    BY <2>3, <2>4 DEF Occupied
  <2>6. Rank(k, s) = WordSize
    BY <2>1, <2>2, <2>3, <2>5 DEF Endless, InsertStops
  <2>7. Rank(k, s) < WordSize
    BY <2>3, <2>5, Capacities DEF ProbesReachAll, Rank, capacity
  <2> QED BY <2>6, <2>7, MapAssumption
<1> DEFINE Searches == pc = "endless" => op.name # "insert"
<1>4. Init => Searches
  BY DEF Init
<1>5. ASSUME Inv, Searches, [Next]_vars
      PROVE  Searches'
  <2>1. CASE Spin
    BY <1>3, <1>5, <2>1 DEF Spin
  <2>2. CASE UNCHANGED vars
    BY <1>5, <2>2 DEF vars
  <2>3. CASE Next /\ ~Spin
    BY <2>3 DEF Next, DeleteBegin, FindBegin, InsertBegin, Rehash, NoRehash, RehashNode, RehashEnd,
                Insert, Delete, Find
  <2> QED BY <1>5, <2>1, <2>2, <2>3
<1>6. Inv /\ Searches => OnlyMissesSpin
  BY DEF Missing, OnlyMissesSpin
<1> HIDE DEF Inv, Searches
<1> QED BY <1>1, <1>2, <1>4, <1>5, <1>6, PTL DEF Spec
=============================================================================
