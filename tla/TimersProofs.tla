---------------------------- MODULE TimersProofs ----------------------------
(***************************************************************************)
(* Proofs about Timers, for every set of timers and of threads, every      *)
(* frequency and every depth of nested ticks.                              *)
(*                                                                         *)
(* The list of timers is described by its members: IsList(h, tm, S) says   *)
(* that following next from h one meets each timer of S once and comes to  *)
(* NULL. The part of the list that a call of timer_schedule has before it  *)
(* is such a list too, and its members are the timers that have not        *)
(* counted the tick yet.                                                   *)
(***************************************************************************)
EXTENDS Timers, FiniteSetTheorems, SequenceTheorems, WellFoundedInduction, TLAPS

----------------------------------------------------------------------------
(* Linked lists                                                            *)

\* s is the list that starts at h: following next it ends after n timers.
Path(h, tm, n, s) ==
  /\ n \in Nat /\ s \in [0 .. n -> Timers \union {NULL}]
  /\ s[0] = h /\ s[n] = NULL
  /\ \A i \in 0 .. n - 1 : s[i] \in Timers /\ tm[s[i]].next = s[i + 1]
  /\ \A i, j \in 0 .. n - 1 : s[i] = s[j] => i = j

\* The list that starts at h holds the timers S.
IsList(h, tm, S) == \E n, s : Path(h, tm, n, s) /\ S = {s[i] : i \in 0 .. n - 1}


\* A non-empty set of numbers has a least element.
LEMMA LeastElement ==
  ASSUME NEW S, S \subseteq Nat, S # {}
  PROVE  \E k \in S : \A j \in S : ~ (j < k)
<1>1. PICK k \in S : \A j \in S : ~ (<<j, k>> \in OpToRel(<, Nat))
  BY NatLessThanWellFounded, WFMin
<1> QED BY <1>1 DEF OpToRel

\* A list depends on the links of its own timers only.
LEMMA ListFrame ==
  ASSUME NEW h, NEW tm, NEW tm2, NEW S, IsList(h, tm, S), \A x \in S : tm2[x].next = tm[x].next
  PROVE  IsList(h, tm2, S)
<1>1. PICK n, s : Path(h, tm, n, s) /\ S = {s[i] : i \in 0 .. n - 1}
  BY DEF IsList
<1>2. \A i \in 0 .. n - 1 : s[i] \in S
  BY <1>1
<1>3. Path(h, tm2, n, s)
  BY <1>1, <1>2 DEF Path
<1> QED BY <1>1, <1>3 DEF IsList

\* A new timer in front
LEMMA ListPush ==
  ASSUME NEW h, NEW tm, NEW tm2, NEW S, IsList(h, tm, S), NEW p \in Timers \ S,
         tm2[p].next = h, \A x \in S : tm2[x].next = tm[x].next
  PROVE  IsList(p, tm2, S \union {p})
<1>1. PICK n, s : Path(h, tm, n, s) /\ S = {s[i] : i \in 0 .. n - 1}
  BY DEF IsList
<1>2. PICK m : m = n + 1
  OBVIOUS
<1>3. n \in Nat /\ m \in Nat /\ m - 1 = n
  BY <1>1, <1>2 DEF Path
<1> DEFINE r == [i \in 0 .. m |-> IF i = 0 THEN p ELSE s[i - 1]]
<1>4. /\ r \in [0 .. m -> Timers \union {NULL}] /\ r[0] = p
      /\ \A i \in 0 .. n : r[i + 1] = s[i]
  <2>1. p \in Timers \union {NULL} /\ \A i \in 0 .. n : s[i] \in Timers \union {NULL}
    BY <1>1, TimersAssumption DEF Path
  <2>2. \A i \in 0 .. m : i # 0 => i - 1 \in 0 .. n
    BY <1>2, <1>3
  <2>3. \A i \in 0 .. n : i + 1 \in 0 .. m /\ i + 1 # 0 /\ (i + 1) - 1 = i
    BY <1>2, <1>3
  <2> QED BY <1>3, <2>1, <2>2, <2>3
<1> HIDE DEF r
<1>5. \A i \in 0 .. n : i = 0 \/ (i - 1 \in 0 .. n - 1 /\ r[i] = s[i - 1])
  <2> SUFFICES ASSUME NEW i \in 0 .. n, i # 0
               PROVE  i - 1 \in 0 .. n - 1 /\ r[i] = s[i - 1]
    OBVIOUS
  <2>1. i - 1 \in 0 .. n - 1 /\ i - 1 \in 0 .. n /\ (i - 1) + 1 = i
    BY <1>3
  <2> QED BY <1>4, <2>1
<1>6. \A i \in 0 .. n - 1 : s[i] \in S
  BY <1>1
<1>7. Path(p, tm2, m, r)
  <2>1. r[m] = NULL
    <3>1. n \in 0 .. n /\ s[n] = NULL
      BY <1>1, <1>3 DEF Path
    <3> QED BY <1>2, <1>4, <3>1
  <2>2. ASSUME NEW i \in 0 .. n
        PROVE  r[i] \in Timers /\ tm2[r[i]].next = r[i + 1]
    <3>1. CASE i = 0
      <4>1. r[0 + 1] = s[0] /\ s[0] = h
        BY <1>1, <1>3, <1>4 DEF Path
      <4> QED BY <1>4, <3>1, <4>1
    <3>2. CASE i # 0
      <4>1. i - 1 \in 0 .. n - 1 /\ r[i] = s[i - 1] /\ (i - 1) + 1 = i
        BY <1>3, <1>5, <3>2
      <4>2. s[i - 1] \in Timers /\ tm[s[i - 1]].next = s[i]
        BY <1>1, <4>1 DEF Path
      <4>3. r[i + 1] = s[i]
        BY <1>4
      <4> QED BY <1>6, <4>1, <4>2, <4>3
    <3> QED BY <3>1, <3>2
  <2>3. ASSUME NEW i \in 0 .. n, NEW j \in 0 .. n, r[i] = r[j]
        PROVE  i = j
    <3>1. \A k \in 0 .. n : k # 0 => r[k] # p
      BY <1>5, <1>6
    <3>2. CASE i = 0 \/ j = 0
      BY <1>4, <2>3, <3>1, <3>2
    <3>3. CASE i # 0 /\ j # 0
      <4>1. i - 1 \in 0 .. n - 1 /\ j - 1 \in 0 .. n - 1 /\ s[i - 1] = s[j - 1]
        BY <1>5, <2>3, <3>3
      <4>2. i - 1 = j - 1
        BY <1>1, <4>1 DEF Path
      <4> QED BY <1>3, <4>2
    <3> QED BY <3>2, <3>3
  <2> QED BY <1>3, <1>4, <2>1, <2>2, <2>3 DEF Path
<1>8. S \union {p} = {r[i] : i \in 0 .. m - 1}
  <2>1. ASSUME NEW x \in S
        PROVE  \E i \in 0 .. m - 1 : x = r[i]
    <3>1. PICK i \in 0 .. n - 1 : x = s[i]
      BY <1>1
    <3>2. i + 1 \in 0 .. m - 1 /\ r[i + 1] = s[i]
      BY <1>3, <1>4, <3>1
    <3> QED BY <3>1, <3>2
  <2>2. 0 \in 0 .. m - 1 /\ r[0] = p
    BY <1>3, <1>4
  <2>3. \A i \in 0 .. m - 1 : r[i] \in S \union {p}
    BY <1>3, <1>4, <1>5, <1>6
  <2> QED BY <2>1, <2>2, <2>3
<1> QED BY <1>7, <1>8 DEF IsList

\* The first timer is taken off.
LEMMA ListPop ==
  ASSUME NEW h \in Timers, NEW tm, NEW tm2, NEW S, IsList(h, tm, S),
         \A x \in S \ {h} : tm2[x].next = tm[x].next
  PROVE  IsList(tm[h].next, tm2, S \ {h})
<1>1. PICK n, s : Path(h, tm, n, s) /\ S = {s[i] : i \in 0 .. n - 1}
  BY DEF IsList
<1>2. n \in Nat /\ n # 0
  BY <1>1, TimersAssumption DEF Path
<1>3. PICK m : m = n - 1
  OBVIOUS
<1>4. m \in Nat /\ m + 1 = n
  BY <1>2, <1>3
<1> DEFINE r == [i \in 0 .. m |-> s[i + 1]]
<1>5. r \in [0 .. m -> Timers \union {NULL}] /\ \A i \in 0 .. m : r[i] = s[i + 1] /\ i + 1 \in 0 .. n
  <2>1. \A i \in 0 .. m : i + 1 \in 0 .. n
    BY <1>4
  <2>2. \A i \in 0 .. n : s[i] \in Timers \union {NULL}
    BY <1>1 DEF Path
  <2> QED BY <2>1, <2>2
<1> HIDE DEF r
<1>6. \A i \in 0 .. m - 1 : i + 1 \in 0 .. n - 1 /\ i \in 0 .. m /\ s[i + 1] \in S \ {h}
  <2> SUFFICES ASSUME NEW i \in 0 .. m - 1
               PROVE  i + 1 \in 0 .. n - 1 /\ i \in 0 .. m /\ s[i + 1] \in S \ {h}
    OBVIOUS
  <2>1. i + 1 \in 0 .. n - 1 /\ i \in 0 .. m /\ i + 1 # 0 /\ 0 \in 0 .. n - 1
    BY <1>4
  <2>2. s[i + 1] # s[0] /\ s[0] = h
    BY <1>1, <2>1 DEF Path
  <2> QED BY <1>1, <2>1, <2>2
<1>7. Path(tm[h].next, tm2, m, r)
  <2>1. r[0] = tm[h].next /\ r[m] = NULL
    <3>1. 0 \in 0 .. n - 1 /\ 0 \in 0 .. m /\ m \in 0 .. m
      BY <1>4
    <3>2. r[0] = s[0 + 1] /\ r[m] = s[n] /\ tm[s[0]].next = s[0 + 1]
      BY <1>1, <1>4, <1>5, <3>1 DEF Path
    <3> QED BY <1>1, <3>2 DEF Path
  <2>2. ASSUME NEW i \in 0 .. m - 1
        PROVE  r[i] \in Timers /\ tm2[r[i]].next = r[i + 1]
    <3>1. i + 1 \in 0 .. n - 1 /\ i \in 0 .. m /\ i + 1 \in 0 .. m
      BY <1>4, <1>6
    <3>2. r[i] = s[i + 1] /\ r[i + 1] = s[(i + 1) + 1]
      BY <1>5, <3>1
    <3>3. s[i + 1] \in Timers /\ tm[s[i + 1]].next = s[(i + 1) + 1]
      BY <1>1, <3>1 DEF Path
    <3> QED BY <1>6, <3>2, <3>3
  <2>3. ASSUME NEW i \in 0 .. m - 1, NEW j \in 0 .. m - 1, r[i] = r[j]
        PROVE  i = j
    <3>1. i + 1 \in 0 .. n - 1 /\ j + 1 \in 0 .. n - 1 /\ s[i + 1] = s[j + 1]
      BY <1>5, <1>6, <2>3
    <3>2. i + 1 = j + 1
      BY <1>1, <3>1 DEF Path
    <3> QED BY <1>4, <3>2
  <2> QED BY <1>4, <1>5, <2>1, <2>2, <2>3 DEF Path
<1>8. S \ {h} = {r[i] : i \in 0 .. m - 1}
  <2>1. ASSUME NEW x \in S \ {h}
        PROVE  \E i \in 0 .. m - 1 : x = r[i]
    <3>1. PICK i \in 0 .. n - 1 : x = s[i]
      BY <1>1
    <3>2. i # 0
      BY <1>1, <3>1 DEF Path
    <3>3. i - 1 \in 0 .. m - 1 /\ i - 1 \in 0 .. m /\ (i - 1) + 1 = i
      BY <1>4, <3>1, <3>2
    <3> QED BY <1>5, <3>1, <3>3
  <2>2. \A i \in 0 .. m - 1 : r[i] \in S \ {h}
    BY <1>5, <1>6
  <2> QED BY <2>1, <2>2
<1> QED BY <1>7, <1>8 DEF IsList

\* A timer p that is not the first is taken out, behind its predecessor q.
LEMMA ListUnlink ==
  ASSUME NEW h, NEW tm, NEW tm2, NEW S, IsList(h, tm, S),
         NEW p \in S, p # h, NEW q \in S, tm[q].next = p,
         tm2[q].next = tm[p].next, \A x \in S \ {p, q} : tm2[x].next = tm[x].next
  PROVE  IsList(h, tm2, S \ {p})
<1>1. PICK n, s : Path(h, tm, n, s) /\ S = {s[i] : i \in 0 .. n - 1}
  BY DEF IsList
<1>2. PICK k \in 0 .. n - 1 : p = s[k]
  BY <1>1
<1>3. PICK j \in 0 .. n - 1 : q = s[j]
  BY <1>1
<1>4. n \in Nat /\ n # 0 /\ k # 0
  BY <1>1, <1>2 DEF Path
<1>n. \A i \in 0 .. n - 1 : s[i] \in Timers /\ tm[s[i]].next = s[i + 1]
  BY <1>1 DEF Path
<1>i. \A a, b \in 0 .. n : s[a] = s[b] => a = b
  <2>1. \A a, b \in 0 .. n - 1 : s[a] = s[b] => a = b
    BY <1>1 DEF Path
  <2>2. s[n] \notin Timers
    BY <1>1, TimersAssumption DEF Path
  <2>3. \A a \in 0 .. n : a = n \/ a \in 0 .. n - 1
    BY <1>4
  <2> QED BY <1>n, <2>1, <2>2, <2>3
<1>5. j + 1 = k
  <2>1. s[j + 1] = s[k]
    BY <1>2, <1>3, <1>n
  <2>2. j + 1 \in 0 .. n /\ k \in 0 .. n
    BY <1>2, <1>3, <1>4
  <2> QED BY <1>i, <2>1, <2>2
<1>6. PICK m : m = n - 1
  OBVIOUS
<1>7. m \in Nat /\ m + 1 = n
  BY <1>4, <1>6
<1> DEFINE r == [i \in 0 .. m |-> IF i < k THEN s[i] ELSE s[i + 1]]
<1>8. /\ r \in [0 .. m -> Timers \union {NULL}]
      /\ \A i \in 0 .. m : i < k => r[i] = s[i]
      /\ \A i \in 0 .. m : i >= k => r[i] = s[i + 1]
  <2>1. \A i \in 0 .. m : i \in 0 .. n /\ i + 1 \in 0 .. n
    BY <1>7
  <2>2. \A i \in 0 .. n : s[i] \in Timers \union {NULL}
    BY <1>1 DEF Path
  <2> QED BY <1>2, <1>7, <2>1, <2>2
<1> HIDE DEF r
<1>9. Path(h, tm2, m, r)
  <2>1. r[0] = h /\ r[m] = NULL
    <3>1. 0 < k /\ 0 \in 0 .. m /\ m \in 0 .. m /\ m >= k
      BY <1>2, <1>4, <1>7
    <3> QED BY <1>1, <1>7, <1>8, <3>1 DEF Path
  <2>2. ASSUME NEW i \in 0 .. m - 1
        PROVE  r[i] \in Timers /\ tm2[r[i]].next = r[i + 1]
    <3>0. i \in 0 .. m /\ i + 1 \in 0 .. m /\ i \in 0 .. n - 1 /\ i + 1 \in 0 .. n - 1
      BY <1>7
    <3>1. CASE i + 1 < k
      <4>1. r[i] = s[i] /\ r[i + 1] = s[i + 1]
        BY <1>2, <1>8, <3>0, <3>1
      <4>2. s[i] # p /\ s[i] # q
        <5>1. i # k /\ i # j /\ i \in 0 .. n /\ k \in 0 .. n /\ j \in 0 .. n
          BY <1>2, <1>3, <1>4, <1>5, <3>1
        <5> QED BY <1>2, <1>3, <1>i, <5>1
      <4>3. s[i] \in S
        BY <1>1, <3>0
      <4> QED BY <1>n, <3>0, <4>1, <4>2, <4>3
    <3>2. CASE i + 1 = k
      <4>1. i = j /\ i < k
        BY <1>2, <1>3, <1>5, <3>2
      <4>2. r[i] = s[i] /\ r[i + 1] = s[k + 1]
        BY <1>2, <1>8, <3>0, <3>2, <4>1
      <4>3. s[i] = q /\ tm[p].next = s[k + 1]
        BY <1>2, <1>3, <1>n, <4>1
      <4> QED BY <1>n, <3>0, <4>2, <4>3
    <3>3. CASE i + 1 > k
      <4>1. r[i] = s[i + 1] /\ r[i + 1] = s[(i + 1) + 1]
        BY <1>2, <1>8, <3>0, <3>3
      <4>2. s[i + 1] # p /\ s[i + 1] # q
        <5>1. i + 1 # k /\ i + 1 # j /\ i + 1 \in 0 .. n /\ k \in 0 .. n /\ j \in 0 .. n
          BY <1>2, <1>3, <1>4, <1>5, <3>0, <3>3
        <5> QED BY <1>2, <1>3, <1>i, <5>1
      <4>3. s[i + 1] \in S
        BY <1>1, <3>0
      <4> QED BY <1>n, <3>0, <4>1, <4>2, <4>3
    <3> QED BY <1>2, <3>1, <3>2, <3>3
  <2>3. ASSUME NEW a \in 0 .. m - 1, NEW b \in 0 .. m - 1, r[a] = r[b]
        PROVE  a = b
    <3>1. /\ a \in 0 .. m /\ a \in 0 .. n /\ a + 1 \in 0 .. n
          /\ b \in 0 .. m /\ b \in 0 .. n /\ b + 1 \in 0 .. n
      BY <1>7
    <3>2. /\ (a < k /\ r[a] = s[a]) \/ (a >= k /\ r[a] = s[a + 1])
          /\ (b < k /\ r[b] = s[b]) \/ (b >= k /\ r[b] = s[b + 1])
      BY <1>2, <1>8, <3>1
    <3>3. \/ a < k /\ b < k /\ a = b
          \/ a < k /\ b >= k /\ a = b + 1
          \/ a >= k /\ b < k /\ a + 1 = b
          \/ a >= k /\ b >= k /\ a + 1 = b + 1
      BY <1>i, <2>3, <3>1, <3>2
    <3> QED BY <1>2, <3>1, <3>3
  <2> QED BY <1>7, <1>8, <2>1, <2>2, <2>3 DEF Path
<1>10. S \ {p} = {r[i] : i \in 0 .. m - 1}
  <2>1. ASSUME NEW x \in S \ {p}
        PROVE  \E i \in 0 .. m - 1 : x = r[i]
    <3>1. PICK i \in 0 .. n - 1 : x = s[i] /\ i # k
      BY <1>1, <1>2
    <3>2. CASE i < k
      <4>1. i \in 0 .. m - 1 /\ i \in 0 .. m
        BY <1>2, <1>7, <3>1, <3>2
      <4> QED BY <1>8, <3>1, <3>2, <4>1
    <3>3. CASE i > k
      <4>1. i - 1 \in 0 .. m - 1 /\ i - 1 \in 0 .. m /\ i - 1 >= k /\ (i - 1) + 1 = i
        BY <1>2, <1>7, <3>1, <3>3
      <4>2. r[i - 1] = s[i]
        BY <1>8, <4>1
      <4> QED BY <3>1, <4>1, <4>2
    <3> QED BY <1>2, <3>1, <3>2, <3>3
  <2>2. ASSUME NEW i \in 0 .. m - 1
        PROVE  r[i] \in S \ {p}
    <3>0. i \in 0 .. m /\ i \in 0 .. n - 1 /\ i + 1 \in 0 .. n - 1
      BY <1>7
    <3>1. \A a \in 0 .. n - 1 : a # k => s[a] \in S \ {p}
      <4>1. \A a \in 0 .. n - 1 : a \in 0 .. n
        BY <1>4
      <4> QED BY <1>1, <1>2, <1>i, <4>1
    <3>2. CASE i < k
      <4>1. i # k /\ r[i] = s[i]
        BY <1>8, <3>0, <3>2
      <4> QED BY <3>0, <3>1, <4>1
    <3>3. CASE i >= k
      <4>1. i + 1 # k /\ r[i] = s[i + 1]
        BY <1>2, <1>8, <3>0, <3>3
      <4> QED BY <3>0, <3>1, <4>1
    <3> QED BY <1>2, <3>2, <3>3
  <2> QED BY <2>1, <2>2
<1> QED BY <1>9, <1>10 DEF IsList
\* The list that starts at NULL is empty, and no other is.
LEMMA ListEmpty ==
  ASSUME NEW h, NEW tm, NEW S, IsList(h, tm, S)
  PROVE  /\ S \subseteq Timers /\ (h = NULL <=> S = {})
         /\ h \in Timers \union {NULL} /\ (h # NULL => h \in S)
<1>1. PICK n, s : Path(h, tm, n, s) /\ S = {s[i] : i \in 0 .. n - 1}
  BY DEF IsList
<1>2. n \in Nat /\ (n # 0 => 0 \in 0 .. n - 1) /\ (n = 0 => 0 .. n - 1 = {})
  BY <1>1 DEF Path
<1>3. S \subseteq Timers
  BY <1>1 DEF Path
<1>4. n # 0 => h \in S /\ h # NULL
  BY <1>1, <1>2, <1>3, TimersAssumption DEF Path
<1>5. n = 0 => h = NULL /\ S = {}
  BY <1>1, <1>2 DEF Path
<1> QED BY <1>3, <1>4, <1>5

\* There is such a list.
LEMMA EmptyList ==
  ASSUME NEW tm
  PROVE  IsList(NULL, tm, {})
<1> DEFINE s == [i \in 0 .. 0 |-> NULL]
<1>1. Path(NULL, tm, 0, s)
  BY DEF Path
<1>2. {} = {s[i] : i \in 0 .. 0 - 1}
  OBVIOUS
<1> QED BY <1>1, <1>2 DEF IsList

\* Every timer of a list but the first is the next one of another.
LEMMA ListPrev ==
  ASSUME NEW h, NEW tm, NEW S, IsList(h, tm, S), NEW t \in S, t # h
  PROVE  \E p \in S : tm[p].next = t
<1>1. PICK n, s : Path(h, tm, n, s) /\ S = {s[i] : i \in 0 .. n - 1}
  BY DEF IsList
<1>2. PICK k \in 0 .. n - 1 : t = s[k]
  BY <1>1
<1>3. n \in Nat /\ k # 0
  BY <1>1, <1>2 DEF Path
<1>4. k - 1 \in 0 .. n - 1 /\ (k - 1) + 1 = k
  BY <1>2, <1>3
<1>5. s[k - 1] \in S /\ tm[s[k - 1]].next = t
  BY <1>1, <1>2, <1>4 DEF Path
<1> QED BY <1>5

\* The walk that Chain describes finds the timers of the list, all of them
\* within as many steps as there are timers.
LEMMA ListedIs ==
  ASSUME NEW S, IsList(timers, timer, S)
  PROVE  Listed = S /\ Chain[Cardinality(Timers)] = NULL
<1>1. PICK n, s : Path(timers, timer, n, s) /\ S = {s[i] : i \in 0 .. n - 1}
  BY DEF IsList
<1> PICK C : C = Cardinality(Timers)
  OBVIOUS
<1>2. n \in Nat /\ C \in Nat /\ n <= C
  <2>1. n \in Nat /\ C \in Nat /\ IsFiniteSet(Timers)
    BY <1>1, TimersAssumption, FS_CardinalityType DEF Path
  <2>2. IsFiniteSet(0 .. n - 1) /\ Cardinality(0 .. n - 1) = n
    <3>1. ASSUME NEW m \in Nat
          PROVE  IsFiniteSet(0 .. m - 1) /\ Cardinality(0 .. m - 1) = m
      <4> PICK e \in Int : e = m - 1
        OBVIOUS
      <4>1. /\ IsFiniteSet(0 .. e)
            /\ Cardinality(0 .. e) = IF 0 > e THEN 0 ELSE e - 0 + 1
        BY FS_Interval
      <4> QED BY <4>1
    <3> QED BY <2>1, <3>1
  <2> DEFINE f == [i \in 0 .. n - 1 |-> s[i]]
  <2>3. f \in Injection(0 .. n - 1, Timers)
    BY <1>1 DEF Path, Injection, IsInjective
  <2>4. Cardinality(0 .. n - 1) <= Cardinality(Timers)
    BY <2>1, <2>2, <2>3, FS_Injection
  <2> QED BY <2>1, <2>2, <2>4
<1>3. /\ s[0] = timers /\ s[n] = NULL /\ NULL \notin Timers
      /\ \A i \in 0 .. n - 1 : s[i] \in Timers /\ timer[s[i]].next = s[i + 1]
  BY <1>1, TimersAssumption DEF Path
<1> DEFINE Step(y) == IF y = NULL THEN NULL ELSE timer[y].next
           Def(w) == [k \in 0 .. C |-> IF k = 0 THEN timers ELSE Step(w[k - 1])]
           v == [k \in 0 .. C |-> IF k <= n THEN s[k] ELSE NULL]
<1>4. v = Def(v)
  <2>1. ASSUME NEW k \in 0 .. C
        PROVE  v[k] = IF k = 0 THEN timers ELSE Step(v[k - 1])
    <3>1. CASE k = 0
      BY <1>2, <1>3, <3>1
    <3>2. CASE k # 0
      <4>1. k - 1 \in 0 .. C /\ (k - 1) + 1 = k
        BY <1>2, <3>2
      <4>2. CASE k <= n
        <5>1. k - 1 \in 0 .. n - 1
          BY <1>2, <3>2, <4>2
        <5>2. v[k] = s[k] /\ v[k - 1] = s[k - 1]
          BY <1>2, <4>1, <4>2, <5>1
        <5> QED BY <1>3, <3>2, <4>1, <5>1, <5>2
      <4>3. CASE ~ (k <= n)
        <5>1. v[k] = NULL
          BY <4>3
        <5>2. v[k - 1] = NULL
          <6>1. CASE k - 1 = n
            BY <1>2, <1>3, <4>1, <6>1
          <6>2. CASE k - 1 # n
            BY <1>2, <4>1, <4>3, <6>2
          <6> QED BY <6>1, <6>2
        <5> QED BY <3>2, <5>1, <5>2
      <4> QED BY <4>2, <4>3
    <3> QED BY <3>1, <3>2
  <2> HIDE DEF v, Step
  <2>2. v = [k \in 0 .. C |-> v[k]]
    BY DEF v
  <2> QED BY <2>1, <2>2
<1>5. ASSUME NEW w, w = Def(w)
      PROVE  w = v
  <2> DEFINE Bad == {k \in 0 .. C : w[k] # v[k]}
  <2>0. /\ \A k \in 0 .. C : w[k] = Def(w)[k]
        /\ \A k \in 0 .. C : v[k] = Def(v)[k]
    <3> HIDE DEF v, Def
    <3> QED BY <1>4, <1>5
  <2> HIDE DEF v, Step
  <2>1. Bad = {}
    <3> SUFFICES ASSUME Bad # {}
                 PROVE  FALSE
      OBVIOUS
    <3>1. Bad \subseteq Nat
      BY <1>2
    <3>2. PICK k \in Bad : \A j \in Bad : ~ (j < k)
      BY <3>1, LeastElement
    <3>3. k # 0
      BY <1>2, <2>0, <3>2
    <3>4. k - 1 \in 0 .. C /\ k - 1 < k
      BY <1>2, <3>1, <3>2, <3>3
    <3>5. w[k - 1] = v[k - 1]
      BY <3>2, <3>4
    <3> QED BY <2>0, <3>2, <3>3, <3>5
  <2>2. w = [k \in 0 .. C |-> w[k]]
    BY <1>5
  <2>3. v = [k \in 0 .. C |-> v[k]]
    BY DEF v
  <2> QED BY <2>1, <2>2, <2>3
<1>6. PICK w : w = CHOOSE x : x = Def(x)
  OBVIOUS
<1>7. w = v
  <2>1. w = Def(w)
    <3> HIDE DEF v, Def
    <3> QED BY <1>4, <1>6
  <2> HIDE DEF v, Def
  <2> QED BY <1>5, <2>1
<1>8. Chain = w
  BY <1>6 DEF Chain
<1>9. /\ DOMAIN v = 0 .. C /\ v[C] = NULL
      /\ \A k \in 0 .. C : v[k] = IF k <= n THEN s[k] ELSE NULL
  BY <1>2, <1>3
<1> HIDE DEF v
<1>10. Chain[C] = NULL
  BY <1>7, <1>8, <1>9
<1>11. Listed = {v[k] : k \in 0 .. C} \ {NULL}
  BY <1>7, <1>8, <1>9 DEF Listed
<1>12. \A k \in 0 .. n - 1 : k \in 0 .. C /\ v[k] = s[k] /\ s[k] # NULL
  BY <1>2, <1>3, <1>9
<1>13. \A k \in 0 .. C : v[k] = NULL \/ (k \in 0 .. n - 1 /\ v[k] = s[k])
  BY <1>2, <1>3, <1>9
<1> QED BY <1>1, <1>10, <1>11, <1>12, <1>13

----------------------------------------------------------------------------
(* The inductive invariant                                                 *)

\* The calls are sequences, the ages numbers and the intervals words.
Types ==
  /\ TypeOK
  /\ walk \in [Threads -> Seq(Frame)] /\ age \in [Timers -> Nat]
  /\ \A t \in Timers : timer[t].interval < WordSize

\* The timers that are registered
Registered == allocated \ {pending}

\* Timer t has counted every tick since it was linked or last ran down ...
Exact(tm, ag, t) ==
  tm[t].interval > 0 => tm[t].elapse > 0 /\ ag[t] + tm[t].elapse = tm[t].interval

\* ... and all but the last one.
Late(tm, ag, t) ==
  tm[t].interval > 0 => tm[t].elapse > 0 /\ ag[t] + tm[t].elapse = tm[t].interval + 1

\* The list holds the timers that are registered, the one that is about to be
\* linked knows what comes next, and task_schedule is at the end of the list.
Whole ==
  /\ IsList(timers, timer, Registered)
  /\ pending # NULL => /\ pending \in allocated /\ timer[pending].next = timers
                       /\ timer[pending].elapse = timer[pending].interval
  /\ \A t \in Timers : timer[t].callback_func = "task_schedule" => timer[t].next = NULL

\* A call of timer_schedule is at a timer of the list, and one that was
\* suspended has come to the end of the list.
Placed ==
  \A th \in Threads : \A n \in DOMAIN walk[th] :
    /\ walk[th][n].at \in Registered
    /\ walk[th][n].on => walk[th][n].pc = "next" /\ timer[walk[th][n].at].next = NULL

\* The timer that the running call of timer_schedule counts down next
Ahead == IF Top.pc = "visit" THEN Top.at ELSE timer[Top.at].next

\* R is what the running call has before it, nothing if there is none.
Uncounted(R) ==
  /\ InterruptsEnabled => R = {}
  /\ ~InterruptsEnabled => IsList(Ahead, timer, R)
  /\ R \subseteq Registered
  /\ \A t \in Registered : IF t \in R THEN Late(timer, age, t) ELSE Exact(timer, age, t)

Counted == \E R : Uncounted(R)

IInv == Types /\ (~broken => Whole /\ Placed /\ Counted)

----------------------------------------------------------------------------
(* What the steps do to the calls on the stacks                            *)

\* The topmost call of the thread that runs becomes x. The others are those
\* that were suspended.
TopBecomes(x) ==
  /\ walk' \in [Threads -> Seq(Frame)]
  /\ walk'[current_task] # << >> /\ Last(walk'[current_task]) = x
  /\ \A th \in Threads : \A n \in DOMAIN walk'[th] :
       \/ th = current_task /\ n = Len(walk'[th]) /\ walk'[th][n] = x
       \/ n \in DOMAIN walk[th] /\ walk'[th][n] = walk[th][n] /\ walk[th][n].on

\* The topmost call of the thread that runs returns.
TopReturns ==
  /\ walk' \in [Threads -> Seq(Frame)]
  /\ \A th \in Threads : \A n \in DOMAIN walk'[th] :
       n \in DOMAIN walk[th] /\ walk'[th][n] = walk[th][n] /\ walk[th][n].on

\* An element is put behind a sequence.
LEMMA Behind ==
  ASSUME NEW S, NEW u \in Seq(S), NEW x \in S
  PROVE  /\ u \o <<x>> \in Seq(S) /\ Len(u \o <<x>>) = Len(u) + 1
         /\ (u \o <<x>>)[Len(u) + 1] = x
         /\ \A n \in 1 .. Len(u) : (u \o <<x>>)[n] = u[n]
<1>1. <<x>> \in Seq(S) /\ Len(<<x>>) = 1 /\ <<x>>[1] = x /\ Len(u) \in Nat
  OBVIOUS
<1>2. /\ u \o <<x>> \in Seq(S) /\ Len(u \o <<x>>) = Len(u) + Len(<<x>>)
      /\ \A n \in 1 .. Len(u) + Len(<<x>>) :
           (u \o <<x>>)[n] = IF n <= Len(u) THEN u[n] ELSE <<x>>[n - Len(u)]
  BY <1>1, ConcatProperties, Zenon
<1>3. (u \o <<x>>)[Len(u) + 1] = x
  <2>1. PICK k : k = Len(u) + 1
    OBVIOUS
  <2>2. k \in 1 .. Len(u) + Len(<<x>>) /\ ~ (k <= Len(u)) /\ k - Len(u) = 1
    BY <1>1, <2>1
  <2>3. (u \o <<x>>)[k] = <<x>>[k - Len(u)]
    BY <1>2, <2>2
  <2> QED BY <1>1, <2>1, <2>2, <2>3
<1> QED BY <1>1, <1>2, <1>3

\* The last element of a sequence is taken off ...
LEMMA FrontIs ==
  ASSUME NEW S, NEW w \in Seq(S), w # << >>
  PROVE  /\ Front(w) \in Seq(S) /\ Len(Front(w)) = Len(w) - 1
         /\ \A n \in 1 .. Len(w) - 1 : Front(w)[n] = w[n]
<1>1. Len(w) \in Nat /\ Len(w) > 0
  OBVIOUS
<1>2. PICK u : u = SubSeq(w, 1, Len(w) - 1)
  OBVIOUS
<1>3. /\ u \in Seq(S) /\ Len(u) = Len(w) - 1
      /\ \A n \in 1 .. Len(w) - 1 : u[n] = w[n]
  <2>1. Len(u) = Len(w) - 1
    <3>1. PICK k \in Int : k = Len(w) - 1
      BY <1>1
    <3>2. Len(SubSeq(w, 1, k)) = IF 1 <= k THEN k - 1 + 1 ELSE 0
      <4>1. \A i \in 1 .. k : w[i] \in S
        BY <1>1, <3>1
      <4> QED BY <4>1, SubSeqProperties
    <3> QED BY <1>1, <1>2, <3>1, <3>2
  <2>2. \A n \in 1 .. Len(w) - 1 : u[n] = w[n]
    BY <1>1, <1>2
  <2>3. u \in Seq(S)
    BY <1>1, <1>2
  <2> QED BY <2>1, <2>2, <2>3, Zenon
<1>4. Front(w) = u
  BY <1>2 DEF Front
<1> QED BY <1>3, <1>4, Zenon

\* ... and another one put in its place.
LEMMA FrontBehind ==
  ASSUME NEW S, NEW w \in Seq(S), w # << >>, NEW x \in S
  PROVE  /\ Front(w) \o <<x>> \in Seq(S) /\ Len(Front(w) \o <<x>>) = Len(w)
         /\ (Front(w) \o <<x>>)[Len(w)] = x
         /\ \A n \in 1 .. Len(w) - 1 : (Front(w) \o <<x>>)[n] = w[n]
<1>1. /\ Front(w) \in Seq(S) /\ Len(Front(w)) = Len(w) - 1 /\ Len(w) \in Nat
      /\ \A n \in 1 .. Len(w) - 1 : Front(w)[n] = w[n]
  BY FrontIs
<1> PICK u : u = Front(w)
  OBVIOUS
<1>2. /\ u \o <<x>> \in Seq(S) /\ Len(u \o <<x>>) = Len(u) + 1
      /\ (u \o <<x>>)[Len(u) + 1] = x
      /\ \A n \in 1 .. Len(u) : (u \o <<x>>)[n] = u[n]
  BY <1>1, Behind
<1>3. Len(u) + 1 = Len(w)
  BY <1>1
<1> QED BY <1>1, <1>2, <1>3, Zenon


\* SetTop replaces the topmost call ...
LEMMA SetTopOne ==
  ASSUME Types, InCall, NEW x \in Frame, SetTop(<<x>>)
  PROVE  TopBecomes(x)
<1> PICK w : w = walk[current_task]
  OBVIOUS
<1>1. /\ current_task \in Threads /\ walk \in [Threads -> Seq(Frame)]
      /\ w \in Seq(Frame) /\ w # << >>
  BY DEF Types, TypeOK, InCall
<1>2. Len(w) \in Nat /\ Len(w) > 0
  BY <1>1
<1>v. PICK v : v = Front(w) \o <<x>>
  OBVIOUS
<1>3. /\ v \in Seq(Frame) /\ Len(v) = Len(w) /\ v[Len(w)] = x
      /\ \A n \in 1 .. Len(w) - 1 : v[n] = w[n]
  <2>1. /\ Front(w) \o <<x>> \in Seq(Frame) /\ Len(Front(w) \o <<x>>) = Len(w)
        /\ (Front(w) \o <<x>>)[Len(w)] = x
        /\ \A n \in 1 .. Len(w) - 1 : (Front(w) \o <<x>>)[n] = w[n]
    BY <1>1, FrontBehind
  <2> QED BY <1>v, <2>1, Zenon
<1>4. walk' = [walk EXCEPT ![current_task] = v]
  BY <1>v DEF SetTop
<1>5. walk' \in [Threads -> Seq(Frame)] /\ walk'[current_task] = v
  BY <1>1, <1>3, <1>4
<1>6. v # << >> /\ Last(v) = x
  BY <1>2, <1>3 DEF Last
<1>7. ASSUME NEW th \in Threads, NEW n \in DOMAIN walk'[th]
      PROVE  \/ th = current_task /\ n = Len(walk'[th]) /\ walk'[th][n] = x
             \/ n \in DOMAIN walk[th] /\ walk'[th][n] = walk[th][n] /\ walk[th][n].on
  <2>1. CASE th = current_task
    <3>1. n \in 1 .. Len(v) /\ walk'[th] = v /\ walk[th] = w /\ DOMAIN w = 1 .. Len(w)
      BY <1>1, <1>3, <1>5, <1>7, <2>1
    <3>2. n \in DOMAIN walk[th] /\ n < Len(walk[th]) => walk[th][n].on
      BY DEF Types, TypeOK
    <3> QED BY <1>2, <1>3, <2>1, <3>1, <3>2
  <2>2. CASE th # current_task
    <3>1. walk'[th] = walk[th]
      BY <1>1, <1>4, <2>2
    <3>2. n \in DOMAIN walk[th] => walk[th][n].on
      BY <2>2 DEF Types, TypeOK
    <3> QED BY <1>7, <2>2, <3>1, <3>2
  <2> QED BY <2>1, <2>2
<1> QED BY <1>5, <1>6, <1>7 DEF TopBecomes

\* ... or ends it.
LEMMA SetTopNone ==
  ASSUME Types, InCall, SetTop(<< >>)
  PROVE  TopReturns
<1> PICK w : w = walk[current_task]
  OBVIOUS
<1>1. /\ current_task \in Threads /\ walk \in [Threads -> Seq(Frame)]
      /\ w \in Seq(Frame) /\ w # << >>
  BY DEF Types, TypeOK, InCall
<1>2. Len(w) \in Nat /\ Len(w) > 0
  BY <1>1
<1> PICK v : v = Front(w) \o << >>
  OBVIOUS
<1>3. /\ v \in Seq(Frame) /\ Len(v) = Len(w) - 1
      /\ \A n \in 1 .. Len(w) - 1 : v[n] = w[n]
  <2>1. PICK u : u = Front(w)
    OBVIOUS
  <2>2. /\ u \in Seq(Frame) /\ Len(u) = Len(w) - 1
        /\ \A n \in 1 .. Len(w) - 1 : u[n] = w[n]
    BY <1>1, <2>1, FrontIs, Zenon
  <2>3. v = u
    BY <2>1, <2>2, ConcatEmptySeq, Zenon
  <2> QED BY <2>2, <2>3, Zenon
<1>4. walk' = [walk EXCEPT ![current_task] = v]
  BY DEF SetTop
<1>5. walk' \in [Threads -> Seq(Frame)] /\ walk'[current_task] = v
  BY <1>1, <1>3, <1>4
<1>7. ASSUME NEW th \in Threads, NEW n \in DOMAIN walk'[th]
      PROVE  n \in DOMAIN walk[th] /\ walk'[th][n] = walk[th][n] /\ walk[th][n].on
  <2>1. CASE th = current_task
    <3>1. n \in 1 .. Len(v) /\ walk'[th] = v /\ walk[th] = w /\ DOMAIN w = 1 .. Len(w)
      BY <1>1, <1>3, <1>5, <1>7, <2>1
    <3>2. n \in DOMAIN walk[th] /\ n < Len(walk[th]) => walk[th][n].on
      BY DEF Types, TypeOK
    <3> QED BY <1>2, <1>3, <2>1, <3>1, <3>2
  <2>2. CASE th # current_task
    <3>1. walk'[th] = walk[th]
      BY <1>1, <1>4, <2>2
    <3>2. n \in DOMAIN walk[th] => walk[th][n].on
      BY <2>2 DEF Types, TypeOK
    <3> QED BY <1>7, <2>2, <3>1, <3>2
  <2> QED BY <2>1, <2>2
<1> QED BY <1>5, <1>7 DEF TopReturns

\* An entered call is put on the stack of the thread that runs.
LEMMA Entered ==
  ASSUME Types, Tick
  PROVE  /\ timers \in Timers
         /\ TopBecomes([at |-> timers, pc |-> "visit", on |-> FALSE])
<1> PICK w : w = walk[current_task]
  OBVIOUS
<1>1. /\ current_task \in Threads /\ walk \in [Threads -> Seq(Frame)] /\ w \in Seq(Frame)
      /\ timers \in Timers
  BY DEF Types, TypeOK, Tick
<1>x. PICK x : x = [at |-> timers, pc |-> "visit", on |-> FALSE]
  OBVIOUS
<1>f. x \in Frame
  BY <1>1, <1>x DEF Frame
<1>v. PICK v : v = Append(w, x)
  OBVIOUS
<1>3. /\ v \in Seq(Frame) /\ Len(v) = Len(w) + 1 /\ v[Len(w) + 1] = x
      /\ \A n \in 1 .. Len(w) : v[n] = w[n]
  BY <1>1, <1>f, <1>v, AppendProperties
<1>4. walk' = [walk EXCEPT ![current_task] = v]
  BY <1>v, <1>x DEF Tick
<1>5. walk' \in [Threads -> Seq(Frame)] /\ walk'[current_task] = v
  BY <1>1, <1>3, <1>4
<1>6. v # << >> /\ Last(v) = x
  BY <1>1, <1>3 DEF Last
<1>7. ASSUME NEW th \in Threads, NEW n \in DOMAIN walk'[th]
      PROVE  \/ th = current_task /\ n = Len(walk'[th]) /\ walk'[th][n] = x
             \/ n \in DOMAIN walk[th] /\ walk'[th][n] = walk[th][n] /\ walk[th][n].on
  <2>1. CASE th = current_task
    <3>1. n \in 1 .. Len(v) /\ walk'[th] = v /\ walk[th] = w /\ DOMAIN w = 1 .. Len(w)
      BY <1>1, <1>3, <1>5, <1>7, <2>1
    <3>2. n \in DOMAIN walk[th] => walk[th][n].on
      <4>1. n \in DOMAIN walk[th] /\ n < Len(walk[th]) => walk[th][n].on
        BY DEF Types, TypeOK
      <4>2. w # << >> => w[Len(w)].on
        BY DEF Tick, Acknowledged, InterruptsEnabled, InCall, Top, Last
      <4> QED BY <1>1, <2>1, <3>1, <4>1, <4>2
    <3> QED BY <1>1, <1>3, <2>1, <3>1, <3>2
  <2>2. CASE th # current_task
    <3>1. walk'[th] = walk[th]
      BY <1>1, <1>4, <2>2
    <3>2. n \in DOMAIN walk[th] => walk[th][n].on
      BY <2>2 DEF Types, TypeOK
    <3> QED BY <1>7, <2>2, <3>1, <3>2
  <2> QED BY <2>1, <2>2
<1> QED BY <1>1, <1>5, <1>6, <1>7, <1>x DEF TopBecomes

----------------------------------------------------------------------------
(* The types are kept                                                      *)

\* What TypeOK says of the calls
Stacked ==
  \A th \in Threads : \A n \in DOMAIN walk[th] :
    /\ walk[th][n] \in Frame
    /\ (n < Len(walk[th]) \/ th # current_task) => walk[th][n].on

\* The topmost call of the thread that runs
LEMMA TopIs ==
  ASSUME Types, InCall
  PROVE  /\ Top \in Frame /\ Top.at \in Timers /\ current_task \in Threads
         /\ Len(walk[current_task]) \in DOMAIN walk[current_task]
         /\ walk[current_task][Len(walk[current_task])] = Top
<1>1. /\ current_task \in Threads /\ walk[current_task] \in Seq(Frame)
      /\ walk[current_task] # << >>
  BY DEF Types, TypeOK, InCall
<1>2. Len(walk[current_task]) \in DOMAIN walk[current_task]
  BY <1>1
<1>3. walk[current_task][Len(walk[current_task])] \in Frame
  BY <1>1
<1>4. walk[current_task][Len(walk[current_task])] = Top
  BY DEF Top, Last
<1> QED BY <1>1, <1>2, <1>3, <1>4 DEF Frame

\* When the topmost call changes, it is the only one that is not suspended.
LEMMA StackedTop ==
  ASSUME Types, NEW x \in Frame, TopBecomes(x), current_task' \in Threads,
         x.on \/ current_task' = current_task
  PROVE  Stacked'
<1> SUFFICES ASSUME NEW th \in Threads, NEW n \in DOMAIN walk'[th]
             PROVE  /\ walk'[th][n] \in Frame
                    /\ (n < Len(walk'[th]) \/ th # current_task') => walk'[th][n].on
  BY DEF Stacked
<1>1. walk'[th] \in Seq(Frame)
  BY DEF TopBecomes
<1>2. walk'[th][n] \in Frame
  BY <1>1
<1>3. CASE th = current_task /\ n = Len(walk'[th]) /\ walk'[th][n] = x
  BY <1>1, <1>2, <1>3
<1>4. CASE n \in DOMAIN walk[th] /\ walk'[th][n] = walk[th][n] /\ walk[th][n].on
  BY <1>2, <1>4
<1> QED BY <1>3, <1>4 DEF TopBecomes

\* When it returns, all that are left are suspended.
LEMMA StackedReturn ==
  ASSUME Types, TopReturns
  PROVE  Stacked'
<1> SUFFICES ASSUME NEW th \in Threads, NEW n \in DOMAIN walk'[th]
             PROVE  walk'[th][n] \in Frame /\ walk'[th][n].on
  BY DEF Stacked
<1>1. walk'[th] \in Seq(Frame)
  BY DEF TopReturns
<1> QED BY <1>1 DEF TopReturns

\* A step that leaves the timers alone
LEMMA TypesKept ==
  ASSUME Types, Stacked', walk' \in [Threads -> Seq(Frame)], current_task' \in Threads,
         UNCHANGED <<timers, timer, allocated, pending, broken>>, age' \in [Timers -> Nat]
  PROVE  Types'
  BY DEF Types, TypeOK, Stacked

\* What happens to the topmost call in each step of timer_schedule, and who
\* runs then
LEMMA TopStep ==
  ASSUME Types, timer_schedule
  PROVE  /\ InCall /\ Stacked' /\ walk' \in [Threads -> Seq(Frame)] /\ current_task' \in Threads
         /\ Visit => TopBecomes([Top EXCEPT !.pc =
               IF (timer[Top.at].elapse + WordSize - 1) % WordSize = 0 THEN "call" ELSE "next"])
         /\ Callback => TopBecomes([Top EXCEPT !.pc = "next"])
         /\ Switch => TopBecomes([Top EXCEPT !.pc = "next", !.on = TRUE])
         /\ WalkOn => IF timer[Top.at].next = NULL THEN TopReturns
                      ELSE TopBecomes([Top EXCEPT !.at = timer[Top.at].next, !.pc = "visit"])
<1>1. InCall
  BY DEF timer_schedule, Visit, Callback, Switch, WalkOn
<1>2. Top \in Frame /\ Top.at \in Timers /\ current_task \in Threads
  BY <1>1, TopIs
<1>3. timer[Top.at].next \in Timers \union {NULL}
  BY <1>2 DEF Types, TypeOK, timer_t
<1>4. ASSUME NEW x \in Frame, SetTop(<<x>>)
      PROVE  TopBecomes(x)
  BY <1>1, <1>4, SetTopOne
<1>5. ASSUME NEW x \in Frame, TopBecomes(x), current_task' \in Threads,
             x.on \/ current_task' = current_task
      PROVE  Stacked' /\ walk' \in [Threads -> Seq(Frame)] /\ current_task' \in Threads
  BY <1>5, StackedTop DEF TopBecomes
<1>v. ASSUME Visit
      PROVE  /\ TopBecomes([Top EXCEPT !.pc =
                  IF (timer[Top.at].elapse + WordSize - 1) % WordSize = 0 THEN "call" ELSE "next"])
             /\ Stacked' /\ walk' \in [Threads -> Seq(Frame)] /\ current_task' \in Threads
  <2>1. PICK x : x = [Top EXCEPT !.pc =
            IF (timer[Top.at].elapse + WordSize - 1) % WordSize = 0 THEN "call" ELSE "next"]
    OBVIOUS
  <2>2. x \in Frame
    BY <1>2, <2>1 DEF Frame
  <2>3. SetTop(<<x>>) /\ current_task' = current_task
    BY <1>v, <2>1 DEF Visit
  <2> QED BY <1>2, <1>4, <1>5, <2>1, <2>2, <2>3
<1>c. ASSUME Callback
      PROVE  /\ TopBecomes([Top EXCEPT !.pc = "next"])
             /\ Stacked' /\ walk' \in [Threads -> Seq(Frame)] /\ current_task' \in Threads
  <2>1. PICK x : x = [Top EXCEPT !.pc = "next"]
    OBVIOUS
  <2>2. x \in Frame
    BY <1>2, <2>1 DEF Frame
  <2>3. SetTop(<<x>>) /\ current_task' = current_task
    BY <1>c, <2>1 DEF Callback
  <2> QED BY <1>2, <1>4, <1>5, <2>1, <2>2, <2>3
<1>s. ASSUME Switch
      PROVE  /\ TopBecomes([Top EXCEPT !.pc = "next", !.on = TRUE])
             /\ Stacked' /\ walk' \in [Threads -> Seq(Frame)] /\ current_task' \in Threads
  <2>1. PICK x : x = [Top EXCEPT !.pc = "next", !.on = TRUE]
    OBVIOUS
  <2>2. x \in Frame /\ x.on
    BY <1>2, <2>1 DEF Frame
  <2>3. SetTop(<<x>>) /\ current_task' \in Threads
    BY <1>s, <2>1 DEF Switch
  <2> QED BY <1>2, <1>4, <1>5, <2>1, <2>2, <2>3
<1>w. ASSUME WalkOn
      PROVE  /\ IF timer[Top.at].next = NULL THEN TopReturns
                ELSE TopBecomes([Top EXCEPT !.at = timer[Top.at].next, !.pc = "visit"])
             /\ Stacked' /\ walk' \in [Threads -> Seq(Frame)] /\ current_task' \in Threads
  <2>0. current_task' = current_task
    BY <1>w DEF WalkOn
  <2>1. CASE timer[Top.at].next = NULL
    <3>1. SetTop(<< >>)
      BY <1>w, <2>1 DEF WalkOn
    <3>2. TopReturns
      BY <1>1, <3>1, SetTopNone
    <3> QED BY <1>2, <2>0, <2>1, <3>2, StackedReturn DEF TopReturns
  <2>2. CASE timer[Top.at].next # NULL
    <3>1. PICK x : x = [Top EXCEPT !.at = timer[Top.at].next, !.pc = "visit"]
      OBVIOUS
    <3>2. x \in Frame
      BY <1>2, <1>3, <2>2, <3>1 DEF Frame
    <3>3. SetTop(<<x>>)
      BY <1>w, <2>2, <3>1 DEF WalkOn
    <3> QED BY <1>2, <1>4, <1>5, <2>0, <2>2, <3>1, <3>2, <3>3
  <2> QED BY <2>1, <2>2
<1> QED BY <1>1, <1>v, <1>c, <1>s, <1>w DEF timer_schedule

\* The places and counters of the list stay in their ranges, whatever runs.
LEMMA TypesStep ==
  ASSUME Types, [Next]_vars
  PROVE  Types'
<1>1. /\ WordSize \in Nat /\ TIMER_FRE \in Nat /\ TIMER_FRE < WordSize
      /\ TIMER_FREQUENCY_MIN \in Nat /\ TIMER_FREQUENCY_MIN > 0
  BY TimersAssumption
<1>2. /\ timers \in Timers \union {NULL} /\ pending \in Timers \union {NULL}
      /\ timer \in [Timers -> timer_t] /\ allocated \subseteq Timers
      /\ current_task \in Threads /\ Stacked /\ broken \in BOOLEAN
      /\ walk \in [Threads -> Seq(Frame)] /\ age \in [Timers -> Nat]
      /\ \A t \in Timers : timer[t].interval < WordSize
  BY DEF Types, TypeOK, Stacked
\* A step that leaves the calls alone
<1>3. ASSUME UNCHANGED <<current_task, walk>>,
             timers' \in Timers \union {NULL}, pending' \in Timers \union {NULL},
             timer' \in [Timers -> timer_t], allocated' \subseteq Timers,
             broken' \in BOOLEAN, age' \in [Timers -> Nat],
             \A t \in Timers : timer'[t].interval < WordSize
      PROVE  Types'
  <2>1. Stacked'
    BY <1>2, <1>3 DEF Stacked
  <2> QED BY <1>2, <1>3, <2>1 DEF Types, TypeOK, Stacked
<1>4. CASE Tick
  <2>1. PICK x : x = [at |-> timers, pc |-> "visit", on |-> FALSE]
    OBVIOUS
  <2>2. timers \in Timers /\ TopBecomes(x)
    BY <1>4, <2>1, Entered
  <2>3. x \in Frame
    BY <2>1, <2>2 DEF Frame
  <2>4. age' \in [Timers -> Nat]
    BY <1>2, <1>4 DEF Tick
  <2>5. UNCHANGED <<timers, timer, allocated, pending, current_task, broken>>
    BY <1>4 DEF Tick
  <2>6. Stacked' /\ walk' \in [Threads -> Seq(Frame)]
    BY <1>2, <2>2, <2>3, <2>5, StackedTop DEF TopBecomes
  <2> QED BY <1>2, <2>4, <2>5, <2>6, TypesKept
<1>5. CASE timer_schedule
  <2>1. InCall /\ Stacked' /\ walk' \in [Threads -> Seq(Frame)] /\ current_task' \in Threads
    BY <1>5, TopStep
  <2>2. CASE Visit
    <3> DEFINE e == (timer[Top.at].elapse + WordSize - 1) % WordSize
    <3>1. Top.at \in Timers
      BY <2>1, TopIs
    <3>2. timer[Top.at] \in timer_t
      BY <1>2, <3>1
    <3>3. e \in 0 .. WordSize - 1
      <4>1. timer[Top.at].elapse + WordSize - 1 \in Nat
        BY <1>1, <3>2 DEF timer_t
      <4> QED BY <1>1, <4>1
    <3>4. timer' = [timer EXCEPT ![Top.at].elapse = IF e = 0 THEN timer[Top.at].interval ELSE e]
      BY <2>2 DEF Visit, Restart
    <3> HIDE DEF e
    <3>5. (IF e = 0 THEN timer[Top.at].interval ELSE e) \in 0 .. WordSize - 1
      BY <1>1, <1>2, <3>1, <3>2, <3>3 DEF timer_t
    <3>6. /\ timer' \in [Timers -> timer_t]
          /\ \A t \in Timers : timer'[t].interval = timer[t].interval
      BY <1>2, <3>1, <3>2, <3>4, <3>5 DEF timer_t
    <3>7. age' \in [Timers -> Nat] /\ UNCHANGED <<timers, allocated, pending, broken>>
      BY <1>2, <2>2, <3>1 DEF Visit
    <3> QED BY <1>2, <2>1, <3>6, <3>7 DEF Types, TypeOK, Stacked
  <2>3. CASE Callback \/ Switch \/ WalkOn
    <3>1. UNCHANGED <<timers, timer, allocated, pending, broken, age>>
      BY <2>3 DEF Callback, Switch, WalkOn
    <3> QED BY <1>2, <2>1, <3>1, TypesKept
  <2> QED BY <1>5, <2>2, <2>3 DEF timer_schedule
<1>6. CASE Yield
  <2>1. /\ walk[current_task] = << >> /\ current_task' \in Threads
        /\ UNCHANGED <<timers, timer, allocated, pending, walk, age, broken>>
    BY <1>6 DEF Yield, InCall
  <2>2. Stacked'
    BY <1>2, <2>1 DEF Stacked
  <2> QED BY <1>2, <2>1, <2>2, TypesKept
<1>7. ASSUME NEW f \in Frequencies, RegisterBegin(f)
      PROVE  Types'
  <2>1. PICK t \in Timers \ allocated :
          /\ timer' = [timer EXCEPT ![t] =
                [callback_func |-> IF timers = NULL THEN "task_schedule" ELSE "swap_buffer",
                 interval |-> Interval(f), elapse |-> Interval(f), next |-> timers]]
          /\ allocated' = allocated \union {t} /\ pending' = t
    BY <1>7 DEF RegisterBegin
  <2>2. /\ UNCHANGED <<timers, current_task, walk, age, broken>>
        /\ TIMER_FREQUENCY_MIN <= f /\ f \in Nat
    BY <1>7, TimersAssumption DEF RegisterBegin
  <2>3. PICK i : i = Interval(f)
    OBVIOUS
  <2>4. i \in Nat /\ i < WordSize
    <3>1. f > 0
      BY <1>1, <2>2
    <3>2. TIMER_FRE \div f \in Nat /\ TIMER_FRE \div f <= TIMER_FRE
      BY <1>1, <2>2, <3>1
    <3> QED BY <1>1, <2>3, <3>2 DEF Interval
  <2>5. [callback_func |-> IF timers = NULL THEN "task_schedule" ELSE "swap_buffer",
         interval |-> i, elapse |-> i, next |-> timers] \in timer_t
    BY <1>1, <1>2, <2>4 DEF timer_t
  <2>6. timer' \in [Timers -> timer_t] /\ \A u \in Timers : timer'[u].interval < WordSize
    BY <1>2, <2>1, <2>3, <2>4, <2>5
  <2> QED BY <1>2, <1>3, <2>1, <2>2, <2>6
<1>8. CASE RegisterEnd
  <2>1. age' \in [Timers -> Nat]
    BY <1>2, <1>8 DEF RegisterEnd
  <2> QED BY <1>2, <1>3, <1>8, <2>1 DEF RegisterEnd
<1>9. ASSUME NEW t \in Timers, Unregister(t)
      PROVE  Types'
  <2>1. age' \in [Timers -> Nat]
    BY <1>2, <1>9 DEF Unregister
  <2>2. PICK p : p = Prev(t)
    OBVIOUS
  <2>3. timer' = [timer EXCEPT ![p].next = timer[t].next]
    BY <1>9, <2>2 DEF Unregister
  <2>4. timer[t].next \in Timers \union {NULL}
    BY <1>2 DEF timer_t
  <2>5. /\ timer' \in [Timers -> timer_t]
        /\ \A u \in Timers : timer'[u].interval = timer[u].interval
    <3>1. CASE p \in Timers
      BY <1>2, <2>3, <2>4, <3>1 DEF timer_t
    <3>2. CASE p \notin Timers
      BY <1>2, <2>3, <3>2
    <3> QED BY <3>1, <3>2
  <2>6. /\ broken' \in BOOLEAN /\ allocated' \subseteq Timers
        /\ UNCHANGED <<timers, pending, current_task, walk>>
    BY <1>2, <1>9 DEF Unregister
  <2> QED BY <1>2, <1>3, <2>1, <2>5, <2>6
<1>10. CASE UNCHANGED vars
  BY <1>2, <1>3, <1>10 DEF vars
<1> QED BY <1>4, <1>5, <1>6, <1>7, <1>8, <1>9, <1>10 DEF Next

----------------------------------------------------------------------------
(* The list stays whole and every timer counts every tick                  *)

Good == Whole /\ Placed /\ Counted

\* Nobody changes where the timers are or which there are.
SameList ==
  /\ UNCHANGED <<timers, allocated, pending>>
  /\ \A t \in Timers : /\ timer'[t].next = timer[t].next
                       /\ timer'[t].callback_func = timer[t].callback_func
                       /\ timer'[t].interval = timer[t].interval
  /\ pending # NULL => timer'[pending].elapse = timer[pending].elapse

\* Then the list stays whole, ...
LEMMA WholeKept ==
  ASSUME Types, Whole, SameList
  PROVE  Whole'
<1>1. PICK S : S = Registered
  OBVIOUS
<1>2. S \subseteq Timers /\ Registered' = S /\ pending \in Timers \union {NULL}
  BY <1>1 DEF Types, TypeOK, Registered, SameList
<1>3. PICK tm2 : tm2 = timer'
  OBVIOUS
<1>4. \A x \in S : tm2[x].next = timer[x].next
  BY <1>2, <1>3 DEF SameList
<1>5. IsList(timers, tm2, S)
  BY <1>1, <1>4, ListFrame DEF Whole
<1>6. IsList(timers', timer', Registered')
  BY <1>2, <1>3, <1>5 DEF SameList
<1>7. pending' # NULL => /\ pending' \in allocated' /\ timer'[pending'].next = timers'
                         /\ timer'[pending'].elapse = timer'[pending'].interval
  BY <1>2 DEF SameList, Whole
<1>8. \A t \in Timers : timer'[t].callback_func = "task_schedule" => timer'[t].next = NULL
  BY DEF SameList, Whole
<1> QED BY <1>6, <1>7, <1>8 DEF Whole

\* ... the calls stay in their places when the topmost one changes, ...
LEMMA PlacedTop ==
  ASSUME Types, Placed, SameList, NEW x, TopBecomes(x), x.at \in Registered,
         x.on => x.pc = "next" /\ timer[x.at].next = NULL
  PROVE  Placed'
<1>1. Registered' = Registered /\ Registered \subseteq Timers
  BY DEF Types, TypeOK, Registered, SameList
<1>2. \A t \in Registered : timer'[t].next = timer[t].next
  BY <1>1 DEF SameList
<1> SUFFICES ASSUME NEW th \in Threads, NEW n \in DOMAIN walk'[th]
             PROVE  /\ walk'[th][n].at \in Registered
                    /\ walk'[th][n].on => /\ walk'[th][n].pc = "next"
                                          /\ timer'[walk'[th][n].at].next = NULL
  BY <1>1 DEF Placed
<1>3. CASE walk'[th][n] = x
  BY <1>2, <1>3
<1>4. CASE n \in DOMAIN walk[th] /\ walk'[th][n] = walk[th][n]
  BY <1>2, <1>4 DEF Placed
<1> QED BY <1>3, <1>4 DEF TopBecomes

\* ... and when it returns.
LEMMA PlacedReturn ==
  ASSUME Types, Placed, SameList, TopReturns
  PROVE  Placed'
<1>1. Registered' = Registered /\ Registered \subseteq Timers
  BY DEF Types, TypeOK, Registered, SameList
<1>2. \A t \in Registered : timer'[t].next = timer[t].next
  BY <1>1 DEF SameList
<1> SUFFICES ASSUME NEW th \in Threads, NEW n \in DOMAIN walk'[th]
             PROVE  /\ walk'[th][n].at \in Registered
                    /\ walk'[th][n].on => /\ walk'[th][n].pc = "next"
                                          /\ timer'[walk'[th][n].at].next = NULL
  BY <1>1 DEF Placed
<1>3. n \in DOMAIN walk[th] /\ walk'[th][n] = walk[th][n]
  BY DEF TopReturns
<1> QED BY <1>2, <1>3 DEF Placed

\* The thread goes on in the call x.
LEMMA RunsOn ==
  ASSUME NEW x, TopBecomes(x), current_task' = current_task
  PROVE  InCall' /\ Top' = x /\ (InterruptsEnabled' <=> x.on)
<1>1. InCall' /\ Top' = x
  BY DEF InCall, Top, TopBecomes
<1> QED BY <1>1 DEF InterruptsEnabled

\* Where all the calls are suspended, interrupts are on.
LEMMA AllSuspended ==
  ASSUME Types', \A n \in DOMAIN walk'[current_task'] : walk'[current_task'][n].on
  PROVE  InterruptsEnabled'
<1>1. PICK w : w = walk'[current_task']
  OBVIOUS
<1>2. w \in Seq(Frame)
  BY <1>1 DEF Types, TypeOK
<1>3. w # << >> => Len(w) \in DOMAIN w
  BY <1>2
<1>4. w # << >> => w[Len(w)].on
  BY <1>1, <1>3
<1> QED BY <1>1, <1>4 DEF InterruptsEnabled, InCall, Top, Last

\* With interrupts on every timer has counted every tick.
LEMMA AllExact ==
  ASSUME InterruptsEnabled, Counted
  PROVE  \A t \in Registered : Exact(timer, age, t)
  BY DEF Counted, Uncounted

\* A tick starts a call in front of the whole list: no timer has counted it.
LEMMA TickGood ==
  ASSUME Types, Types', Good, Tick
  PROVE  Good'
<1>1. PICK x : x = [at |-> timers, pc |-> "visit", on |-> FALSE]
  OBVIOUS
<1>2. timers \in Timers /\ TopBecomes(x)
  BY <1>1, Entered
<1>3. UNCHANGED <<timers, timer, allocated, pending, current_task, broken>> /\ SameList
  BY DEF Tick, SameList
<1>4. IsList(timers, timer, Registered) /\ Registered \subseteq Timers /\ timers \in Registered
  BY <1>2, ListEmpty, TimersAssumption DEF Good, Whole
<1>5. x.at = timers /\ x.pc = "visit" /\ ~x.on
  BY <1>1
<1>6. Placed'
  BY <1>2, <1>3, <1>4, <1>5, PlacedTop DEF Good
<1>7. InCall' /\ Top' = x /\ ~InterruptsEnabled'
  BY <1>2, <1>3, <1>5, RunsOn
<1>8. Ahead' = timers /\ Registered' = Registered
  BY <1>3, <1>5, <1>7 DEF Ahead, Registered
<1>9. ASSUME NEW t \in Registered
      PROVE  Late(timer', age', t)
  <2>1. Exact(timer, age, t)
    BY AllExact DEF Good, Tick, Acknowledged
  <2>2. Listed = Registered
    BY <1>4, ListedIs
  <2>3. age'[t] = age[t] + 1
    BY <1>4, <2>2 DEF Tick
  <2>4. age[t] \in Nat /\ timer[t] \in timer_t
    BY <1>4 DEF Types, TypeOK
  <2> QED BY <1>3, <2>1, <2>3, <2>4 DEF Exact, Late, timer_t
<1>10. Uncounted(Registered)'
  BY <1>3, <1>4, <1>7, <1>8, <1>9 DEF Uncounted
<1>11. Counted'
  BY <1>10 DEF Counted
<1> QED BY <1>3, <1>6, <1>11, WholeKept DEF Good

\* A call that is not suspended keeps interrupts off.
LEMMA NotSuspended ==
  ASSUME Types, Good, InCall, Top.pc # "next"
  PROVE  ~Top.on /\ ~InterruptsEnabled /\ Top.at \in Registered /\ Top.at \in Timers
<1>1. /\ Len(walk[current_task]) \in DOMAIN walk[current_task] /\ current_task \in Threads
      /\ walk[current_task][Len(walk[current_task])] = Top /\ Top.at \in Timers
  BY TopIs
<1>2. Top.at \in Registered /\ (Top.on => Top.pc = "next")
  BY <1>1 DEF Good, Placed
<1> QED BY <1>1, <1>2 DEF InterruptsEnabled

\* The timer that is counted down is the first of those before the call.
LEMMA VisitGood ==
  ASSUME Types, Types', Good, Visit
  PROVE  Good'
<1>1. InCall /\ Top.pc = "visit"
  BY DEF Visit
<1>2. ~Top.on /\ ~InterruptsEnabled /\ Top.at \in Registered /\ Top.at \in Timers
  BY <1>1, NotSuspended
<1>a. PICK a : a = Top.at
  OBVIOUS
<1>e. PICK e : e = (timer[a].elapse + WordSize - 1) % WordSize
  OBVIOUS
<1>3. /\ timer' = [timer EXCEPT ![a].elapse = IF e = 0 THEN timer[a].interval ELSE e]
      /\ age' = (IF e = 0 THEN [age EXCEPT ![a] = 0] ELSE age)
      /\ UNCHANGED <<timers, allocated, pending, current_task, broken>>
  BY <1>a, <1>e DEF Visit, Restart
<1>4. timer \in [Timers -> timer_t] /\ age \in [Timers -> Nat] /\ Registered \subseteq Timers
  BY DEF Types, TypeOK, Registered
<1>5. a \in Registered /\ a \in Timers /\ a # pending
  BY <1>2, <1>a DEF Registered
<1>6. /\ \A t \in Timers : timer'[t].next = timer[t].next /\ timer'[t].interval = timer[t].interval
                           /\ timer'[t].callback_func = timer[t].callback_func
      /\ \A t \in Timers : t # a => timer'[t].elapse = timer[t].elapse /\ age'[t] = age[t]
      /\ timer'[a].elapse = IF e = 0 THEN timer[a].interval ELSE e
      /\ age'[a] = IF e = 0 THEN 0 ELSE age[a]
  BY <1>3, <1>4, <1>5 DEF timer_t
<1>7. SameList
  <2>1. pending \in Timers \union {NULL}
    BY DEF Types, TypeOK
  <2> QED BY <1>3, <1>5, <1>6, <2>1 DEF SameList
<1>x. PICK x : x = [Top EXCEPT !.pc = IF e = 0 THEN "call" ELSE "next"]
  OBVIOUS
<1>8. TopBecomes(x)
  BY <1>a, <1>e, <1>x, TopStep DEF timer_schedule
<1>9. x.at = a /\ x.pc # "visit" /\ ~x.on
  <2>1. Top \in Frame
    BY <1>1, TopIs
  <2> QED BY <1>2, <1>a, <1>x, <2>1 DEF Frame
<1>10. Placed'
  BY <1>5, <1>7, <1>8, <1>9, PlacedTop DEF Good
<1>11. InCall' /\ Top' = x /\ ~InterruptsEnabled'
  BY <1>3, <1>8, <1>9, RunsOn
<1>12. Ahead' = timer[a].next /\ Registered' = Registered
  BY <1>3, <1>5, <1>6, <1>9, <1>11 DEF Ahead, Registered
<1>13. PICK R : Uncounted(R)
  BY DEF Good, Counted
<1>14. IsList(a, timer, R) /\ R \subseteq Registered
  BY <1>1, <1>2, <1>13, <1>a DEF Uncounted, Ahead
<1>15. a \in R
  BY <1>5, <1>14, ListEmpty, TimersAssumption
<1>16. PICK tm2 : tm2 = timer'
  OBVIOUS
<1>17. \A t \in R \ {a} : tm2[t].next = timer[t].next
  BY <1>4, <1>6, <1>14, <1>16
<1>18. IsList(timer[a].next, tm2, R \ {a})
  BY <1>5, <1>14, <1>17, ListPop
<1>19. Exact(timer', age', a)
  <2>1. Late(timer, age, a)
    BY <1>5, <1>13, <1>15 DEF Uncounted
  <2>2. timer[a] \in timer_t /\ age[a] \in Nat /\ timer[a].interval < WordSize /\ WordSize \in Nat
    BY <1>4, <1>5, TimersAssumption DEF Types
  <2>3. timer[a].interval > 0 => e = timer[a].elapse - 1
    <3> SUFFICES ASSUME timer[a].interval > 0
                 PROVE  e = timer[a].elapse - 1
      OBVIOUS
    <3>1. PICK l : l = timer[a].elapse
      OBVIOUS
    <3>2. l \in Nat /\ l > 0 /\ l < WordSize
      BY <2>1, <2>2, <3>1 DEF Late, timer_t
    <3>3. (l + WordSize - 1) % WordSize = l - 1
      <4>1. l - 1 \in 0 .. WordSize - 1 /\ l + WordSize - 1 = (l - 1) + WordSize
        BY <2>2, <3>2
      <4>2. \A w \in Nat, k \in Nat : k < w => (k + w) % w = k
        OBVIOUS
      <4> QED BY <2>2, <3>2, <4>1, <4>2
    <3> QED BY <1>e, <3>1, <3>3
  <2>4. timer'[a].interval = timer[a].interval
    BY <1>5, <1>6
  <2> QED BY <1>6, <2>1, <2>2, <2>3, <2>4 DEF Late, Exact, timer_t
<1>20. ASSUME NEW t \in Registered, t # a
       PROVE  IF t \in R THEN Late(timer', age', t) ELSE Exact(timer', age', t)
  <2>1. IF t \in R THEN Late(timer, age, t) ELSE Exact(timer, age, t)
    BY <1>13 DEF Uncounted
  <2>2. /\ timer'[t].interval = timer[t].interval /\ timer'[t].elapse = timer[t].elapse
        /\ age'[t] = age[t]
    BY <1>4, <1>6, <1>20
  <2> QED BY <2>1, <2>2 DEF Late, Exact
<1>21. PICK Q : Q = R \ {a}
  OBVIOUS
<1>22. Uncounted(Q)'
  BY <1>11, <1>12, <1>14, <1>16, <1>18, <1>19, <1>20, <1>21 DEF Uncounted
<1>23. Counted'
  BY <1>22 DEF Counted
<1> QED BY <1>7, <1>10, <1>23, WholeKept DEF Good

\* A callback changes nothing of the list.
LEMMA CallbackGood ==
  ASSUME Types, Types', Good, Callback
  PROVE  Good'
<1>1. InCall /\ Top.pc = "call" /\ SameList
      /\ UNCHANGED <<timers, timer, allocated, pending, current_task, age, broken>>
  BY DEF Callback, SameList
<1>2. ~Top.on /\ ~InterruptsEnabled /\ Top.at \in Registered /\ Top.at \in Timers
  BY <1>1, NotSuspended
<1>x. PICK x : x = [Top EXCEPT !.pc = "next"]
  OBVIOUS
<1>3. TopBecomes(x)
  BY <1>x, TopStep DEF timer_schedule
<1>4. x.at = Top.at /\ x.pc = "next" /\ ~x.on
  <2>1. Top \in Frame
    BY <1>1, TopIs
  <2> QED BY <1>2, <1>x, <2>1 DEF Frame
<1>5. Placed'
  BY <1>1, <1>2, <1>3, <1>4, PlacedTop DEF Good
<1>6. InCall' /\ Top' = x /\ ~InterruptsEnabled'
  BY <1>1, <1>3, <1>4, RunsOn
<1>7. Ahead' = Ahead /\ Registered' = Registered
  BY <1>1, <1>4, <1>6 DEF Ahead, Registered
<1>8. PICK R : Uncounted(R)
  BY DEF Good, Counted
<1>9. Uncounted(R)'
  BY <1>1, <1>2, <1>6, <1>7, <1>8 DEF Uncounted
<1>10. Counted'
  BY <1>9 DEF Counted
<1> QED BY <1>1, <1>5, <1>10, WholeKept DEF Good

\* task_schedule is the last of the list: no timer is left behind when the
\* call is suspended.
LEMMA SwitchGood ==
  ASSUME Types, Types', Good, Switch
  PROVE  Good'
<1>1. /\ InCall /\ Top.pc = "call" /\ timer[Top.at].callback_func = "task_schedule" /\ SameList
      /\ UNCHANGED <<timers, timer, allocated, pending, age, broken>> /\ current_task' \in Threads
  BY DEF Switch, SameList
<1>2. ~Top.on /\ ~InterruptsEnabled /\ Top.at \in Registered /\ Top.at \in Timers
  BY <1>1, NotSuspended
<1>3. timer[Top.at].next = NULL
  BY <1>1, <1>2 DEF Good, Whole
<1>x. PICK x : x = [Top EXCEPT !.pc = "next", !.on = TRUE]
  OBVIOUS
<1>4. TopBecomes(x)
  BY <1>x, TopStep DEF timer_schedule
<1>5. x.at = Top.at /\ x.pc = "next" /\ x.on
  <2>1. Top \in Frame
    BY <1>1, TopIs
  <2> QED BY <1>2, <1>x, <2>1 DEF Frame
<1>6. Placed'
  BY <1>1, <1>2, <1>3, <1>4, <1>5, PlacedTop DEF Good
<1>7. InterruptsEnabled'
  <2>1. \A n \in DOMAIN walk'[current_task'] : walk'[current_task'][n].on
    BY <1>1, <1>4, <1>5 DEF TopBecomes
  <2> QED BY <2>1, AllSuspended
<1>8. PICK R : Uncounted(R)
  BY DEF Good, Counted
<1>9. IsList(NULL, timer, R)
  BY <1>1, <1>2, <1>3, <1>8 DEF Uncounted, Ahead
<1>10. R = {}
  BY <1>9, ListEmpty
<1>11. Uncounted({})'
  BY <1>1, <1>7, <1>8, <1>10 DEF Uncounted, Registered
<1>12. Counted'
  BY <1>11 DEF Counted
<1> QED BY <1>1, <1>6, <1>12, WholeKept DEF Good

\* The call goes on to the next timer, or returns at the end of the list, when
\* no timer is left that has not counted the tick.
LEMMA WalkOnGood ==
  ASSUME Types, Types', Good, WalkOn
  PROVE  Good'
<1>1. /\ InCall /\ Top.pc = "next" /\ SameList
      /\ UNCHANGED <<timers, timer, allocated, pending, current_task, age, broken>>
  BY DEF WalkOn, SameList
<1>2. /\ Top \in Frame /\ Top.at \in Timers /\ Top.at \in Registered
      /\ Top.on => timer[Top.at].next = NULL
  <2>1. /\ Len(walk[current_task]) \in DOMAIN walk[current_task] /\ current_task \in Threads
        /\ walk[current_task][Len(walk[current_task])] = Top /\ Top.at \in Timers /\ Top \in Frame
    BY <1>1, TopIs
  <2> QED BY <2>1 DEF Good, Placed
<1>3. PICK R : Uncounted(R)
  BY DEF Good, Counted
<1>4. /\ InterruptsEnabled <=> Top.on
      /\ ~Top.on => IsList(timer[Top.at].next, timer, R)
      /\ Top.on => R = {}
      /\ R \subseteq Registered
  BY <1>1, <1>3 DEF Uncounted, InterruptsEnabled, Ahead
<1>5. WalkOn => IF timer[Top.at].next = NULL THEN TopReturns
                ELSE TopBecomes([Top EXCEPT !.at = timer[Top.at].next, !.pc = "visit"])
  BY TopStep DEF timer_schedule
<1>6. CASE timer[Top.at].next = NULL
  <2>1. TopReturns
    BY <1>5, <1>6
  <2>2. R = {}
    BY <1>4, <1>6, ListEmpty
  <2>3. InterruptsEnabled'
    <3>1. current_task' \in Threads
      BY DEF Types, TypeOK
    <3>2. \A n \in DOMAIN walk'[current_task'] : walk'[current_task'][n].on
      BY <2>1, <3>1 DEF TopReturns
    <3> QED BY <3>2, AllSuspended
  <2>4. Uncounted({})'
    BY <1>1, <1>3, <2>2, <2>3 DEF Uncounted, Registered
  <2>5. Placed'
    BY <1>1, <2>1, PlacedReturn DEF Good
  <2>6. Counted'
    BY <2>4 DEF Counted
  <2> QED BY <1>1, <2>5, <2>6, WholeKept DEF Good
<1>7. CASE timer[Top.at].next # NULL
  <2>x. PICK x : x = [Top EXCEPT !.at = timer[Top.at].next, !.pc = "visit"]
    OBVIOUS
  <2>1. TopBecomes(x)
    BY <1>5, <1>7, <2>x
  <2>2. x.at = timer[Top.at].next /\ x.pc = "visit" /\ ~x.on
    BY <1>2, <1>7, <2>x DEF Frame
  <2>3. x.at \in Registered
    BY <1>2, <1>4, <1>7, <2>2, ListEmpty
  <2>4. Placed'
    BY <1>1, <2>1, <2>2, <2>3, PlacedTop DEF Good
  <2>5. InCall' /\ Top' = x /\ ~InterruptsEnabled'
    BY <1>1, <2>1, <2>2, RunsOn
  <2>6. Ahead' = timer[Top.at].next /\ Registered' = Registered
    BY <1>1, <2>2, <2>5 DEF Ahead, Registered
  <2>7. Uncounted(R)'
    BY <1>1, <1>2, <1>3, <1>4, <1>7, <2>5, <2>6 DEF Uncounted
  <2>8. Counted'
    BY <2>7 DEF Counted
  <2> QED BY <1>1, <2>4, <2>8, WholeKept DEF Good
<1> QED BY <1>6, <1>7

\* A step outside of any tick: interrupts are on before it and behind it.
LEMMA YieldGood ==
  ASSUME Types, Types', Good, Yield
  PROVE  Good'
<1>1. /\ ~InCall /\ UNCHANGED <<timers, timer, allocated, pending, walk, age, broken>>
      /\ current_task' \in Threads \ {current_task} /\ SameList
  BY DEF Yield, SameList
<1>2. \A t \in Registered : Exact(timer, age, t)
  BY <1>1, AllExact DEF Good, InterruptsEnabled
<1>3. InterruptsEnabled'
  <2>1. \A n \in DOMAIN walk'[current_task'] : walk'[current_task'][n].on
    BY <1>1 DEF Types, TypeOK
  <2> QED BY <2>1, AllSuspended
<1>4. Uncounted({})'
  BY <1>1, <1>2, <1>3 DEF Uncounted, Registered
<1>5. Placed' /\ Counted'
  BY <1>1, <1>4 DEF Good, Placed, Counted, Registered
<1> QED BY <1>1, <1>5, WholeKept DEF Good

\* The new timer is on no list, and no call is at it.
LEMMA RegisterBeginGood ==
  ASSUME Types, Types', Good, NEW f \in Frequencies, RegisterBegin(f)
  PROVE  Good'
<1>1. /\ ~InCall /\ pending = NULL /\ UNCHANGED <<timers, current_task, walk, age, broken>>
  BY DEF RegisterBegin, ClientRuns
<1>2. PICK t \in Timers \ allocated :
          /\ timer' = [timer EXCEPT ![t] =
                [callback_func |-> IF timers = NULL THEN "task_schedule" ELSE "swap_buffer",
                 interval |-> Interval(f), elapse |-> Interval(f), next |-> timers]]
          /\ allocated' = allocated \union {t} /\ pending' = t
  BY DEF RegisterBegin
<1>3. timer \in [Timers -> timer_t] /\ allocated \subseteq Timers /\ NULL \notin Timers
  BY TimersAssumption DEF Types, TypeOK
<1>4. Registered = allocated /\ Registered' = allocated
  BY <1>1, <1>2, <1>3 DEF Registered
<1>5. \A u \in Timers : u # t => timer'[u] = timer[u]
  BY <1>2, <1>3
<1>6. /\ timer'[t].next = timers /\ timer'[t].elapse = timer'[t].interval
      /\ timer'[t].callback_func = "task_schedule" => timers = NULL
  BY <1>2, <1>3
<1>7. Whole'
  <2>1. PICK tm2 : tm2 = timer'
    OBVIOUS
  <2>2. \A x \in allocated : tm2[x].next = timer[x].next
    BY <1>2, <1>3, <1>5, <2>1
  <2>3. IsList(timers, tm2, allocated)
    BY <1>4, <2>2, ListFrame DEF Good, Whole
  <2>4. \A u \in Timers : timer'[u].callback_func = "task_schedule" => timer'[u].next = NULL
    BY <1>5, <1>6 DEF Good, Whole
  <2> QED BY <1>1, <1>2, <1>4, <1>6, <2>1, <2>3, <2>4 DEF Whole
<1>8. Placed'
  BY <1>1, <1>2, <1>3, <1>4, <1>5 DEF Good, Placed
<1>9. InterruptsEnabled /\ InterruptsEnabled'
  BY <1>1 DEF InterruptsEnabled, InCall
<1>10. \A u \in Registered : Exact(timer', age', u)
  <2>1. \A u \in Registered : Exact(timer, age, u)
    BY <1>9, AllExact DEF Good
  <2> QED BY <1>1, <1>2, <1>3, <1>4, <1>5, <2>1 DEF Exact
<1>11. Uncounted({})'
  BY <1>4, <1>9, <1>10 DEF Uncounted
<1>12. Counted'
  BY <1>11 DEF Counted
<1> QED BY <1>7, <1>8, <1>12 DEF Good

\* The timer that is linked starts with nothing to count.
LEMMA RegisterEndGood ==
  ASSUME Types, Types', Good, RegisterEnd
  PROVE  Good'
<1>1. /\ ~InCall /\ pending # NULL /\ timers' = pending /\ pending' = NULL
      /\ age' = [age EXCEPT ![pending] = 0]
      /\ UNCHANGED <<timer, allocated, current_task, walk, broken>>
  BY DEF RegisterEnd, ClientRuns
<1>2. /\ timer \in [Timers -> timer_t] /\ allocated \subseteq Timers /\ NULL \notin Timers
      /\ pending \in Timers /\ age \in [Timers -> Nat]
  BY <1>1, TimersAssumption DEF Types, TypeOK
<1>3. /\ pending \in allocated /\ timer[pending].next = timers
      /\ timer[pending].elapse = timer[pending].interval
      /\ IsList(timers, timer, Registered)
  BY <1>1 DEF Good, Whole
<1>4. Registered' = Registered \union {pending} /\ pending \in Timers \ Registered
  BY <1>1, <1>2, <1>3 DEF Registered
<1>5. IsList(pending, timer, Registered \union {pending})
  <2>1. PICK S : S = Registered
    OBVIOUS
  <2>2. PICK p \in Timers \ S : p = pending
    BY <1>4, <2>1
  <2>3. IsList(p, timer, S \union {p})
    BY <1>3, <2>1, <2>2, ListPush
  <2> QED BY <2>1, <2>2, <2>3
<1>6. Whole'
  BY <1>1, <1>4, <1>5 DEF Good, Whole
<1>7. Placed'
  BY <1>1, <1>4 DEF Good, Placed
<1>8. InterruptsEnabled /\ InterruptsEnabled'
  BY <1>1 DEF InterruptsEnabled, InCall
<1>9. ASSUME NEW u \in Registered'
      PROVE  Exact(timer', age', u)
  <2>1. CASE u = pending
    <3>1. age'[u] = 0
      BY <1>1, <1>2, <2>1
    <3>2. timer[u].interval \in Nat
      BY <1>2, <2>1 DEF timer_t
    <3> QED BY <1>1, <1>3, <2>1, <3>1, <3>2 DEF Exact
  <2>2. CASE u # pending
    <3>1. u \in Registered /\ u \in Timers
      BY <1>2, <1>4, <1>9, <2>2 DEF Registered
    <3>2. Exact(timer, age, u)
      BY <1>8, <3>1, AllExact DEF Good
    <3>3. age'[u] = age[u]
      BY <1>1, <1>2, <2>2, <3>1
    <3> QED BY <1>1, <3>2, <3>3 DEF Exact
  <2> QED BY <2>1, <2>2
<1>10. Uncounted({})'
  BY <1>8, <1>9 DEF Uncounted
<1>11. Counted'
  BY <1>10 DEF Counted
<1> QED BY <1>6, <1>7, <1>11 DEF Good

\* The timer that goes is not the first, and no call is at it.
LEMMA UnregisterGood ==
  ASSUME Types, Types', Good, NEW t \in Timers, Unregister(t), ~broken'
  PROVE  Good'
<1>1. /\ ~InCall /\ pending = NULL /\ t \in Listed \intersect allocated
      /\ allocated' = allocated \ {t} /\ age' = [age EXCEPT ![t] = 0]
      /\ UNCHANGED <<timers, pending, current_task, walk>>
      /\ t # timers /\ \A th \in Threads : \A n \in DOMAIN walk[th] : walk[th][n].at # t
  BY DEF Unregister, ClientRuns
<1>2. /\ timer \in [Timers -> timer_t] /\ allocated \subseteq Timers /\ NULL \notin Timers
      /\ age \in [Timers -> Nat]
  BY TimersAssumption DEF Types, TypeOK
<1>3. Registered = allocated /\ Registered' = allocated \ {t}
  BY <1>1, <1>2 DEF Registered
<1>4. IsList(timers, timer, allocated) /\ Listed = allocated
  BY <1>3, ListedIs DEF Good, Whole
<1>5. PICK p : p = Prev(t)
  OBVIOUS
<1>6. p \in allocated /\ p \in Timers /\ timer[p].next = t
  <2>1. \E q \in allocated : timer[q].next = t
    BY <1>1, <1>4, ListPrev
  <2>2. p = CHOOSE q \in allocated : timer[q].next = t
    BY <1>1, <1>4, <1>5 DEF Prev
  <2> QED BY <1>2, <2>1, <2>2
<1>7. timer' = [timer EXCEPT ![p].next = timer[t].next]
  BY <1>5 DEF Unregister
<1>8. /\ timer'[p].next = timer[t].next
      /\ \A u \in Timers : u # p => timer'[u].next = timer[u].next
      /\ \A u \in Timers : /\ timer'[u].callback_func = timer[u].callback_func
                           /\ timer'[u].interval = timer[u].interval
                           /\ timer'[u].elapse = timer[u].elapse
  BY <1>2, <1>6, <1>7 DEF timer_t
<1>9. Whole'
  <2>1. PICK tm2 : tm2 = timer'
    OBVIOUS
  <2>2. tm2[p].next = timer[t].next /\ \A x \in allocated \ {t, p} : tm2[x].next = timer[x].next
    BY <1>2, <1>8, <2>1
  <2>3. IsList(timers, tm2, allocated \ {t})
    BY <1>1, <1>4, <1>6, <2>2, ListUnlink
  <2>4. \A u \in Timers : timer'[u].callback_func = "task_schedule" => timer'[u].next = NULL
    BY <1>2, <1>6, <1>8 DEF Good, Whole
  <2> QED BY <1>1, <1>3, <2>1, <2>3, <2>4 DEF Whole
<1>10. Placed'
  <2> SUFFICES ASSUME NEW th \in Threads, NEW n \in DOMAIN walk[th]
               PROVE  /\ walk[th][n].at \in Registered'
                      /\ walk[th][n].on => /\ walk[th][n].pc = "next"
                                           /\ timer'[walk[th][n].at].next = NULL
    BY <1>1 DEF Placed
  <2>1. /\ walk[th][n].at \in allocated /\ walk[th][n].at # t
        /\ walk[th][n].on => walk[th][n].pc = "next" /\ timer[walk[th][n].at].next = NULL
    BY <1>1, <1>3 DEF Good, Placed
  <2> QED BY <1>2, <1>3, <1>6, <1>8, <2>1
<1>11. InterruptsEnabled /\ InterruptsEnabled'
  BY <1>1 DEF InterruptsEnabled, InCall
<1>12. \A u \in Registered' : Exact(timer', age', u)
  <2>1. \A u \in Registered : Exact(timer, age, u)
    BY <1>11, AllExact DEF Good
  <2>2. \A u \in Registered' : u \in Timers /\ age'[u] = age[u] /\ u \in Registered
    BY <1>1, <1>2, <1>3
  <2> QED BY <1>8, <2>1, <2>2 DEF Exact
<1>13. Uncounted({})'
  BY <1>11, <1>12 DEF Uncounted
<1>14. Counted'
  BY <1>13 DEF Counted
<1> QED BY <1>9, <1>10, <1>14 DEF Good

----------------------------------------------------------------------------
(* The theorems                                                            *)

\* At the start there are no timers and no calls.
LEMMA InitIInv ==
  ASSUME Init
  PROVE  IInv
<1>1. WordSize \in Nat /\ 0 < WordSize /\ Client \in Threads
  BY TimersAssumption
<1>2. Types
  <2>1. timer \in [Timers -> timer_t] /\ \A t \in Timers : timer[t].interval < WordSize
    BY <1>1 DEF Init, timer_t
  <2>2. walk \in [Threads -> Seq(Frame)] /\ \A th \in Threads : walk[th] = << >>
    BY DEF Init
  <2>3. \A th \in Threads : DOMAIN walk[th] = {}
    BY <2>2
  <2>4. age \in [Timers -> Nat] /\ broken \in BOOLEAN /\ current_task \in Threads
    BY <1>1 DEF Init
  <2>5. /\ timers \in Timers \union {NULL} /\ pending \in Timers \union {NULL}
        /\ allocated \subseteq Timers
    BY DEF Init
  <2>6. TypeOK
    BY <2>1, <2>3, <2>4, <2>5 DEF TypeOK
  <2> QED BY <2>1, <2>2, <2>4, <2>6 DEF Types
<1>3. Registered = {} /\ timers = NULL /\ pending = NULL
  BY DEF Init, Registered
<1>4. Whole
  BY <1>3, EmptyList DEF Init, Whole
<1>5. Placed
  BY DEF Init, Placed
<1>6. InterruptsEnabled
  BY <1>1 DEF Init, InterruptsEnabled, InCall
<1>7. Uncounted({})
  BY <1>3, <1>6 DEF Uncounted
<1> QED BY <1>2, <1>4, <1>5, <1>7 DEF IInv, Counted

\* Every step keeps the invariant.
LEMMA NextIInv ==
  ASSUME IInv, [Next]_vars
  PROVE  IInv'
<1>1. Types /\ Types'
  BY TypesStep DEF IInv
<1> SUFFICES ASSUME ~broken'
             PROVE  Good'
  BY <1>1 DEF IInv, Good
<1>2. ~broken
  BY DEF Next, Tick, timer_schedule, Visit, Callback, Switch, WalkOn, Yield, RegisterBegin,
         RegisterEnd, Unregister, vars
<1>3. Good
  BY <1>2 DEF IInv, Good
<1>4. CASE Tick
  BY <1>1, <1>3, <1>4, TickGood
<1>5. CASE Visit
  BY <1>1, <1>3, <1>5, VisitGood
<1>6. CASE Callback
  BY <1>1, <1>3, <1>6, CallbackGood
<1>7. CASE Switch
  BY <1>1, <1>3, <1>7, SwitchGood
<1>8. CASE WalkOn
  BY <1>1, <1>3, <1>8, WalkOnGood
<1>9. CASE Yield
  BY <1>1, <1>3, <1>9, YieldGood
<1>10. CASE \E f \in Frequencies : RegisterBegin(f)
  BY <1>1, <1>3, <1>10, RegisterBeginGood
<1>11. CASE RegisterEnd
  BY <1>1, <1>3, <1>11, RegisterEndGood
<1>12. CASE \E t \in Timers : Unregister(t)
  BY <1>1, <1>3, <1>12, UnregisterGood
<1>13. CASE UNCHANGED vars
  BY <1>3, <1>13 DEF vars, Good, Whole, Placed, Counted, Uncounted, Registered, InterruptsEnabled,
     InCall, Ahead, Top
<1> QED BY <1>4, <1>5, <1>6, <1>7, <1>8, <1>9, <1>10, <1>11, <1>12, <1>13 DEF Next, timer_schedule

\* Every behaviour keeps to the inductive invariant.
THEOREM Invariance == Spec => []IInv
<1>1. Init => IInv
  BY InitIInv
<1>2. IInv /\ [Next]_vars => IInv'
  BY NextIInv
<1> QED BY <1>1, <1>2, PTL DEF Spec

\* No timer is lost (register_timer, unregister_timer): until a timer is freed
\* at which somebody points, the list of timers ends and holds exactly the
\* timers that were registered and not unregistered, however many ticks walk
\* along it and wherever task_schedule suspends them.
THEOREM TimersStayListed == Spec => []NoTimerLost
<1>1. ASSUME IInv
      PROVE  NoTimerLost
  <2>1. TypeOK
    BY <1>1 DEF IInv, Types
  <2>2. ASSUME ~broken
        PROVE  Listed = allocated \ {pending} /\ Chain[Cardinality(Timers)] = NULL
    <3>1. IsList(timers, timer, Registered)
      BY <1>1, <2>2 DEF IInv, Whole
    <3> QED BY <3>1, ListedIs DEF Registered
  <2> QED BY <2>1, <2>2 DEF NoTimerLost
<1> QED BY <1>1, Invariance, PTL

\* Every tick counts once for every timer (timer_schedule), although
\* task_schedule leaves the walk along the list in the middle: task_schedule
\* was registered first and is the last of the list.
THEOREM TicksAreExact == Spec => []ExactTicks
<1>1. ASSUME IInv
      PROVE  ExactTicks
  <2> SUFFICES ASSUME InterruptsEnabled, ~broken
               PROVE  \A t \in Listed : timer[t].interval > 0 =>
                         timer[t].elapse > 0 /\ age[t] + timer[t].elapse = timer[t].interval
    BY DEF ExactTicks
  <2>1. Listed = Registered
    BY <1>1, ListedIs DEF IInv, Whole
  <2>2. \A t \in Registered : Exact(timer, age, t)
    BY <1>1, AllExact DEF IInv
  <2> QED BY <2>1, <2>2 DEF Exact
<1> QED BY <1>1, Invariance, PTL
=============================================================================
