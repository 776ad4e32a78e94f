------------------------ MODULE SliceAllocatorProofs ------------------------
(***************************************************************************)
(* Proofs about SliceAllocator in bitmap mode, for every number of pages,  *)
(* slices, allocators and managers.                                        *)
(*                                                                         *)
(* Each manager has three doubly linked lists. DList(h, A, S) says that    *)
(* the list that starts at h holds the allocators S and that prev and next *)
(* agree. kmalloc and kfree only ever move one allocator from one list to  *)
(* another (Moves), which they do in two different ways.                   *)
(***************************************************************************)
EXTENDS SliceAllocator, FiniteSetTheorems, WellFoundedInduction, TLAPS

\* The end of a list is no allocator.
LEMMA Ends == /\ END_FLAG \in Nat /\ END_FLAG \notin Allocators /\ END_FLAG > 0
              /\ 0 .. END_FLAG = Allocators \union {END_FLAG} /\ Allocators \subseteq Nat
  BY SliceAssumption DEF END_FLAG, Allocators

----------------------------------------------------------------------------
(* Linked lists                                                            *)

\* s is the list that starts at h: following next it ends after n allocators.
Path(h, A, n, s) ==
  /\ n \in Nat /\ s \in [0 .. n -> Allocators \union {END_FLAG}]
  /\ s[0] = h /\ s[n] = END_FLAG
  /\ \A i \in 0 .. n - 1 : s[i] \in Allocators /\ A[s[i]].next = s[i + 1]
  /\ \A i, j \in 0 .. n - 1 : s[i] = s[j] => i = j

\* The list that starts at h holds the allocators S.
IsList(h, A, S) == \E n, s : Path(h, A, n, s) /\ S = {s[i] : i \in 0 .. n - 1}

\* A non-empty set of numbers has a least element.
LEMMA LeastElement ==
  ASSUME NEW S, S \subseteq Nat, S # {}
  PROVE  \E k \in S : \A j \in S : ~ (j < k)
<1>1. PICK k \in S : \A j \in S : ~ (<<j, k>> \in OpToRel(<, Nat))
  BY NatLessThanWellFounded, WFMin
<1> QED BY <1>1 DEF OpToRel

\* A list depends on the links of its own allocators only.
LEMMA ListFrame ==
  ASSUME NEW h, NEW A, NEW A2, NEW S, IsList(h, A, S), \A x \in S : A2[x].next = A[x].next
  PROVE  IsList(h, A2, S)
<1>1. PICK n, s : Path(h, A, n, s) /\ S = {s[i] : i \in 0 .. n - 1}
  BY DEF IsList
<1>2. \A i \in 0 .. n - 1 : s[i] \in S
  BY <1>1
<1>3. Path(h, A2, n, s)
  BY <1>1, <1>2 DEF Path
<1> QED BY <1>1, <1>3 DEF IsList

\* A new allocator in front
LEMMA ListPush ==
  ASSUME NEW h, NEW A, NEW A2, NEW S, IsList(h, A, S), NEW p \in Allocators \ S,
         A2[p].next = h, \A x \in S : A2[x].next = A[x].next
  PROVE  IsList(p, A2, S \union {p})
<1>1. PICK n, s : Path(h, A, n, s) /\ S = {s[i] : i \in 0 .. n - 1}
  BY DEF IsList
<1>2. PICK m : m = n + 1
  OBVIOUS
<1>3. n \in Nat /\ m \in Nat /\ m - 1 = n
  BY <1>1, <1>2 DEF Path
<1> DEFINE r == [i \in 0 .. m |-> IF i = 0 THEN p ELSE s[i - 1]]
<1>4. /\ r \in [0 .. m -> Allocators \union {END_FLAG}] /\ r[0] = p
      /\ \A i \in 0 .. n : r[i + 1] = s[i]
  <2>1. p \in Allocators \union {END_FLAG} /\ \A i \in 0 .. n : s[i] \in Allocators \union {END_FLAG}
    BY <1>1, Ends DEF Path
  <2>2. \A i \in 0 .. m : i # 0 => i - 1 \in 0 .. n
    BY <1>2, <1>3
  <2>3. \A i \in 0 .. n : i + 1 \in 0 .. m /\ i + 1 # 0 /\ (i + 1) - 1 = i
    BY <1>2, <1>3
  <2> QED BY <1>3, <2>1, <2>2, <2>3
<1> HIDE DEF r
<1>5. \A i \in 0 .. n : i = 0 \/ (i - 1 \in 0 .. n - 1 /\ r[i] = s[i - 1])
  <2> SUFFICES ASSUME NEW i \in 0 .. n, i # 0
               PROVE  i - 1 \in 0 .. n - 1 /\ r[i] = s[i - 1]
    OBVIOUS
  <2>1. i - 1 \in 0 .. n - 1 /\ i - 1 \in 0 .. n /\ (i - 1) + 1 = i
    BY <1>3
  <2> QED BY <1>4, <2>1
<1>6. \A i \in 0 .. n - 1 : s[i] \in S
  BY <1>1
<1>7. Path(p, A2, m, r)
  <2>1. r[m] = END_FLAG
    <3>1. n \in 0 .. n /\ s[n] = END_FLAG
      BY <1>1, <1>3 DEF Path
    <3> QED BY <1>2, <1>4, <3>1
  <2>2. ASSUME NEW i \in 0 .. n
        PROVE  r[i] \in Allocators /\ A2[r[i]].next = r[i + 1]
    <3>1. CASE i = 0
      <4>1. r[0 + 1] = s[0] /\ s[0] = h
        BY <1>1, <1>3, <1>4 DEF Path
      <4> QED BY <1>4, <3>1, <4>1
    <3>2. CASE i # 0
      <4>1. i - 1 \in 0 .. n - 1 /\ r[i] = s[i - 1] /\ (i - 1) + 1 = i
        BY <1>3, <1>5, <3>2
      <4>2. s[i - 1] \in Allocators /\ A[s[i - 1]].next = s[i]
        BY <1>1, <4>1 DEF Path
      <4>3. r[i + 1] = s[i]
        BY <1>4
      <4> QED BY <1>6, <4>1, <4>2, <4>3
    <3> QED BY <3>1, <3>2
  <2>3. ASSUME NEW i \in 0 .. n, NEW j \in 0 .. n, r[i] = r[j]
        PROVE  i = j
    <3>1. \A k \in 0 .. n : k # 0 => r[k] # p
      BY <1>5, <1>6
    <3>2. CASE i = 0 \/ j = 0
      BY <1>4, <2>3, <3>1, <3>2
    <3>3. CASE i # 0 /\ j # 0
      <4>1. i - 1 \in 0 .. n - 1 /\ j - 1 \in 0 .. n - 1 /\ s[i - 1] = s[j - 1]
        BY <1>5, <2>3, <3>3
      <4>2. i - 1 = j - 1
        BY <1>1, <4>1 DEF Path
      <4> QED BY <1>3, <4>2
    <3> QED BY <3>2, <3>3
  <2> QED BY <1>3, <1>4, <2>1, <2>2, <2>3 DEF Path
<1>8. S \union {p} = {r[i] : i \in 0 .. m - 1}
  <2>1. ASSUME NEW x \in S
        PROVE  \E i \in 0 .. m - 1 : x = r[i]
    <3>1. PICK i \in 0 .. n - 1 : x = s[i]
      BY <1>1
    <3>2. i + 1 \in 0 .. m - 1 /\ r[i + 1] = s[i]
      BY <1>3, <1>4, <3>1
    <3> QED BY <3>1, <3>2
  <2>2. 0 \in 0 .. m - 1 /\ r[0] = p
    BY <1>3, <1>4
  <2>3. \A i \in 0 .. m - 1 : r[i] \in S \union {p}
    BY <1>3, <1>4, <1>5, <1>6
  <2> QED BY <2>1, <2>2, <2>3
<1> QED BY <1>7, <1>8, SMTT(30) DEF IsList

\* The first allocator is taken off.
LEMMA ListPop ==
  ASSUME NEW h \in Allocators, NEW A, NEW A2, NEW S, IsList(h, A, S),
         \A x \in S \ {h} : A2[x].next = A[x].next
  PROVE  IsList(A[h].next, A2, S \ {h})
<1>1. PICK n, s : Path(h, A, n, s) /\ S = {s[i] : i \in 0 .. n - 1}
  BY DEF IsList
<1>2. n \in Nat /\ n # 0
  BY <1>1, Ends DEF Path
<1>3. PICK m : m = n - 1
  OBVIOUS
<1>4. m \in Nat /\ m + 1 = n
  BY <1>2, <1>3
<1> DEFINE r == [i \in 0 .. m |-> s[i + 1]]
<1>5. r \in [0 .. m -> Allocators \union {END_FLAG}] /\ \A i \in 0 .. m : r[i] = s[i + 1] /\ i + 1 \in 0 .. n
  <2>1. \A i \in 0 .. m : i + 1 \in 0 .. n
    BY <1>4
  <2>2. \A i \in 0 .. n : s[i] \in Allocators \union {END_FLAG}
    BY <1>1 DEF Path
  <2> QED BY <2>1, <2>2
<1> HIDE DEF r
<1>6. \A i \in 0 .. m - 1 : i + 1 \in 0 .. n - 1 /\ i \in 0 .. m /\ s[i + 1] \in S \ {h}
  <2> SUFFICES ASSUME NEW i \in 0 .. m - 1
               PROVE  i + 1 \in 0 .. n - 1 /\ i \in 0 .. m /\ s[i + 1] \in S \ {h}
    OBVIOUS
  <2>1. i + 1 \in 0 .. n - 1 /\ i \in 0 .. m /\ i + 1 # 0 /\ 0 \in 0 .. n - 1
    BY <1>4
  <2>2. s[i + 1] # s[0] /\ s[0] = h
    BY <1>1, <2>1 DEF Path
  <2> QED BY <1>1, <2>1, <2>2
<1>7. Path(A[h].next, A2, m, r)
  <2>1. r[0] = A[h].next /\ r[m] = END_FLAG
    <3>1. 0 \in 0 .. n - 1 /\ 0 \in 0 .. m /\ m \in 0 .. m
      BY <1>4
    <3>2. r[0] = s[0 + 1] /\ r[m] = s[n] /\ A[s[0]].next = s[0 + 1]
      BY <1>1, <1>4, <1>5, <3>1 DEF Path
    <3> QED BY <1>1, <3>2 DEF Path
  <2>2. ASSUME NEW i \in 0 .. m - 1
        PROVE  r[i] \in Allocators /\ A2[r[i]].next = r[i + 1]
    <3>1. i + 1 \in 0 .. n - 1 /\ i \in 0 .. m /\ i + 1 \in 0 .. m
      BY <1>4, <1>6
    <3>2. r[i] = s[i + 1] /\ r[i + 1] = s[(i + 1) + 1]
      BY <1>5, <3>1
    <3>3. s[i + 1] \in Allocators /\ A[s[i + 1]].next = s[(i + 1) + 1]
      BY <1>1, <3>1 DEF Path
    <3> QED BY <1>6, <3>2, <3>3
  <2>3. ASSUME NEW i \in 0 .. m - 1, NEW j \in 0 .. m - 1, r[i] = r[j]
        PROVE  i = j
    <3>1. i + 1 \in 0 .. n - 1 /\ j + 1 \in 0 .. n - 1 /\ s[i + 1] = s[j + 1]
      BY <1>5, <1>6, <2>3
    <3>2. i + 1 = j + 1
      BY <1>1, <3>1 DEF Path
    <3> QED BY <1>4, <3>2
  <2> QED BY <1>4, <1>5, <2>1, <2>2, <2>3 DEF Path
<1>8. S \ {h} = {r[i] : i \in 0 .. m - 1}
  <2>1. ASSUME NEW x \in S \ {h}
        PROVE  \E i \in 0 .. m - 1 : x = r[i]
    <3>1. PICK i \in 0 .. n - 1 : x = s[i]
      BY <1>1
    <3>2. i # 0
      BY <1>1, <3>1 DEF Path
    <3>3. i - 1 \in 0 .. m - 1 /\ i - 1 \in 0 .. m /\ (i - 1) + 1 = i
      BY <1>4, <3>1, <3>2
    <3> QED BY <1>5, <3>1, <3>3
  <2>2. \A i \in 0 .. m - 1 : r[i] \in S \ {h}
    BY <1>5, <1>6
  <2> QED BY <2>1, <2>2
<1> QED BY <1>7, <1>8 DEF IsList

\* An allocator p that is not the first is taken out, behind its predecessor q.
LEMMA ListUnlink ==
  ASSUME NEW h, NEW A, NEW A2, NEW S, IsList(h, A, S),
         NEW p \in S, p # h, NEW q \in S, A[q].next = p,
         A2[q].next = A[p].next, \A x \in S \ {p, q} : A2[x].next = A[x].next
  PROVE  IsList(h, A2, S \ {p})
<1>1. PICK n, s : Path(h, A, n, s) /\ S = {s[i] : i \in 0 .. n - 1}
  BY DEF IsList
<1>2. PICK k \in 0 .. n - 1 : p = s[k]
  BY <1>1
<1>3. PICK j \in 0 .. n - 1 : q = s[j]
  BY <1>1
<1>4. n \in Nat /\ n # 0 /\ k # 0
  BY <1>1, <1>2 DEF Path
<1>n. \A i \in 0 .. n - 1 : s[i] \in Allocators /\ A[s[i]].next = s[i + 1]
  BY <1>1 DEF Path
<1>i. \A a, b \in 0 .. n : s[a] = s[b] => a = b
  <2>1. \A a, b \in 0 .. n - 1 : s[a] = s[b] => a = b
    BY <1>1 DEF Path
  <2>2. s[n] \notin Allocators
    BY <1>1, Ends DEF Path
  <2>3. \A a \in 0 .. n : a = n \/ a \in 0 .. n - 1
    BY <1>4
  <2> QED BY <1>n, <2>1, <2>2, <2>3
<1>5. j + 1 = k
  <2>1. s[j + 1] = s[k]
    BY <1>2, <1>3, <1>n
  <2>2. j + 1 \in 0 .. n /\ k \in 0 .. n
    BY <1>2, <1>3, <1>4
  <2> QED BY <1>i, <2>1, <2>2
<1>6. PICK m : m = n - 1
  OBVIOUS
<1>7. m \in Nat /\ m + 1 = n
  BY <1>4, <1>6
<1> DEFINE r == [i \in 0 .. m |-> IF i < k THEN s[i] ELSE s[i + 1]]
<1>8. /\ r \in [0 .. m -> Allocators \union {END_FLAG}]
      /\ \A i \in 0 .. m : i < k => r[i] = s[i]
      /\ \A i \in 0 .. m : i >= k => r[i] = s[i + 1]
  <2>1. \A i \in 0 .. m : i \in 0 .. n /\ i + 1 \in 0 .. n
    BY <1>7
  <2>2. \A i \in 0 .. n : s[i] \in Allocators \union {END_FLAG}
    BY <1>1 DEF Path
  <2> QED BY <1>2, <1>7, <2>1, <2>2
<1> HIDE DEF r
<1>9. Path(h, A2, m, r)
  <2>1. r[0] = h /\ r[m] = END_FLAG
    <3>1. 0 < k /\ 0 \in 0 .. m /\ m \in 0 .. m /\ m >= k
      BY <1>2, <1>4, <1>7
    <3> QED BY <1>1, <1>7, <1>8, <3>1 DEF Path
  <2>2. ASSUME NEW i \in 0 .. m - 1
        PROVE  r[i] \in Allocators /\ A2[r[i]].next = r[i + 1]
    <3>0. i \in 0 .. m /\ i + 1 \in 0 .. m /\ i \in 0 .. n - 1 /\ i + 1 \in 0 .. n - 1
      BY <1>7
    <3>1. CASE i + 1 < k
      <4>1. r[i] = s[i] /\ r[i + 1] = s[i + 1]
        BY <1>2, <1>8, <3>0, <3>1
      <4>2. s[i] # p /\ s[i] # q
        <5>1. i # k /\ i # j /\ i \in 0 .. n /\ k \in 0 .. n /\ j \in 0 .. n
          BY <1>2, <1>3, <1>4, <1>5, <3>1
        <5> QED BY <1>2, <1>3, <1>i, <5>1
      <4>3. s[i] \in S
        BY <1>1, <3>0
      <4> QED BY <1>n, <3>0, <4>1, <4>2, <4>3
    <3>2. CASE i + 1 = k
      <4>1. i = j /\ i < k
        BY <1>2, <1>3, <1>5, <3>2
      <4>2. r[i] = s[i] /\ r[i + 1] = s[k + 1]
        BY <1>2, <1>8, <3>0, <3>2, <4>1
      <4>3. s[i] = q /\ A[p].next = s[k + 1]
        BY <1>2, <1>3, <1>n, <4>1
      <4> QED BY <1>n, <3>0, <4>2, <4>3
    <3>3. CASE i + 1 > k
      <4>1. r[i] = s[i + 1] /\ r[i + 1] = s[(i + 1) + 1]
        BY <1>2, <1>8, <3>0, <3>3
      <4>2. s[i + 1] # p /\ s[i + 1] # q
        <5>1. i + 1 # k /\ i + 1 # j /\ i + 1 \in 0 .. n /\ k \in 0 .. n /\ j \in 0 .. n
          BY <1>2, <1>3, <1>4, <1>5, <3>0, <3>3
        <5> QED BY <1>2, <1>3, <1>i, <5>1
      <4>3. s[i + 1] \in S
        BY <1>1, <3>0
      <4> QED BY <1>n, <3>0, <4>1, <4>2, <4>3
    <3> QED BY <1>2, <3>1, <3>2, <3>3
  <2>3. ASSUME NEW a \in 0 .. m - 1, NEW b \in 0 .. m - 1, r[a] = r[b]
        PROVE  a = b
    <3>1. /\ a \in 0 .. m /\ a \in 0 .. n /\ a + 1 \in 0 .. n
          /\ b \in 0 .. m /\ b \in 0 .. n /\ b + 1 \in 0 .. n
      BY <1>7
    <3>2. /\ (a < k /\ r[a] = s[a]) \/ (a >= k /\ r[a] = s[a + 1])
          /\ (b < k /\ r[b] = s[b]) \/ (b >= k /\ r[b] = s[b + 1])
      BY <1>2, <1>8, <3>1
    <3>3. \/ a < k /\ b < k /\ a = b
          \/ a < k /\ b >= k /\ a = b + 1
          \/ a >= k /\ b < k /\ a + 1 = b
          \/ a >= k /\ b >= k /\ a + 1 = b + 1
      BY <1>i, <2>3, <3>1, <3>2
    <3> QED BY <1>2, <3>1, <3>3
  <2> QED BY <1>7, <1>8, <2>1, <2>2, <2>3 DEF Path
<1>10. S \ {p} = {r[i] : i \in 0 .. m - 1}
  <2>1. ASSUME NEW x \in S \ {p}
        PROVE  \E i \in 0 .. m - 1 : x = r[i]
    <3>1. PICK i \in 0 .. n - 1 : x = s[i] /\ i # k
      BY <1>1, <1>2
    <3>2. CASE i < k
      <4>1. i \in 0 .. m - 1 /\ i \in 0 .. m
        BY <1>2, <1>7, <3>1, <3>2
      <4> QED BY <1>8, <3>1, <3>2, <4>1
    <3>3. CASE i > k
      <4>1. i - 1 \in 0 .. m - 1 /\ i - 1 \in 0 .. m /\ i - 1 >= k /\ (i - 1) + 1 = i
        BY <1>2, <1>7, <3>1, <3>3
      <4>2. r[i - 1] = s[i]
        BY <1>8, <4>1
      <4> QED BY <3>1, <4>1, <4>2
    <3> QED BY <1>2, <3>1, <3>2, <3>3
  <2>2. ASSUME NEW i \in 0 .. m - 1
        PROVE  r[i] \in S \ {p}
    <3>0. i \in 0 .. m /\ i \in 0 .. n - 1 /\ i + 1 \in 0 .. n - 1
      BY <1>7
    <3>1. \A a \in 0 .. n - 1 : a # k => s[a] \in S \ {p}
      <4>1. \A a \in 0 .. n - 1 : a \in 0 .. n
        BY <1>4
      <4> QED BY <1>1, <1>2, <1>i, <4>1
    <3>2. CASE i < k
      <4>1. i # k /\ r[i] = s[i]
        BY <1>8, <3>0, <3>2
      <4> QED BY <3>0, <3>1, <4>1
    <3>3. CASE i >= k
      <4>1. i + 1 # k /\ r[i] = s[i + 1]
        BY <1>2, <1>8, <3>0, <3>3
      <4> QED BY <3>0, <3>1, <4>1
    <3> QED BY <1>2, <3>2, <3>3
  <2> QED BY <2>1, <2>2
<1> QED BY <1>9, <1>10 DEF IsList

\* The list that starts at END_FLAG is empty, and no other is.
LEMMA ListEmpty ==
  ASSUME NEW h, NEW A, NEW S, IsList(h, A, S)
  PROVE  /\ S \subseteq Allocators /\ (h = END_FLAG <=> S = {})
         /\ h \in Allocators \union {END_FLAG} /\ (h # END_FLAG => h \in S)
<1>1. PICK n, s : Path(h, A, n, s) /\ S = {s[i] : i \in 0 .. n - 1}
  BY DEF IsList
<1>2. n \in Nat /\ (n # 0 => 0 \in 0 .. n - 1) /\ (n = 0 => 0 .. n - 1 = {})
  BY <1>1 DEF Path
<1>3. S \subseteq Allocators
  BY <1>1 DEF Path
<1>4. n # 0 => h \in S /\ h # END_FLAG
  BY <1>1, <1>2, <1>3, Ends DEF Path
<1>5. n = 0 => h = END_FLAG /\ S = {}
  BY <1>1, <1>2 DEF Path
<1> QED BY <1>3, <1>4, <1>5

\* There is such a list.
LEMMA EmptyList ==
  ASSUME NEW A
  PROVE  IsList(END_FLAG, A, {})
<1> DEFINE s == [i \in 0 .. 0 |-> END_FLAG]
<1>1. Path(END_FLAG, A, 0, s)
  BY DEF Path
<1>2. {} = {s[i] : i \in 0 .. 0 - 1}
  OBVIOUS
<1> QED BY <1>1, <1>2 DEF IsList

\* Every allocator of a list but the first is the next one of another.
LEMMA ListPrev ==
  ASSUME NEW h, NEW A, NEW S, IsList(h, A, S), NEW t \in S, t # h
  PROVE  \E p \in S : A[p].next = t
<1>1. PICK n, s : Path(h, A, n, s) /\ S = {s[i] : i \in 0 .. n - 1}
  BY DEF IsList
<1>2. PICK k \in 0 .. n - 1 : t = s[k]
  BY <1>1
<1>3. n \in Nat /\ k # 0
  BY <1>1, <1>2 DEF Path
<1>4. k - 1 \in 0 .. n - 1 /\ (k - 1) + 1 = k
  BY <1>2, <1>3
<1>5. s[k - 1] \in S /\ A[s[k - 1]].next = t
  BY <1>1, <1>2, <1>4 DEF Path
<1> QED BY <1>5

----------------------------------------------------------------------------
(* Doubly linked lists                                                     *)

\* The list that starts at h holds the allocators S, and prev leads back.
DList(h, A, S) ==
  /\ IsList(h, A, S)
  /\ h # END_FLAG => A[h].prev = END_FLAG
  /\ \A x \in S : A[x].next # END_FLAG => A[A[x].next].prev = x

\* Where the links of an allocator of the list lead
LEMMA DLinks ==
  ASSUME NEW h, NEW A, NEW S, DList(h, A, S)
  PROVE  /\ S \subseteq Allocators /\ h \in S \union {END_FLAG} /\ (h = END_FLAG <=> S = {})
         /\ \A x \in S : /\ A[x].next \in S \union {END_FLAG} /\ A[x].prev \in S \union {END_FLAG}
                         /\ A[x].next # h \/ h = END_FLAG
                         /\ A[x].prev = END_FLAG => x = h
                         /\ A[x].prev # END_FLAG => x # h /\ A[A[x].prev].next = x
<1>1. /\ S \subseteq Allocators /\ h \in S \union {END_FLAG} /\ (h = END_FLAG <=> S = {})
  BY ListEmpty DEF DList
<1>2. ASSUME NEW x \in S
      PROVE  A[x].next \in S \union {END_FLAG}
  <2>1. PICK n, s : Path(h, A, n, s) /\ S = {s[i] : i \in 0 .. n - 1}
    BY DEF DList, IsList
  <2>2. PICK k \in 0 .. n - 1 : x = s[k]
    BY <2>1
  <2>3. n \in Nat /\ A[x].next = s[k + 1] /\ s[n] = END_FLAG
    BY <2>1, <2>2 DEF Path
  <2>4. k + 1 = n \/ k + 1 \in 0 .. n - 1
    BY <2>2, <2>3
  <2> QED BY <2>1, <2>3, <2>4
<1>3. ASSUME NEW x \in S, x # h
      PROVE  A[x].prev \in S /\ A[A[x].prev].next = x
  <2>1. PICK q \in S : A[q].next = x
    BY <1>3, ListPrev DEF DList
  <2>2. A[x].prev = q
    BY <1>1, <2>1, Ends DEF DList
  <2> QED BY <2>1, <2>2
<1>4. \A x \in S : x = h => A[x].prev = END_FLAG
  BY <1>1, Ends DEF DList
<1>5. ASSUME NEW x \in S, A[x].next = h, h # END_FLAG
      PROVE  FALSE
  <2>1. A[h].prev = x /\ A[h].prev = END_FLAG
    BY <1>5 DEF DList
  <2> QED BY <1>1, <2>1, Ends
<1> QED BY <1>1, <1>2, <1>3, <1>4, <1>5, Ends

\* Allocator a leaves the list that starts at hf, which then starts at hf2,
\* and goes before the first of the list that starts at ht.
Moves(A, A2, hf, hf2, ht, a) ==
  /\ hf2 = IF A[a].prev = END_FLAG THEN A[a].next ELSE hf
  /\ A2[a].next = ht /\ A2[a].prev = END_FLAG
  /\ \A x \in Allocators \ {a} :
       /\ A2[x].next = IF x = A[a].prev THEN A[a].next ELSE A[x].next
       /\ A2[x].prev = IF x = A[a].next THEN A[a].prev ELSE IF x = ht THEN a ELSE A[x].prev

\* What the lists S and T have in common with a move from S to T
Moving(A, A2, S, T, hf, hf2, ht, a) ==
  /\ DList(hf, A, S) /\ DList(ht, A, T) /\ S \intersect T = {} /\ a \in S
  /\ Moves(A, A2, hf, hf2, ht, a)

\* The list it leaves
LEMMA MovedFrom ==
  ASSUME NEW A, NEW A2, NEW S, NEW T, NEW hf, NEW hf2, NEW ht, NEW a,
         Moving(A, A2, S, T, hf, hf2, ht, a)
  PROVE  DList(hf2, A2, S \ {a})
<1>p. PICK p : p = A[a].prev
  OBVIOUS
<1>n. PICK n : n = A[a].next
  OBVIOUS
<1>1. /\ S \subseteq Allocators /\ T \subseteq Allocators /\ hf \in S \union {END_FLAG}
      /\ ht \in T \union {END_FLAG} /\ S \intersect T = {} /\ a \in S
      /\ n \in S \union {END_FLAG} /\ p \in S \union {END_FLAG} /\ (n # hf \/ hf = END_FLAG)
      /\ p = END_FLAG => a = hf
      /\ p # END_FLAG => a # hf /\ A[p].next = a
  BY <1>p, <1>n, DLinks DEF Moving
<1>2. \A x \in S : x # ht
  BY <1>1, Ends
<1>3. /\ hf2 = IF p = END_FLAG THEN n ELSE hf
      /\ \A x \in S \ {a} : /\ A2[x].next = IF x = p THEN n ELSE A[x].next
                            /\ A2[x].prev = IF x = n THEN p ELSE A[x].prev
  BY <1>1, <1>2, <1>p, <1>n DEF Moving, Moves
<1>4. /\ IsList(hf, A, S) /\ (hf # END_FLAG => A[hf].prev = END_FLAG)
      /\ \A x \in S : A[x].next # END_FLAG => A[A[x].next].prev = x
  BY DEF Moving, DList
<1>5. n # a /\ p # a
  <2>1. n = a => A[a].prev = a /\ A[a].next = a
    BY <1>1, <1>4, <1>n, Ends
  <2>2. p = a => A[a].next = a
    BY <1>1, <1>p, Ends
  <2>3. A[a].next # a
    <3>1. PICK k, s : Path(hf, A, k, s) /\ S = {s[i] : i \in 0 .. k - 1}
      BY <1>4 DEF IsList
    <3>2. PICK i \in 0 .. k - 1 : a = s[i]
      BY <1>1, <3>1
    <3>3. k \in Nat /\ A[a].next = s[i + 1] /\ s[k] = END_FLAG
      BY <3>1, <3>2 DEF Path
    <3>4. CASE i + 1 = k
      BY <1>1, <3>3, <3>4, Ends
    <3>5. CASE i + 1 # k
      <4>1. i + 1 \in 0 .. k - 1 /\ i + 1 # i
        BY <3>2, <3>3, <3>5
      <4> QED BY <3>1, <3>2, <3>3, <4>1 DEF Path
    <3> QED BY <3>4, <3>5
  <2> QED BY <1>n, <2>1, <2>2, <2>3
<1>6. \A x \in S \ {a} : A2[x].next = A[x].next \/ x = p
  BY <1>3
<1>7. IsList(hf2, A2, S \ {a})
  <2>1. CASE p = END_FLAG
    <3>1. a = hf /\ hf2 = n /\ a \in Allocators
      BY <1>1, <1>3, <2>1
    <3>2. \A x \in S \ {a} : A2[x].next = A[x].next
      BY <1>1, <1>6, <2>1, Ends
    <3> QED BY <1>4, <1>n, <3>1, <3>2, ListPop
  <2>2. CASE p # END_FLAG
    <3>1. a # hf /\ A[p].next = a /\ p \in S /\ hf2 = hf
      BY <1>1, <1>3, <2>2
    <3>2. A2[p].next = A[a].next /\ \A x \in S \ {a, p} : A2[x].next = A[x].next
      BY <1>3, <1>5, <1>n, <3>1
    <3> QED BY <1>1, <1>4, <3>1, <3>2, ListUnlink
  <2> QED BY <2>1, <2>2
<1>8. hf2 # END_FLAG => A2[hf2].prev = END_FLAG
  <2> SUFFICES ASSUME hf2 # END_FLAG
               PROVE  A2[hf2].prev = END_FLAG
    OBVIOUS
  <2>1. CASE p = END_FLAG
    BY <1>1, <1>3, <1>5, <2>1
  <2>2. CASE p # END_FLAG
    BY <1>1, <1>3, <1>4, <2>2
  <2> QED BY <2>1, <2>2
<1>9. ASSUME NEW x \in S \ {a}, A2[x].next # END_FLAG
      PROVE  A2[A2[x].next].prev = x
  <2>1. CASE x = p
    <3>1. A2[x].next = n /\ n \in S \ {a}
      <4>1. A2[x].next = n
        BY <1>3, <2>1
      <4> QED BY <1>1, <1>5, <1>9, <4>1
    <3> QED BY <1>3, <2>1, <3>1
  <2>2. CASE x # p
    <3>1. A2[x].next = A[x].next /\ A[x].next \in S /\ A[A[x].next].prev = x
      <4>1. A[x].next \in S \union {END_FLAG}
        BY DLinks DEF Moving
      <4> QED BY <1>3, <1>4, <1>9, <2>2, <4>1
    <3>2. A[x].next # a /\ A[x].next # n
      <4>1. A[x].next # a
        BY <1>p, <2>2, <3>1
      <4>2. A[x].next = n => A[n].prev = x /\ A[n].prev = a
        BY <1>1, <1>4, <1>n, <3>1, Ends
      <4> QED BY <4>1, <4>2
    <3> QED BY <1>3, <3>1, <3>2
  <2> QED BY <2>1, <2>2
<1> QED BY <1>7, <1>8, <1>9 DEF DList

\* The list it goes to
LEMMA MovedTo ==
  ASSUME NEW A, NEW A2, NEW S, NEW T, NEW hf, NEW hf2, NEW ht, NEW a,
         Moving(A, A2, S, T, hf, hf2, ht, a)
  PROVE  DList(a, A2, T \union {a})
<1>1. /\ S \subseteq Allocators /\ T \subseteq Allocators /\ ht \in T \union {END_FLAG}
      /\ S \intersect T = {} /\ a \in S
      /\ A[a].next \in S \union {END_FLAG} /\ A[a].prev \in S \union {END_FLAG}
  BY DLinks DEF Moving
<1>2. /\ A2[a].next = ht /\ A2[a].prev = END_FLAG
      /\ \A x \in T : A2[x].next = A[x].next /\ A2[x].prev = IF x = ht THEN a ELSE A[x].prev
  BY <1>1, Ends DEF Moving, Moves
<1>3. /\ IsList(ht, A, T)
      /\ \A x \in T : A[x].next # END_FLAG => A[A[x].next].prev = x
      /\ \A x \in T : A[x].next \in T \union {END_FLAG} /\ (A[x].next # ht \/ ht = END_FLAG)
  BY DLinks DEF Moving, DList
<1>4. IsList(a, A2, T \union {a})
  <2>1. a \in Allocators \ T
    BY <1>1
  <2> QED BY <1>2, <1>3, <2>1, ListPush
<1>5. ASSUME NEW x \in T \union {a}, A2[x].next # END_FLAG
      PROVE  A2[A2[x].next].prev = x
  <2>1. CASE x = a
    BY <1>1, <1>2, <1>5, <2>1
  <2>2. CASE x \in T
    BY <1>1, <1>2, <1>3, <1>5, <2>2, Ends, ZenonT(30)
  <2> QED BY <2>1, <2>2
<1> QED BY <1>2, <1>4, <1>5 DEF DList

\* A third list
LEMMA MovedOther ==
  ASSUME NEW A, NEW A2, NEW S, NEW T, NEW hf, NEW hf2, NEW ht, NEW a,
         Moving(A, A2, S, T, hf, hf2, ht, a),
         NEW h, NEW U, DList(h, A, U), U \intersect S = {}, U \intersect T = {}
  PROVE  DList(h, A2, U)
<1>1. /\ U \subseteq Allocators /\ h \in U \union {END_FLAG} /\ ht \in T \union {END_FLAG} /\ a \in S
      /\ A[a].next \in S \union {END_FLAG} /\ A[a].prev \in S \union {END_FLAG}
  BY DLinks DEF Moving
<1>2. \A x \in U : A2[x].next = A[x].next /\ A2[x].prev = A[x].prev
  BY <1>1, Ends DEF Moving, Moves
<1>3. \A x \in U : A[x].next \in U \union {END_FLAG}
  BY DLinks
<1>4. IsList(h, A2, U)
  BY <1>2, ListFrame DEF DList
<1>5. h # END_FLAG => A2[h].prev = END_FLAG
  BY <1>1, <1>2 DEF DList
<1>6. \A x \in U : A2[x].next # END_FLAG => A2[A2[x].next].prev = x
  BY <1>2, <1>3 DEF DList
<1> QED BY <1>4, <1>5, <1>6 DEF DList

----------------------------------------------------------------------------
(* The two ways to move an allocator                                       *)

\* page_slice_allocator_t
Alloc == [prev : 0 .. END_FLAG, next : 0 .. END_FLAG, first_avai : SUBSET Slices,
          avai_num : Nat, page : Pages \union {NULL, NoPage}]

\* What an allocator says of its page
SameData(A, A2) ==
  \A x \in Allocators : /\ A2[x].first_avai = A[x].first_avai /\ A2[x].avai_num = A[x].avai_num
                        /\ A2[x].page = A[x].page

\* The two lists of a move
Apart(A, S, T, hf, ht, a) ==
  /\ A \in [Allocators -> Alloc] /\ DList(hf, A, S) /\ DList(ht, A, T)
  /\ S \intersect T = {} /\ a \in S

\* The allocators behind a move
Arrives(A, A2, hf, hf2, ht, a) ==
  A2 \in [Allocators -> Alloc] /\ SameData(A, A2) /\ Moves(A, A2, hf, hf2, ht, a)

\* kmalloc_helper takes the first allocator of a list.
PopPush(A, A2, ht, a) ==
  \E A1 : /\ A1 = IF A[a].next # END_FLAG THEN [A EXCEPT ![A[a].next].prev = A[a].prev] ELSE A
          /\ A2 = IF ht # END_FLAG
                     THEN [A1 EXCEPT ![a].next = ht, ![a].prev = A1[ht].prev, ![ht].prev = a]
                     ELSE [A1 EXCEPT ![a].next = ht]

\* That is a move.
LEMMA PopPushMoves ==
  ASSUME NEW A, NEW A2, NEW S, NEW T, NEW ht, NEW a, Apart(A, S, T, a, ht, a), PopPush(A, A2, ht, a)
  PROVE  Arrives(A, A2, a, A[a].next, ht, a)
<1>n. PICK n : n = A[a].next
  OBVIOUS
<1>1. /\ S \subseteq Allocators /\ T \subseteq Allocators /\ ht \in T \union {END_FLAG}
      /\ S \intersect T = {} /\ a \in S /\ n \in S \union {END_FLAG}
      /\ (n # a \/ a = END_FLAG) /\ A \in [Allocators -> Alloc]
  BY <1>n, DLinks DEF Apart
<1>2. A[a].prev = END_FLAG /\ (ht # END_FLAG => A[ht].prev = END_FLAG)
  BY <1>1, Ends DEF Apart, DList
<1>3. a # END_FLAG /\ n # a /\ ht # a /\ (ht = n => ht = END_FLAG) /\ a \in Allocators
  BY <1>1, Ends, SMTT(30)
<1>4. PICK A1 :
        /\ A1 = IF n # END_FLAG THEN [A EXCEPT ![n].prev = END_FLAG] ELSE A
        /\ A2 = IF ht # END_FLAG
                   THEN [A1 EXCEPT ![a].next = ht, ![a].prev = A1[ht].prev, ![ht].prev = a]
                   ELSE [A1 EXCEPT ![a].next = ht]
  BY <1>2, <1>n DEF PopPush
<1>5. /\ A1 \in [Allocators -> Alloc] /\ SameData(A, A1)
      /\ \A x \in Allocators : /\ A1[x].next = A[x].next
                               /\ A1[x].prev = IF x = n THEN END_FLAG ELSE A[x].prev
  <2>1. CASE n = END_FLAG
    <3>1. A1 = A
      BY <1>4, <2>1
    <3> QED BY <1>1, <2>1, <3>1, Ends DEF SameData
  <2>2. CASE n # END_FLAG
    <3>1. A1 = [A EXCEPT ![n].prev = END_FLAG] /\ n \in Allocators
      BY <1>1, <1>4, <2>2
    <3> QED BY <1>1, <3>1, Ends DEF SameData, Alloc
  <2> QED BY <2>1, <2>2
<1>6. ht # END_FLAG => A1[ht].prev = END_FLAG
  BY <1>1, <1>2, <1>3, <1>5
<1>7. A1[a].prev = END_FLAG
  BY <1>2, <1>3, <1>5
<1>8. /\ A2 \in [Allocators -> Alloc] /\ SameData(A1, A2)
      /\ A2[a].next = ht /\ A2[a].prev = END_FLAG
      /\ \A x \in Allocators \ {a} : /\ A2[x].next = A1[x].next
                                     /\ A2[x].prev = IF x = ht THEN a ELSE A1[x].prev
  <2>1. CASE ht = END_FLAG
    <3>1. A2 = [A1 EXCEPT ![a].next = ht]
      BY <1>4, <2>1
    <3> QED BY <1>3, <1>5, <1>7, <2>1, <3>1, Ends DEF SameData, Alloc
  <2>2. CASE ht # END_FLAG
    <3>1. A2 = [A1 EXCEPT ![a].next = ht, ![a].prev = END_FLAG, ![ht].prev = a]
      BY <1>4, <1>6, <2>2
    <3>2. ht \in Allocators /\ ht \in 0 .. END_FLAG /\ a \in 0 .. END_FLAG /\ END_FLAG \in 0 .. END_FLAG
      BY <1>1, <1>3, <2>2, Ends
    <3> QED BY <1>3, <1>5, <3>1, <3>2, SMTT(30) DEF SameData, Alloc
  <2> QED BY <2>1, <2>2
<1>9. SameData(A, A2)
  BY <1>5, <1>8 DEF SameData
<1>10. Moves(A, A2, a, n, ht, a)
  <2>1. \A x \in Allocators \ {a} : A2[x].next = IF x = A[a].prev THEN A[a].next ELSE A[x].next
    BY <1>2, <1>5, <1>8, Ends
  <2>2. \A x \in Allocators \ {a} :
          A2[x].prev = IF x = A[a].next THEN A[a].prev ELSE IF x = ht THEN a ELSE A[x].prev
    BY <1>2, <1>3, <1>5, <1>8, <1>n, Ends
  <2> QED BY <1>2, <1>8, <1>n, <2>1, <2>2 DEF Moves
<1> QED BY <1>8, <1>9, <1>10, <1>n DEF Arrives

\* kfree takes an allocator from anywhere in a list.
Relink(A, A2, ht, a) ==
  LET A1 == IF A[a].next # END_FLAG THEN [A EXCEPT ![A[a].next].prev = A[a].prev] ELSE A
      B  == IF A[a].prev # END_FLAG THEN [A1 EXCEPT ![A[a].prev].next = A[a].next] ELSE A1
      C  == [B EXCEPT ![a].next = ht, ![a].prev = END_FLAG]
  IN  A2 = IF ht # END_FLAG THEN [C EXCEPT ![ht].prev = a] ELSE C

\* That is a move, too.
LEMMA RelinkMoves ==
  ASSUME NEW A, NEW A2, NEW S, NEW T, NEW hf, NEW hf2, NEW ht, NEW a, Apart(A, S, T, hf, ht, a),
         Relink(A, A2, ht, a), hf2 = IF A[a].prev = END_FLAG THEN A[a].next ELSE hf
  PROVE  Arrives(A, A2, hf, hf2, ht, a)
<1>n. PICK n : n = A[a].next
  OBVIOUS
<1>p. PICK p : p = A[a].prev
  OBVIOUS
<1>1. /\ S \subseteq Allocators /\ T \subseteq Allocators /\ ht \in T \union {END_FLAG}
      /\ S \intersect T = {} /\ a \in S /\ n \in S \union {END_FLAG} /\ p \in S \union {END_FLAG}
      /\ A \in [Allocators -> Alloc]
  BY <1>n, <1>p, DLinks DEF Apart
<1>2. /\ a # END_FLAG /\ ht # a /\ (ht = n => ht = END_FLAG) /\ a \in Allocators
      /\ n \in 0 .. END_FLAG /\ p \in 0 .. END_FLAG /\ ht \in 0 .. END_FLAG
      /\ a \in 0 .. END_FLAG /\ END_FLAG \in 0 .. END_FLAG
  BY <1>1, Ends
<1> DEFINE A1 == IF A[a].next # END_FLAG THEN [A EXCEPT ![A[a].next].prev = A[a].prev] ELSE A
           B  == IF A[a].prev # END_FLAG THEN [A1 EXCEPT ![A[a].prev].next = A[a].next] ELSE A1
           C  == [B EXCEPT ![a].next = ht, ![a].prev = END_FLAG]
<1>r. A2 = IF ht # END_FLAG THEN [C EXCEPT ![ht].prev = a] ELSE C
  BY Zenon DEF Relink
<1>s. C = [B EXCEPT ![a].next = ht, ![a].prev = END_FLAG]
  OBVIOUS
<1> HIDE DEF C
<1>t. B = IF A[a].prev # END_FLAG THEN [A1 EXCEPT ![A[a].prev].next = A[a].next] ELSE A1
  OBVIOUS
<1> HIDE DEF B
<1>u. A1 = IF A[a].next # END_FLAG THEN [A EXCEPT ![A[a].next].prev = A[a].prev] ELSE A
  OBVIOUS
<1> HIDE DEF A1
<1>3. /\ A1 = IF n # END_FLAG THEN [A EXCEPT ![n].prev = p] ELSE A
      /\ B = IF p # END_FLAG THEN [A1 EXCEPT ![p].next = n] ELSE A1
      /\ C = [B EXCEPT ![a].next = ht, ![a].prev = END_FLAG]
      /\ A2 = IF ht # END_FLAG THEN [C EXCEPT ![ht].prev = a] ELSE C
  <2>1. A1 = IF n # END_FLAG THEN [A EXCEPT ![n].prev = p] ELSE A
    BY <1>n, <1>p, <1>u
  <2>2. B = IF p # END_FLAG THEN [A1 EXCEPT ![p].next = n] ELSE A1
    BY <1>n, <1>p, <1>t
  <2> QED BY <1>r, <1>s, <2>1, <2>2, Zenon
<1>4. /\ A1 \in [Allocators -> Alloc] /\ SameData(A, A1)
      /\ \A x \in Allocators : /\ A1[x].next = A[x].next
                               /\ A1[x].prev = IF x = n THEN p ELSE A[x].prev
  <2>1. CASE n = END_FLAG
    <3>1. A1 = A
      BY <1>3, <2>1
    <3> QED BY <1>1, <2>1, <3>1, Ends DEF SameData
  <2>2. CASE n # END_FLAG
    <3>1. A1 = [A EXCEPT ![n].prev = p] /\ n \in Allocators
      BY <1>1, <1>3, <2>2
    <3> QED BY <1>1, <1>2, <3>1, Ends, SMTT(30) DEF SameData, Alloc
  <2> QED BY <2>1, <2>2
<1>5. /\ B \in [Allocators -> Alloc] /\ SameData(A1, B)
      /\ \A x \in Allocators : /\ B[x].prev = A1[x].prev
                               /\ B[x].next = IF x = p THEN n ELSE A1[x].next
  <2>1. CASE p = END_FLAG
    <3>1. B = A1
      BY <1>3, <2>1
    <3> QED BY <1>4, <2>1, <3>1, Ends DEF SameData
  <2>2. CASE p # END_FLAG
    <3>1. B = [A1 EXCEPT ![p].next = n] /\ p \in Allocators
      BY <1>1, <1>3, <2>2
    <3> QED BY <1>2, <1>4, <3>1, Ends, SMTT(30) DEF SameData, Alloc
  <2> QED BY <2>1, <2>2
<1>6. /\ C \in [Allocators -> Alloc] /\ SameData(B, C) /\ C[a].next = ht /\ C[a].prev = END_FLAG
      /\ \A x \in Allocators \ {a} : C[x].next = B[x].next /\ C[x].prev = B[x].prev
  <2>1. C = [B EXCEPT ![a].next = ht, ![a].prev = END_FLAG]
    BY <1>3, Zenon
  <2> QED BY <1>2, <1>5, <2>1, ZenonT(30) DEF SameData, Alloc
<1>7. /\ A2 \in [Allocators -> Alloc] /\ SameData(C, A2)
      /\ A2[a].next = ht /\ A2[a].prev = END_FLAG
      /\ \A x \in Allocators \ {a} : /\ A2[x].next = C[x].next
                                     /\ A2[x].prev = IF x = ht THEN a ELSE C[x].prev
  <2>1. CASE ht = END_FLAG
    <3>1. A2 = C
      BY <1>3, <2>1
    <3> QED BY <1>6, <2>1, <3>1, Ends DEF SameData
  <2>2. CASE ht # END_FLAG
    <3>1. A2 = [C EXCEPT ![ht].prev = a] /\ ht \in Allocators
      BY <1>1, <1>3, <2>2
    <3> QED BY <1>2, <1>6, <3>1 DEF SameData, Alloc
  <2> QED BY <2>1, <2>2
<1>8. SameData(A, A2)
  BY <1>4, <1>5, <1>6, <1>7 DEF SameData
<1>9. Moves(A, A2, hf, hf2, ht, a)
  <2>1. \A x \in Allocators \ {a} : A2[x].next = IF x = p THEN n ELSE A[x].next
    BY <1>4, <1>5, <1>6, <1>7
  <2>2. \A x \in Allocators \ {a} :
          A2[x].prev = IF x = n THEN p ELSE IF x = ht THEN a ELSE A[x].prev
    BY <1>2, <1>4, <1>5, <1>6, <1>7, Ends
  <2> QED BY <1>7, <1>n, <1>p, <2>1, <2>2 DEF Moves
<1> QED BY <1>7, <1>8, <1>9 DEF Arrives

\* A manager: the first allocators of its lists, and its allocators
Manager == [free : 0 .. END_FLAG, p_full : 0 .. END_FLAG, full : 0 .. END_FLAG,
            allocs : [Allocators -> Alloc]]

\* The first partially full allocator becomes full (kmalloc_helper), ...
LEMMA ToFullIs ==
  ASSUME NEW M \in Manager, NEW a, a = M.p_full
  PROVE  \E A2 : /\ PopPush(M.allocs, A2, M.full, a)
                 /\ PushFirst(PopFirst(M, "p_full"), a, "full") =
                      [free |-> M.free, p_full |-> M.allocs[a].next, full |-> a, allocs |-> A2]
<1>A. PICK A : A = M.allocs
  OBVIOUS
<1>1. PICK M1 : M1 = PopFirst(M, "p_full")
  OBVIOUS
<1>2. PICK M2 : M2 = PushFirst(M1, a, "full")
  OBVIOUS
<1>3. M1 = [M EXCEPT !.p_full = A[a].next,
                     !.allocs = IF A[a].next # END_FLAG
                                   THEN [A EXCEPT ![A[a].next].prev = A[a].prev] ELSE A]
  BY <1>1, <1>A DEF PopFirst, Manager
<1>4. /\ M1.free = M.free /\ M1.full = M.full /\ M1.p_full = A[a].next
      /\ M1.allocs = IF A[a].next # END_FLAG THEN [A EXCEPT ![A[a].next].prev = A[a].prev] ELSE A
      /\ DOMAIN M1 = {"free", "p_full", "full", "allocs"}
      /\ M1 = [free |-> M.free, p_full |-> A[a].next, full |-> M.full, allocs |-> M1.allocs]
  BY <1>3 DEF Manager
<1>5. M2 = [M1 EXCEPT !.full = a,
                      !.allocs = IF M.full # END_FLAG
                         THEN [M1.allocs EXCEPT ![a].next = M.full, ![a].prev = M1.allocs[M.full].prev,
                                                ![M.full].prev = a]
                         ELSE [M1.allocs EXCEPT ![a].next = M.full]]
  BY <1>2, <1>4, ZenonT(30) DEF PushFirst
<1>6. /\ M2.allocs = IF M.full # END_FLAG
                       THEN [M1.allocs EXCEPT ![a].next = M.full, ![a].prev = M1.allocs[M.full].prev,
                                              ![M.full].prev = a]
                       ELSE [M1.allocs EXCEPT ![a].next = M.full]
      /\ M2 = [free |-> M.free, p_full |-> A[a].next, full |-> a, allocs |-> M2.allocs]
  BY <1>4, <1>5, ZenonT(30)
<1>7. PopPush(A, M2.allocs, M.full, a)
  BY <1>4, <1>6 DEF PopPush
<1> QED BY <1>1, <1>2, <1>6, <1>7, <1>A

\* ... and the first free one partially full.
LEMMA ToPartialIs ==
  ASSUME NEW M \in Manager, NEW a, a = M.free
  PROVE  \E A2 : /\ PopPush(M.allocs, A2, M.p_full, a)
                 /\ PushFirst(PopFirst(M, "free"), a, "p_full") =
                      [free |-> M.allocs[a].next, p_full |-> a, full |-> M.full, allocs |-> A2]
<1>A. PICK A : A = M.allocs
  OBVIOUS
<1>1. PICK M1 : M1 = PopFirst(M, "free")
  OBVIOUS
<1>2. PICK M2 : M2 = PushFirst(M1, a, "p_full")
  OBVIOUS
<1>3. M1 = [M EXCEPT !.free = A[a].next,
                     !.allocs = IF A[a].next # END_FLAG
                                   THEN [A EXCEPT ![A[a].next].prev = A[a].prev] ELSE A]
  BY <1>1, <1>A DEF PopFirst, Manager
<1>4. /\ M1.p_full = M.p_full /\ M1.full = M.full /\ M1.free = A[a].next
      /\ M1.allocs = IF A[a].next # END_FLAG THEN [A EXCEPT ![A[a].next].prev = A[a].prev] ELSE A
      /\ DOMAIN M1 = {"free", "p_full", "full", "allocs"}
      /\ M1 = [free |-> A[a].next, p_full |-> M.p_full, full |-> M.full, allocs |-> M1.allocs]
  BY <1>3 DEF Manager
<1>5. M2 = [M1 EXCEPT !.p_full = a,
                      !.allocs = IF M.p_full # END_FLAG
                         THEN [M1.allocs EXCEPT ![a].next = M.p_full, ![a].prev = M1.allocs[M.p_full].prev,
                                                ![M.p_full].prev = a]
                         ELSE [M1.allocs EXCEPT ![a].next = M.p_full]]
  BY <1>2, <1>4, ZenonT(30) DEF PushFirst
<1>6. /\ M2.allocs = IF M.p_full # END_FLAG
                       THEN [M1.allocs EXCEPT ![a].next = M.p_full, ![a].prev = M1.allocs[M.p_full].prev,
                                              ![M.p_full].prev = a]
                       ELSE [M1.allocs EXCEPT ![a].next = M.p_full]
      /\ M2 = [free |-> A[a].next, p_full |-> a, full |-> M.full, allocs |-> M2.allocs]
  BY <1>4, <1>5, ZenonT(30)
<1>7. PopPush(A, M2.allocs, M.p_full, a)
  BY <1>4, <1>6 DEF PopPush
<1> QED BY <1>1, <1>2, <1>6, <1>7, <1>A

\* kfree gives the page of an allocator back, ...
LEMMA ToFreeIs ==
  ASSUME NEW M \in Manager, NEW a
  PROVE  \E A2, h :
           /\ Relink(M.allocs, A2, M.free, a)
           /\ h = IF M.allocs[a].prev = END_FLAG THEN M.allocs[a].next ELSE M.p_full
           /\ MoveFree(M, a, "p_full", "free") =
                [free |-> a, p_full |-> h, full |-> M.full, allocs |-> A2]
<1> DEFINE A  == M.allocs
           h  == IF A[a].prev = END_FLAG THEN A[a].next ELSE M.p_full
           M1 == [M EXCEPT !.p_full = h]
           ht == M1.free
           A1 == IF A[a].next # END_FLAG THEN [A EXCEPT ![A[a].next].prev = A[a].prev] ELSE A
           B  == IF A[a].prev # END_FLAG THEN [A1 EXCEPT ![A[a].prev].next = A[a].next] ELSE A1
           C  == [B EXCEPT ![a].next = ht, ![a].prev = END_FLAG]
           A2 == IF ht # END_FLAG THEN [C EXCEPT ![ht].prev = a] ELSE C
           M2 == [M1 EXCEPT !.free = a, !.allocs = A2]
<1>1. MoveFree(M, a, "p_full", "free") = M2
  BY Zenon DEF MoveFree
<1>2. Relink(A, A2, ht, a)
  BY Zenon DEF Relink
<1> HIDE DEF A2, h
<1>3. ht = M.free /\ M1 = [free |-> M.free, p_full |-> h, full |-> M.full, allocs |-> M.allocs]
  BY DEF Manager
<1> HIDE DEF M1
<1>4. M2 = [free |-> a, p_full |-> h, full |-> M.full, allocs |-> A2]
  <2>1. PICK N : N = M1
    OBVIOUS
  <2>2. N = [free |-> M.free, p_full |-> h, full |-> M.full, allocs |-> M.allocs]
    BY <1>3, <2>1
  <2>3. PICK X : X = [N EXCEPT !.free = a, !.allocs = A2]
    OBVIOUS
  <2>4. X = [free |-> a, p_full |-> h, full |-> M.full, allocs |-> A2]
    BY <2>2, <2>3
  <2> QED BY <2>1, <2>3, <2>4
<1> QED BY <1>1, <1>2, <1>3, <1>4, SMTT(30) DEF h

\* ... or takes it off the full list.
LEMMA LeavesFullIs ==
  ASSUME NEW M \in Manager, NEW a
  PROVE  \E A2, h :
           /\ Relink(M.allocs, A2, M.p_full, a)
           /\ h = IF M.allocs[a].prev = END_FLAG THEN M.allocs[a].next ELSE M.full
           /\ MoveFree(M, a, "full", "p_full") =
                [free |-> M.free, p_full |-> a, full |-> h, allocs |-> A2]
<1> DEFINE A  == M.allocs
           h  == IF A[a].prev = END_FLAG THEN A[a].next ELSE M.full
           M1 == [M EXCEPT !.full = h]
           ht == M1.p_full
           A1 == IF A[a].next # END_FLAG THEN [A EXCEPT ![A[a].next].prev = A[a].prev] ELSE A
           B  == IF A[a].prev # END_FLAG THEN [A1 EXCEPT ![A[a].prev].next = A[a].next] ELSE A1
           C  == [B EXCEPT ![a].next = ht, ![a].prev = END_FLAG]
           A2 == IF ht # END_FLAG THEN [C EXCEPT ![ht].prev = a] ELSE C
           M2 == [M1 EXCEPT !.p_full = a, !.allocs = A2]
<1>1. MoveFree(M, a, "full", "p_full") = M2
  BY Zenon DEF MoveFree
<1>2. Relink(A, A2, ht, a)
  BY Zenon DEF Relink
<1> HIDE DEF A2, h
<1>3. ht = M.p_full /\ M1 = [free |-> M.free, p_full |-> M.p_full, full |-> h, allocs |-> M.allocs]
  BY DEF Manager
<1> HIDE DEF M1
<1>4. M2 = [free |-> M.free, p_full |-> a, full |-> h, allocs |-> A2]
  <2>1. PICK N : N = M1
    OBVIOUS
  <2>2. N = [free |-> M.free, p_full |-> M.p_full, full |-> h, allocs |-> M.allocs]
    BY <1>3, <2>1
  <2>3. PICK X : X = [N EXCEPT !.p_full = a, !.allocs = A2]
    OBVIOUS
  <2>4. X = [free |-> M.free, p_full |-> a, full |-> h, allocs |-> A2]
    BY <2>2, <2>3
  <2> QED BY <2>1, <2>3, <2>4
<1> QED BY <1>1, <1>2, <1>3, <1>4 DEF h

----------------------------------------------------------------------------
(* A manager                                                               *)

\* The allocators that belong on each of the lists
OnFree(A)    == {a \in Allocators : A[a].page = NULL}
OnPartial(A) == {a \in Allocators : A[a].page # NULL /\ A[a].avai_num > 0}
OnFull(A)    == {a \in Allocators : A[a].page # NULL /\ A[a].avai_num = 0}

\* The lists hold them.
Lists(M) ==
  /\ DList(M.free, M.allocs, OnFree(M.allocs))
  /\ DList(M.p_full, M.allocs, OnPartial(M.allocs))
  /\ DList(M.full, M.allocs, OnFull(M.allocs))

\* Only what allocator a says of its page has changed.
Changes(M, M1, a) ==
  /\ M \in Manager /\ M1 \in Manager /\ a \in Allocators
  /\ M1.free = M.free /\ M1.p_full = M.p_full /\ M1.full = M.full
  /\ \A x \in Allocators : /\ M1.allocs[x].next = M.allocs[x].next
                           /\ M1.allocs[x].prev = M.allocs[x].prev
                           /\ x # a => M1.allocs[x] = M.allocs[x]

\* The lists depend on the links only.
LEMMA DFrame ==
  ASSUME NEW h, NEW A, NEW A2, NEW S, DList(h, A, S),
         \A x \in Allocators : A2[x].next = A[x].next /\ A2[x].prev = A[x].prev
  PROVE  DList(h, A2, S)
<1>1. /\ S \subseteq Allocators /\ h \in S \union {END_FLAG}
      /\ \A x \in S : A[x].next \in S \union {END_FLAG}
  BY DLinks
<1>2. IsList(h, A2, S)
  BY <1>1, ListFrame DEF DList
<1>3. h # END_FLAG => A2[h].prev = END_FLAG
  BY <1>1 DEF DList
<1>4. \A x \in S : A2[x].next # END_FLAG => A2[A2[x].next].prev = x
  BY <1>1 DEF DList
<1> QED BY <1>2, <1>3, <1>4 DEF DList

\* The three lists of a manager in the order of a move
Three(A, S, T, U, hf, ht, ho, a) ==
  /\ DList(hf, A, S) /\ DList(ht, A, T) /\ DList(ho, A, U)
  /\ S \intersect T = {} /\ S \intersect U = {} /\ T \intersect U = {} /\ a \in S

\* A move from S to T
LEMMA Refile ==
  ASSUME NEW A, NEW A2, NEW S, NEW T, NEW U, NEW hf, NEW hf2, NEW ht, NEW ho, NEW a,
         Three(A, S, T, U, hf, ht, ho, a), Arrives(A, A2, hf, hf2, ht, a)
  PROVE  DList(hf2, A2, S \ {a}) /\ DList(a, A2, T \union {a}) /\ DList(ho, A2, U)
<1>1. Moving(A, A2, S, T, hf, hf2, ht, a)
  BY DEF Three, Arrives, Moving
<1>2. DList(hf2, A2, S \ {a})
  BY <1>1, MovedFrom
<1>3. DList(a, A2, T \union {a})
  BY <1>1, MovedTo
<1>4. DList(ho, A2, U)
  <2>1. DList(ho, A, U) /\ U \intersect S = {} /\ U \intersect T = {}
    BY DEF Three
  <2> QED BY <1>1, <2>1, MovedOther
<1> QED BY <1>2, <1>3, <1>4

\* The lists before a move, when allocator a is already marked for another one
LEMMA MarkedLists ==
  ASSUME NEW M, NEW M1, NEW a, Changes(M, M1, a), Lists(M)
  PROVE  /\ M1.allocs \in [Allocators -> Alloc]
         /\ DList(M1.free, M1.allocs, OnFree(M.allocs))
         /\ DList(M1.p_full, M1.allocs, OnPartial(M.allocs))
         /\ DList(M1.full, M1.allocs, OnFull(M.allocs))
         /\ OnFree(M.allocs) \intersect OnPartial(M.allocs) = {}
         /\ OnFree(M.allocs) \intersect OnFull(M.allocs) = {}
         /\ OnPartial(M.allocs) \intersect OnFull(M.allocs) = {}
<1>1. M1.allocs \in [Allocators -> Alloc]
  BY DEF Changes, Manager
<1>2. \A x \in Allocators : M1.allocs[x].next = M.allocs[x].next /\ M1.allocs[x].prev = M.allocs[x].prev
  BY DEF Changes
<1>3. M1.free = M.free /\ M1.p_full = M.p_full /\ M1.full = M.full
  BY DEF Changes
<1>4. DList(M1.free, M1.allocs, OnFree(M.allocs))
  BY <1>2, <1>3, DFrame DEF Lists
<1>5. DList(M1.p_full, M1.allocs, OnPartial(M.allocs))
  BY <1>2, <1>3, DFrame DEF Lists
<1>6. DList(M1.full, M1.allocs, OnFull(M.allocs))
  BY <1>2, <1>3, DFrame DEF Lists
<1>7. /\ OnFree(M.allocs) \intersect OnPartial(M.allocs) = {}
      /\ OnFree(M.allocs) \intersect OnFull(M.allocs) = {}
      /\ OnPartial(M.allocs) \intersect OnFull(M.allocs) = {}
  BY DEF OnFree, OnPartial, OnFull
<1> QED BY <1>1, <1>4, <1>5, <1>6, <1>7

\* Where the allocators belong once a was marked and moved
LEMMA MarkedSets ==
  ASSUME NEW M, NEW M1, NEW a, NEW A2, Changes(M, M1, a), SameData(M1.allocs, A2)
  PROVE  /\ OnFree(A2) = OnFree(M1.allocs) /\ OnPartial(A2) = OnPartial(M1.allocs)
         /\ OnFull(A2) = OnFull(M1.allocs)
         /\ OnFree(M1.allocs) \ {a} = OnFree(M.allocs) \ {a}
         /\ OnPartial(M1.allocs) \ {a} = OnPartial(M.allocs) \ {a}
         /\ OnFull(M1.allocs) \ {a} = OnFull(M.allocs) \ {a}
<1>1. /\ OnFree(A2) = OnFree(M1.allocs) /\ OnPartial(A2) = OnPartial(M1.allocs)
      /\ OnFull(A2) = OnFull(M1.allocs)
  BY DEF SameData, OnFree, OnPartial, OnFull
<1>2. /\ OnFree(M1.allocs) \ {a} = OnFree(M.allocs) \ {a}
      /\ OnPartial(M1.allocs) \ {a} = OnPartial(M.allocs) \ {a}
      /\ OnFull(M1.allocs) \ {a} = OnFull(M.allocs) \ {a}
  BY DEF Changes, OnFree, OnPartial, OnFull
<1> QED BY <1>1, <1>2

\* The manager M2 has whole lists, and its allocators say what M1's do.
Filed(M1, M2) == M2 \in Manager /\ Lists(M2) /\ SameData(M1.allocs, M2.allocs)

\* kmalloc takes the last slice of a page, ...
LEMMA ToFull ==
  ASSUME NEW M, NEW M1, NEW a, Changes(M, M1, a), Lists(M), a = M.p_full,
         a \in OnPartial(M.allocs), a \in OnFull(M1.allocs)
  PROVE  Filed(M1, PushFirst(PopFirst(M1, "p_full"), a, "full"))
<1>0. M1 \in Manager /\ a = M1.p_full /\ a \in Allocators
  BY DEF Changes
<1>1. PICK A2 : /\ PopPush(M1.allocs, A2, M1.full, a)
                /\ PushFirst(PopFirst(M1, "p_full"), a, "full") =
                     [free |-> M1.free, p_full |-> M1.allocs[a].next, full |-> a, allocs |-> A2]
  BY <1>0, ToFullIs
<1>2. /\ Three(M1.allocs, OnPartial(M.allocs), OnFull(M.allocs), OnFree(M.allocs),
               a, M1.full, M1.free, a)
      /\ Apart(M1.allocs, OnPartial(M.allocs), OnFull(M.allocs), a, M1.full, a)
  BY <1>0, MarkedLists DEF Three, Apart
<1>3. Arrives(M1.allocs, A2, a, M1.allocs[a].next, M1.full, a)
  BY <1>1, <1>2, PopPushMoves
<1>4. /\ DList(M1.allocs[a].next, A2, OnPartial(M.allocs) \ {a})
      /\ DList(a, A2, OnFull(M.allocs) \union {a}) /\ DList(M1.free, A2, OnFree(M.allocs))
  BY <1>2, <1>3, Refile
<1>5. SameData(M1.allocs, A2) /\ A2 \in [Allocators -> Alloc]
  BY <1>3 DEF Arrives
<1>6. /\ OnFree(A2) = OnFree(M.allocs) /\ OnPartial(A2) = OnPartial(M.allocs) \ {a}
      /\ OnFull(A2) = OnFull(M.allocs) \union {a}
  <2>1. a \notin OnFree(M.allocs) /\ a \notin OnFree(M1.allocs) /\ a \notin OnPartial(M1.allocs)
    BY DEF OnFree, OnPartial, OnFull
  <2>2. /\ OnPartial(A2) = OnPartial(M1.allocs) /\ OnFull(A2) = OnFull(M1.allocs) /\ OnFree(A2) = OnFree(M1.allocs)
        /\ OnPartial(M1.allocs) \ {a} = OnPartial(M.allocs) \ {a}
        /\ OnFull(M1.allocs) \ {a} = OnFull(M.allocs) \ {a}
        /\ OnFree(M1.allocs) \ {a} = OnFree(M.allocs) \ {a}
    BY <1>5, MarkedSets
  <2> QED BY <2>1, <2>2
<1>7. PICK M2 : M2 = [free |-> M1.free, p_full |-> M1.allocs[a].next, full |-> a, allocs |-> A2]
  OBVIOUS
<1>8. M2 \in Manager
  <2>1. M1.free \in 0 .. END_FLAG /\ M1.allocs[a].next \in 0 .. END_FLAG /\ a \in 0 .. END_FLAG
    BY <1>0, Ends DEF Manager, Alloc
  <2> QED BY <1>5, <1>7, <2>1 DEF Manager
<1>9. Lists(M2)
  BY <1>4, <1>6, <1>7 DEF Lists
<1> QED BY <1>1, <1>5, <1>7, <1>8, <1>9 DEF Filed

\* ... or cuts a new page into slices.
LEMMA ToPartial ==
  ASSUME NEW M, NEW M1, NEW a, Changes(M, M1, a), Lists(M), a = M.free,
         a \in OnFree(M.allocs), a \in OnPartial(M1.allocs)
  PROVE  Filed(M1, PushFirst(PopFirst(M1, "free"), a, "p_full"))
<1>0. M1 \in Manager /\ a = M1.free /\ a \in Allocators
  BY DEF Changes
<1>1. PICK A2 : /\ PopPush(M1.allocs, A2, M1.p_full, a)
                /\ PushFirst(PopFirst(M1, "free"), a, "p_full") =
                     [free |-> M1.allocs[a].next, p_full |-> a, full |-> M1.full, allocs |-> A2]
  BY <1>0, ToPartialIs
<1>2. /\ Three(M1.allocs, OnFree(M.allocs), OnPartial(M.allocs), OnFull(M.allocs),
               a, M1.p_full, M1.full, a)
      /\ Apart(M1.allocs, OnFree(M.allocs), OnPartial(M.allocs), a, M1.p_full, a)
  BY <1>0, MarkedLists DEF Three, Apart
<1>3. Arrives(M1.allocs, A2, a, M1.allocs[a].next, M1.p_full, a)
  BY <1>1, <1>2, PopPushMoves
<1>4. /\ DList(M1.allocs[a].next, A2, OnFree(M.allocs) \ {a})
      /\ DList(a, A2, OnPartial(M.allocs) \union {a}) /\ DList(M1.full, A2, OnFull(M.allocs))
  BY <1>2, <1>3, Refile
<1>5. SameData(M1.allocs, A2) /\ A2 \in [Allocators -> Alloc]
  BY <1>3 DEF Arrives
<1>6. /\ OnFull(A2) = OnFull(M.allocs) /\ OnFree(A2) = OnFree(M.allocs) \ {a}
      /\ OnPartial(A2) = OnPartial(M.allocs) \union {a}
  <2>1. a \notin OnFull(M.allocs) /\ a \notin OnFull(M1.allocs) /\ a \notin OnFree(M1.allocs)
    BY DEF OnFree, OnPartial, OnFull
  <2>2. /\ OnFree(A2) = OnFree(M1.allocs) /\ OnPartial(A2) = OnPartial(M1.allocs) /\ OnFull(A2) = OnFull(M1.allocs)
        /\ OnFree(M1.allocs) \ {a} = OnFree(M.allocs) \ {a}
        /\ OnPartial(M1.allocs) \ {a} = OnPartial(M.allocs) \ {a}
        /\ OnFull(M1.allocs) \ {a} = OnFull(M.allocs) \ {a}
    BY <1>5, MarkedSets
  <2> QED BY <2>1, <2>2
<1>7. PICK M2 : M2 = [free |-> M1.allocs[a].next, p_full |-> a, full |-> M1.full, allocs |-> A2]
  OBVIOUS
<1>8. M2 \in Manager
  <2>1. M1.full \in 0 .. END_FLAG /\ M1.allocs[a].next \in 0 .. END_FLAG /\ a \in 0 .. END_FLAG
    BY <1>0, Ends DEF Manager, Alloc
  <2> QED BY <1>5, <1>7, <2>1 DEF Manager
<1>9. Lists(M2)
  BY <1>4, <1>6, <1>7 DEF Lists
<1> QED BY <1>1, <1>5, <1>7, <1>8, <1>9 DEF Filed

\* kfree frees the last slice of a page that was in use, ...
LEMMA ToFree ==
  ASSUME NEW M, NEW M1, NEW a, Changes(M, M1, a), Lists(M),
         a \in OnPartial(M.allocs), a \in OnFree(M1.allocs)
  PROVE  Filed(M1, MoveFree(M1, a, "p_full", "free"))
<1>0. M1 \in Manager /\ a \in Allocators
  BY DEF Changes
<1>1. PICK A2, h :
        /\ Relink(M1.allocs, A2, M1.free, a)
        /\ h = IF M1.allocs[a].prev = END_FLAG THEN M1.allocs[a].next ELSE M1.p_full
        /\ MoveFree(M1, a, "p_full", "free") =
             [free |-> a, p_full |-> h, full |-> M1.full, allocs |-> A2]
  BY <1>0, ToFreeIs
<1>2. /\ Three(M1.allocs, OnPartial(M.allocs), OnFree(M.allocs), OnFull(M.allocs),
               M1.p_full, M1.free, M1.full, a)
      /\ Apart(M1.allocs, OnPartial(M.allocs), OnFree(M.allocs), M1.p_full, M1.free, a)
  BY <1>0, MarkedLists DEF Three, Apart
<1>3. Arrives(M1.allocs, A2, M1.p_full, h, M1.free, a)
  BY <1>1, <1>2, RelinkMoves
<1>4. /\ DList(h, A2, OnPartial(M.allocs) \ {a})
      /\ DList(a, A2, OnFree(M.allocs) \union {a}) /\ DList(M1.full, A2, OnFull(M.allocs))
  BY <1>2, <1>3, Refile
<1>5. SameData(M1.allocs, A2) /\ A2 \in [Allocators -> Alloc]
  BY <1>3 DEF Arrives
<1>6. /\ OnFull(A2) = OnFull(M.allocs) /\ OnPartial(A2) = OnPartial(M.allocs) \ {a}
      /\ OnFree(A2) = OnFree(M.allocs) \union {a}
  <2>1. a \notin OnFull(M.allocs) /\ a \notin OnFull(M1.allocs) /\ a \notin OnPartial(M1.allocs)
    BY DEF OnFree, OnPartial, OnFull
  <2>2. /\ OnPartial(A2) = OnPartial(M1.allocs) /\ OnFree(A2) = OnFree(M1.allocs) /\ OnFull(A2) = OnFull(M1.allocs)
        /\ OnPartial(M1.allocs) \ {a} = OnPartial(M.allocs) \ {a}
        /\ OnFree(M1.allocs) \ {a} = OnFree(M.allocs) \ {a}
        /\ OnFull(M1.allocs) \ {a} = OnFull(M.allocs) \ {a}
    BY <1>5, MarkedSets
  <2> QED BY <2>1, <2>2
<1>7. PICK M2 : M2 = [free |-> a, p_full |-> h, full |-> M1.full, allocs |-> A2]
  OBVIOUS
<1>8. M2 \in Manager
  <2>1. M1.full \in 0 .. END_FLAG /\ h \in 0 .. END_FLAG /\ a \in 0 .. END_FLAG
    BY <1>0, <1>1, Ends DEF Manager, Alloc
  <2> QED BY <1>5, <1>7, <2>1 DEF Manager
<1>9. Lists(M2)
  BY <1>4, <1>6, <1>7 DEF Lists
<1> QED BY <1>1, <1>5, <1>7, <1>8, <1>9 DEF Filed

\* ... or the first one of a full page.
LEMMA LeaveFull ==
  ASSUME NEW M, NEW M1, NEW a, Changes(M, M1, a), Lists(M),
         a \in OnFull(M.allocs), a \in OnPartial(M1.allocs)
  PROVE  Filed(M1, MoveFree(M1, a, "full", "p_full"))
<1>0. M1 \in Manager /\ a \in Allocators
  BY DEF Changes
<1>1. PICK A2, h :
        /\ Relink(M1.allocs, A2, M1.p_full, a)
        /\ h = IF M1.allocs[a].prev = END_FLAG THEN M1.allocs[a].next ELSE M1.full
        /\ MoveFree(M1, a, "full", "p_full") =
             [free |-> M1.free, p_full |-> a, full |-> h, allocs |-> A2]
  BY <1>0, LeavesFullIs
<1>2. /\ Three(M1.allocs, OnFull(M.allocs), OnPartial(M.allocs), OnFree(M.allocs),
               M1.full, M1.p_full, M1.free, a)
      /\ Apart(M1.allocs, OnFull(M.allocs), OnPartial(M.allocs), M1.full, M1.p_full, a)
  BY <1>0, MarkedLists DEF Three, Apart
<1>3. Arrives(M1.allocs, A2, M1.full, h, M1.p_full, a)
  BY <1>1, <1>2, RelinkMoves
<1>4. /\ DList(h, A2, OnFull(M.allocs) \ {a})
      /\ DList(a, A2, OnPartial(M.allocs) \union {a}) /\ DList(M1.free, A2, OnFree(M.allocs))
  BY <1>2, <1>3, Refile
<1>5. SameData(M1.allocs, A2) /\ A2 \in [Allocators -> Alloc]
  BY <1>3 DEF Arrives
<1>6. /\ OnFree(A2) = OnFree(M.allocs) /\ OnFull(A2) = OnFull(M.allocs) \ {a}
      /\ OnPartial(A2) = OnPartial(M.allocs) \union {a}
  <2>1. a \notin OnFree(M.allocs) /\ a \notin OnFree(M1.allocs) /\ a \notin OnFull(M1.allocs)
    BY DEF OnFree, OnPartial, OnFull
  <2>2. /\ OnFull(A2) = OnFull(M1.allocs) /\ OnPartial(A2) = OnPartial(M1.allocs) /\ OnFree(A2) = OnFree(M1.allocs)
        /\ OnFull(M1.allocs) \ {a} = OnFull(M.allocs) \ {a}
        /\ OnPartial(M1.allocs) \ {a} = OnPartial(M.allocs) \ {a}
        /\ OnFree(M1.allocs) \ {a} = OnFree(M.allocs) \ {a}
    BY <1>5, MarkedSets
  <2> QED BY <2>1, <2>2
<1>7. PICK M2 : M2 = [free |-> M1.free, p_full |-> a, full |-> h, allocs |-> A2]
  OBVIOUS
<1>8. M2 \in Manager
  <2>1. M1.free \in 0 .. END_FLAG /\ h \in 0 .. END_FLAG /\ a \in 0 .. END_FLAG
    BY <1>0, <1>1, Ends DEF Manager, Alloc
  <2> QED BY <1>5, <1>7, <2>1 DEF Manager
<1>9. Lists(M2)
  BY <1>4, <1>6, <1>7 DEF Lists
<1> QED BY <1>1, <1>5, <1>7, <1>8, <1>9 DEF Filed

----------------------------------------------------------------------------
(* Marking an allocator                                                    *)

\* M1 is M in which allocator a says this of its page, and nothing else changed.
Marks(M, M1, a, page, bits, num) ==
  /\ Changes(M, M1, a)
  /\ M1.allocs[a].page = page /\ M1.allocs[a].first_avai = bits /\ M1.allocs[a].avai_num = num

\* kmalloc hands out a slice of the page, ...
LEMMA MarkTake ==
  ASSUME NEW M \in Manager, NEW a \in Allocators, NEW bits \in SUBSET Slices, NEW num \in Nat,
         (M.allocs[a].avai_num + 255) % 256 = num
  PROVE  Marks(M, [M EXCEPT !.allocs[a].first_avai = bits,
                      !.allocs[a].avai_num = (@ + 255) % 256],
               a, M.allocs[a].page, bits, num)
<1>1. M.allocs \in [Allocators -> Alloc] /\ M.allocs[a] \in Alloc
  BY DEF Manager
<1>2. PICK M1 : M1 = [M EXCEPT !.allocs[a].first_avai = bits,
                      !.allocs[a].avai_num = (@ + 255) % 256]
  OBVIOUS
<1>3. PICK A : A = M.allocs
  OBVIOUS
<1>4. /\ M1.free = M.free /\ M1.p_full = M.p_full /\ M1.full = M.full
      /\ M1.allocs = [A EXCEPT ![a].first_avai = bits, ![a].avai_num = num]
      /\ M1 = [free |-> M.free, p_full |-> M.p_full, full |-> M.full, allocs |-> M1.allocs]
  BY <1>2, <1>3, ZenonT(30) DEF Manager
<1>5. /\ M1.allocs \in [Allocators -> Alloc] /\ M1.allocs[a].prev = A[a].prev
      /\ M1.allocs[a].next = A[a].next /\ \A x \in Allocators \ {a} : M1.allocs[x] = A[x]
      /\ M1.allocs[a].page = M.allocs[a].page /\ M1.allocs[a].first_avai = bits
      /\ M1.allocs[a].avai_num = num
  BY <1>1, <1>3, <1>4, SMTT(30) DEF Alloc
<1>6. M1 \in Manager
  BY <1>4, <1>5 DEF Manager
<1>7. Changes(M, M1, a)
  BY <1>3, <1>4, <1>5, <1>6 DEF Changes
<1> QED BY <1>2, <1>5, <1>7 DEF Marks

\* ... or gets the page, ...
LEMMA MarkFresh ==
  ASSUME NEW M \in Manager, NEW a \in Allocators, NEW page \in Pages \union {NULL, NoPage},
         NEW bits \in SUBSET Slices, NEW num \in Nat
  PROVE  Marks(M, [M EXCEPT !.allocs[a].page = page, !.allocs[a].avai_num = num,
                      !.allocs[a].first_avai = bits],
               a, page, bits, num)
<1>1. M.allocs \in [Allocators -> Alloc] /\ M.allocs[a] \in Alloc
  BY DEF Manager
<1>2. PICK M1 : M1 = [M EXCEPT !.allocs[a].page = page, !.allocs[a].avai_num = num,
                      !.allocs[a].first_avai = bits]
  OBVIOUS
<1>3. PICK A : A = M.allocs
  OBVIOUS
<1>4. /\ M1.free = M.free /\ M1.p_full = M.p_full /\ M1.full = M.full
      /\ M1.allocs = [A EXCEPT ![a].page = page, ![a].avai_num = num, ![a].first_avai = bits]
      /\ M1 = [free |-> M.free, p_full |-> M.p_full, full |-> M.full, allocs |-> M1.allocs]
  BY <1>2, <1>3 DEF Manager
<1>5. /\ M1.allocs \in [Allocators -> Alloc] /\ M1.allocs[a].prev = A[a].prev
      /\ M1.allocs[a].next = A[a].next /\ \A x \in Allocators \ {a} : M1.allocs[x] = A[x]
      /\ M1.allocs[a].page = page /\ M1.allocs[a].first_avai = bits
      /\ M1.allocs[a].avai_num = num
  <2>1. PICK B : B = [A EXCEPT ![a].page = page, ![a].avai_num = num]
    OBVIOUS
  <2>2. /\ B \in [Allocators -> Alloc] /\ B[a].prev = A[a].prev /\ B[a].next = A[a].next
        /\ B[a].page = page /\ B[a].avai_num = num /\ \A x \in Allocators \ {a} : B[x] = A[x]
    BY <1>1, <1>3, <2>1 DEF Alloc
  <2>3. M1.allocs = [B EXCEPT ![a].first_avai = bits]
    BY <1>4, <2>1
  <2> QED BY <2>2, <2>3 DEF Alloc
<1>6. M1 \in Manager
  BY <1>4, <1>5, SMTT(30) DEF Manager
<1>7. Changes(M, M1, a)
  BY <1>3, <1>4, <1>5, <1>6 DEF Changes
<1> QED BY <1>2, <1>5, <1>7 DEF Marks

\* ... and kfree takes a slice back, ...
LEMMA MarkGive ==
  ASSUME NEW M \in Manager, NEW a \in Allocators, NEW bits \in SUBSET Slices, NEW num \in Nat
  PROVE  Marks(M, [M EXCEPT !.allocs[a].avai_num = num, !.allocs[a].first_avai = bits],
               a, M.allocs[a].page, bits, num)
<1>1. M.allocs \in [Allocators -> Alloc] /\ M.allocs[a] \in Alloc
  BY DEF Manager
<1>2. PICK M1 : M1 = [M EXCEPT !.allocs[a].avai_num = num, !.allocs[a].first_avai = bits]
  OBVIOUS
<1>3. PICK A : A = M.allocs
  OBVIOUS
<1>4. /\ M1.free = M.free /\ M1.p_full = M.p_full /\ M1.full = M.full
      /\ M1.allocs = [A EXCEPT ![a].avai_num = num, ![a].first_avai = bits]
      /\ M1 = [free |-> M.free, p_full |-> M.p_full, full |-> M.full, allocs |-> M1.allocs]
  BY <1>2, <1>3 DEF Manager
<1>5. /\ M1.allocs \in [Allocators -> Alloc] /\ M1.allocs[a].prev = A[a].prev
      /\ M1.allocs[a].next = A[a].next /\ \A x \in Allocators \ {a} : M1.allocs[x] = A[x]
      /\ M1.allocs[a].page = M.allocs[a].page /\ M1.allocs[a].first_avai = bits
      /\ M1.allocs[a].avai_num = num
  BY <1>1, <1>3, <1>4 DEF Alloc
<1>6. M1 \in Manager
  BY <1>4, <1>5 DEF Manager
<1>7. Changes(M, M1, a)
  BY <1>3, <1>4, <1>5, <1>6 DEF Changes
<1> QED BY <1>2, <1>5, <1>7 DEF Marks

\* ... and then the page itself.
LEMMA MarkEmpty ==
  ASSUME NEW M \in Manager, NEW a \in Allocators, NEW page \in Pages \union {NULL, NoPage}, NEW num \in Nat
  PROVE  Marks(M, [M EXCEPT !.allocs[a].page = page, !.allocs[a].avai_num = num],
               a, page, M.allocs[a].first_avai, num)
<1>1. M.allocs \in [Allocators -> Alloc] /\ M.allocs[a] \in Alloc
  BY DEF Manager
<1>2. PICK M1 : M1 = [M EXCEPT !.allocs[a].page = page, !.allocs[a].avai_num = num]
  OBVIOUS
<1>3. PICK A : A = M.allocs
  OBVIOUS
<1>4. /\ M1.free = M.free /\ M1.p_full = M.p_full /\ M1.full = M.full
      /\ M1.allocs = [A EXCEPT ![a].page = page, ![a].avai_num = num]
      /\ M1 = [free |-> M.free, p_full |-> M.p_full, full |-> M.full, allocs |-> M1.allocs]
  BY <1>2, <1>3 DEF Manager
<1>5. /\ M1.allocs \in [Allocators -> Alloc] /\ M1.allocs[a].prev = A[a].prev
      /\ M1.allocs[a].next = A[a].next /\ \A x \in Allocators \ {a} : M1.allocs[x] = A[x]
      /\ M1.allocs[a].page = page /\ M1.allocs[a].first_avai = M.allocs[a].first_avai
      /\ M1.allocs[a].avai_num = num
  BY <1>1, <1>3, <1>4 DEF Alloc
<1>6. M1 \in Manager
  BY <1>4, <1>5 DEF Manager
<1>7. Changes(M, M1, a)
  BY <1>3, <1>4, <1>5, <1>6 DEF Changes
<1> QED BY <1>2, <1>5, <1>7 DEF Marks

----------------------------------------------------------------------------
(* Sets of slices                                                          *)

\* The sizes for which first_avai is a bitmap: a byte counts the slices.
BitmapMode == ~LinkedMode /\ SliceCount <= 255

\* A page has SliceCount slices.
LEMMA SlicesFinite ==
  /\ IsFiniteSet(Slices) /\ Cardinality(Slices) = SliceCount /\ SliceCount \in Nat /\ SliceCount > 1
  /\ 0 \in Slices
<1>1. SliceCount \in Nat /\ SliceCount > 1
  BY SliceAssumption
<1>2. ASSUME NEW m \in Nat
      PROVE  IsFiniteSet(0 .. m - 1) /\ Cardinality(0 .. m - 1) = m
  <2> PICK e \in Int : e = m - 1
    OBVIOUS
  <2>1. /\ IsFiniteSet(0 .. e)
        /\ Cardinality(0 .. e) = IF 0 > e THEN 0 ELSE e - 0 + 1
    BY FS_Interval
  <2> QED BY <2>1
<1>3. IsFiniteSet(Slices) /\ Cardinality(Slices) = SliceCount
  BY <1>1, <1>2 DEF Slices
<1> QED BY <1>1, <1>3 DEF Slices

\* How many slices a bitmap has, and with one more or one less
LEMMA Bits ==
  ASSUME NEW bits \in SUBSET Slices
  PROVE  /\ IsFiniteSet(bits) /\ Cardinality(bits) \in 0 .. SliceCount
         /\ Cardinality(bits) = SliceCount <=> bits = Slices
         /\ Cardinality(bits) = 0 <=> bits = {}
         /\ \A s \in Slices \ bits : Cardinality(bits \union {s}) = Cardinality(bits) + 1
         /\ \A s \in bits : Cardinality(bits \ {s}) = Cardinality(bits) - 1
<1>1. IsFiniteSet(bits)
  BY SlicesFinite, FS_Subset
<1>2. Cardinality(bits) \in Nat /\ Cardinality(bits) <= SliceCount
  BY <1>1, SlicesFinite, FS_Subset, FS_CardinalityType
<1>3. Cardinality(bits) = SliceCount <=> bits = Slices
  BY SlicesFinite, FS_Subset
<1>4. Cardinality(bits) = 0 <=> bits = {}
  BY <1>1, FS_EmptySet
<1>5. \A s \in Slices \ bits : Cardinality(bits \union {s}) = Cardinality(bits) + 1
  BY <1>1, FS_AddElement
<1>6. \A s \in bits : Cardinality(bits \ {s}) = Cardinality(bits) - 1
  BY <1>1, FS_RemoveElement
<1> QED BY <1>1, <1>2, <1>3, <1>4, <1>5, <1>6, SlicesFinite

\* get_slice_addr finds a clear bit when there is one.
LEMMA FirstClearIs ==
  ASSUME NEW bits \in SUBSET Slices, bits # Slices
  PROVE  FirstClear(bits) \in Slices \ bits
<1>1. SliceCount \in Nat /\ SliceCount > 1
  BY SliceAssumption
<1>2. Slices \ bits # {} /\ Slices \ bits \subseteq Nat
  <2>1. Slices \subseteq Nat
    BY <1>1 DEF Slices
  <2> QED BY <2>1
<1>3. PICK s \in Slices \ bits : \A j \in Slices \ bits : ~ (j < s)
  BY <1>2, LeastElement
<1>4. s \in 0 .. SliceCount /\ s \notin bits /\ \A k \in 0 .. s - 1 : k \in bits
  BY <1>1, <1>3 DEF Slices
<1>5. PICK c : c = FirstClear(bits)
  OBVIOUS
<1>6. c \in 0 .. SliceCount /\ c \notin bits /\ \A k \in 0 .. c - 1 : k \in bits
  BY <1>4, <1>5 DEF FirstClear
<1>7. ~ (s < c)
  BY <1>1, <1>3, <1>6 DEF Slices
<1> QED BY <1>1, <1>3, <1>5, <1>6, <1>7 DEF Slices

----------------------------------------------------------------------------
(* The inductive invariant                                                 *)

\* The managers are numbered, and their lists are whole.
Pool ==
  /\ \E N \in Nat : DOMAIN managers = 1 .. N
  /\ \A m \in DOMAIN managers : managers[m] \in Manager /\ Lists(managers[m])

\* An allocator knows which slices of its page are in use and how many are
\* not, and its page knows it.
Known ==
  \A m \in DOMAIN managers : \A a \in Allocators :
    LET A == managers[m].allocs[a]
    IN  /\ A.page = NULL => A.avai_num = 0
        /\ A.page # NULL => A.avai_num = SliceCount - Cardinality(A.first_avai)
        /\ A.page \in Pages => /\ allocator[A.page] = <<m, a>>
                               /\ A.first_avai = {s \in Slices : <<A.page, s>> \in live}

\* A page that is in use has an allocator.
Owned ==
  /\ allocator = [p \in Pages |-> allocator[p]]
  /\ \A p \in Pages : allocator[p] # NULL =>
       \E m \in DOMAIN managers, a \in Allocators :
         allocator[p] = <<m, a>> /\ managers[m].allocs[a].page = p

\* Slices in use are slices of pages in use.
Used ==
  /\ live \subseteq (Pages \union {NoPage}) \X Slices
  /\ \A p \in Pages : \A s \in Slices : <<p, s>> \in live => allocator[p] # NULL

\* The inductive invariant
IInv == Pool /\ Known /\ Owned /\ Used

\* The step leaves all the allocators as they are but allocator a of manager
\* m, which it makes say this of its page; a manager it adds has no pages.
Writes(m, a, page, bits, num) ==
  /\ m \in Nat /\ a \in Allocators /\ DOMAIN managers' = DOMAIN managers \union {m}
  /\ \A k \in DOMAIN managers' : managers'[k] \in Manager /\ Lists(managers'[k])
  /\ managers'[m].allocs[a].page = page /\ managers'[m].allocs[a].first_avai = bits
  /\ managers'[m].allocs[a].avai_num = num
  /\ \A k \in DOMAIN managers', x \in Allocators :
       \/ k = m /\ x = a
       \/ /\ k \notin DOMAIN managers /\ managers'[k].allocs[x].page = NULL
          /\ managers'[k].allocs[x].avai_num = 0
       \/ /\ k \in DOMAIN managers
          /\ managers'[k].allocs[x].page = managers[k].allocs[x].page
          /\ managers'[k].allocs[x].first_avai = managers[k].allocs[x].first_avai
          /\ managers'[k].allocs[x].avai_num = managers[k].allocs[x].avai_num

\* A manager there is, with allocator a marked and filed
LEMMA WritesOld ==
  ASSUME Pool, NEW m \in DOMAIN managers, NEW M1, NEW M2, NEW a, NEW page, NEW bits, NEW num,
         Marks(managers[m], M1, a, page, bits, num), Filed(M1, M2),
         managers' = [managers EXCEPT ![m] = M2]
  PROVE  Writes(m, a, page, bits, num)
<1>1. m \in Nat /\ a \in Allocators /\ DOMAIN managers' = DOMAIN managers \union {m}
  BY DEF Pool, Marks, Changes
<1>2. managers'[m] = M2 /\ \A k \in DOMAIN managers : k # m => managers'[k] = managers[k]
  OBVIOUS
<1>3. \A k \in DOMAIN managers' : managers'[k] \in Manager /\ Lists(managers'[k])
  BY <1>1, <1>2 DEF Pool, Filed
<1>4. M2.allocs[a].page = page /\ M2.allocs[a].first_avai = bits /\ M2.allocs[a].avai_num = num
  BY <1>1 DEF Marks, Filed, SameData
<1>5. \A x \in Allocators : x # a =>
        /\ M2.allocs[x].page = managers[m].allocs[x].page
        /\ M2.allocs[x].first_avai = managers[m].allocs[x].first_avai
        /\ M2.allocs[x].avai_num = managers[m].allocs[x].avai_num
  BY DEF Marks, Changes, Filed, SameData
<1> QED BY <1>1, <1>2, <1>3, <1>4, <1>5 DEF Writes

\* A manager starts with all its allocators on the free list.
LEMMA NewManagerIs ==
  ASSUME BitmapMode
  PROVE  /\ NewManager \in Manager /\ Lists(NewManager) /\ NewManager.free # END_FLAG
         /\ OnFree(NewManager.allocs) = Allocators
         /\ \A x \in Allocators : NewManager.allocs[x].avai_num = 0
<1>1. PICK A : A = NewManager.allocs
  OBVIOUS
<1>2. /\ NewManager = [free |-> 0, p_full |-> END_FLAG, full |-> END_FLAG, allocs |-> A]
      /\ A = [a \in Allocators |->
                [prev |-> IF a = 0 THEN END_FLAG ELSE a - 1, next |-> a + 1,
                 first_avai |-> {}, avai_num |-> 0, page |-> NULL]]
  BY <1>1 DEF NewManager, NoSlices, BitmapMode
<1>3. NumOfAlloc \in Nat /\ NumOfAlloc > 0 /\ END_FLAG = NumOfAlloc
  BY SliceAssumption DEF END_FLAG
<1>4. \A a \in Allocators : /\ A[a].next = a + 1 /\ A[a].page = NULL /\ A[a].avai_num = 0
                            /\ A[a].prev = IF a = 0 THEN END_FLAG ELSE a - 1
  BY <1>2
<1>5. A \in [Allocators -> Alloc]
  BY <1>2, <1>3 DEF Allocators, Alloc
<1>6. NewManager \in Manager
  BY <1>2, <1>3, <1>5 DEF Manager
<1>7. OnFree(A) = Allocators /\ OnPartial(A) = {} /\ OnFull(A) = {}
  BY <1>4 DEF OnFree, OnPartial, OnFull
<1>8. IsList(0, A, Allocators)
  <2>1. PICK s : s = [i \in 0 .. NumOfAlloc |-> i]
    OBVIOUS
  <2>2. Path(0, A, NumOfAlloc, s)
    BY <1>3, <1>4, <2>1 DEF Path, Allocators
  <2>3. Allocators = {s[i] : i \in 0 .. NumOfAlloc - 1}
    BY <1>3, <2>1 DEF Allocators
  <2> QED BY <2>2, <2>3 DEF IsList
<1>9. DList(0, A, Allocators)
  <2>1. \A x \in Allocators : A[x].next # END_FLAG => A[A[x].next].prev = x
    <3> SUFFICES ASSUME NEW x \in Allocators, x + 1 # END_FLAG
                 PROVE  A[x + 1].prev = x
      BY <1>4
    <3>1. x + 1 \in Allocators /\ x + 1 # 0 /\ (x + 1) - 1 = x
      BY <1>3 DEF Allocators
    <3> QED BY <1>4, <3>1
  <2>2. 0 \in Allocators
    BY <1>3 DEF Allocators
  <2> QED BY <1>4, <1>8, <2>1, <2>2 DEF DList
<1>10. DList(END_FLAG, A, {})
  <2>1. PICK s : s = [i \in 0 .. 0 |-> END_FLAG]
    OBVIOUS
  <2>2. Path(END_FLAG, A, 0, s) /\ {} = {s[i] : i \in 0 .. 0 - 1}
    BY <2>1 DEF Path
  <2> QED BY <2>2 DEF DList, IsList
<1>11. Lists(NewManager)
  BY <1>2, <1>7, <1>9, <1>10 DEF Lists
<1> QED BY <1>1, <1>2, <1>3, <1>4, <1>6, <1>7, <1>11

\* The allocator that gets a new page is filed as partially full.
LEMMA WritesFresh ==
  ASSUME BitmapMode, Pool, NEW m \in Nat, NEW M \in Manager, Lists(M), M.free # END_FLAG,
         NEW p \in Pages \union {NoPage}, Fresh(m, M, p),
         \/ m \in DOMAIN managers /\ M = managers[m]
         \/ /\ m \notin DOMAIN managers /\ OnFree(M.allocs) = Allocators
            /\ \A x \in Allocators : M.allocs[x].avai_num = 0
  PROVE  /\ Writes(m, M.free, p, {0}, SliceCount - 1)
         /\ M.free \in Allocators /\ M.allocs[M.free].page = NULL
<1>a. PICK a : a = M.free
  OBVIOUS
<1>1. a \in OnFree(M.allocs) /\ a \in Allocators /\ M.allocs[a].page = NULL
  <2>1. a \in OnFree(M.allocs)
    BY <1>a, DLinks DEF Lists
  <2> QED BY <2>1 DEF OnFree
<1>2. /\ SliceCount - 1 \in Nat /\ SliceCount - 1 > 0 /\ {0} \in SUBSET Slices
      /\ p \in Pages \union {NULL, NoPage} /\ p # NULL
  BY SlicesFinite, SliceAssumption
<1>3. PICK M1 : M1 = [M EXCEPT !.allocs[a].page = p, !.allocs[a].avai_num = SliceCount - 1,
                               !.allocs[a].first_avai = {0}]
  OBVIOUS
<1>4. Marks(M, M1, a, p, {0}, SliceCount - 1)
  <2>1. PICK num \in Nat : num = SliceCount - 1
    BY <1>2
  <2>2. PICK bits \in SUBSET Slices : bits = {0}
    BY <1>2
  <2>3. Marks(M, [M EXCEPT !.allocs[a].page = p, !.allocs[a].avai_num = num,
                           !.allocs[a].first_avai = bits], a, p, bits, num)
    BY <1>1, <1>2, MarkFresh
  <2> QED BY <1>3, <2>1, <2>2, <2>3
<1>5. PICK M2 : M2 = PushFirst(PopFirst(M1, "free"), a, "p_full")
  OBVIOUS
<1>6. Filed(M1, M2)
  <2>1. a \in OnPartial(M1.allocs)
    BY <1>1, <1>2, <1>4 DEF Marks, OnPartial
  <2> QED BY <1>1, <1>4, <1>5, <1>a, <2>1, ToPartial DEF Marks
<1>7. managers' = [k \in DOMAIN managers \union {m} |-> IF k = m THEN M2 ELSE managers[k]]
  BY <1>3, <1>5, <1>a DEF Fresh, BitmapMode
<1>8. /\ DOMAIN managers' = DOMAIN managers \union {m} /\ managers'[m] = M2
      /\ \A k \in DOMAIN managers : k # m => managers'[k] = managers[k]
  BY <1>7
<1>9. \A k \in DOMAIN managers' : managers'[k] \in Manager /\ Lists(managers'[k])
  BY <1>6, <1>8 DEF Pool, Filed
<1>10. M2.allocs[a].page = p /\ M2.allocs[a].first_avai = {0} /\ M2.allocs[a].avai_num = SliceCount - 1
  BY <1>1, <1>4, <1>6 DEF Marks, Filed, SameData
<1>11. \A x \in Allocators : x # a =>
        /\ M2.allocs[x].page = M.allocs[x].page
        /\ M2.allocs[x].first_avai = M.allocs[x].first_avai
        /\ M2.allocs[x].avai_num = M.allocs[x].avai_num
  BY <1>4, <1>6 DEF Marks, Changes, Filed, SameData
<1>12. Writes(m, a, p, {0}, SliceCount - 1)
  <2>1. CASE m \in DOMAIN managers /\ M = managers[m]
    BY <1>1, <1>8, <1>9, <1>10, <1>11, <2>1 DEF Writes
  <2>2. CASE /\ m \notin DOMAIN managers /\ OnFree(M.allocs) = Allocators
             /\ \A x \in Allocators : M.allocs[x].avai_num = 0
    <3>1. \A x \in Allocators : x # a => M2.allocs[x].page = NULL /\ M2.allocs[x].avai_num = 0
      BY <1>11, <2>2 DEF OnFree
    <3> QED BY <1>1, <1>8, <1>9, <1>10, <2>2, <3>1 DEF Writes
  <2> QED BY <2>1, <2>2
<1> QED BY <1>1, <1>12, <1>a

\* The managers stay numbered.
LEMMA PoolKept ==
  ASSUME Pool, NEW m, NEW a, NEW page, NEW bits, NEW num, Writes(m, a, page, bits, num),
         m \in DOMAIN managers \/ m = Cardinality(DOMAIN managers) + 1
  PROVE  Pool'
<1>1. PICK N \in Nat : DOMAIN managers = 1 .. N
  BY DEF Pool
<1>2. /\ DOMAIN managers' = DOMAIN managers \union {m}
      /\ \A k \in DOMAIN managers' : managers'[k] \in Manager /\ Lists(managers'[k])
  BY DEF Writes
<1>3. CASE m \in DOMAIN managers
  <2>1. DOMAIN managers' = 1 .. N
    BY <1>1, <1>2, <1>3
  <2> QED BY <1>2, <2>1 DEF Pool
<1>4. CASE m = Cardinality(DOMAIN managers) + 1
  <2>1. Cardinality(1 .. N) = N
    <3>1. Cardinality(1 .. N) = IF 1 > N THEN 0 ELSE N - 1 + 1
      BY FS_Interval
    <3> QED BY <3>1
  <2>2. DOMAIN managers' = 1 .. N + 1
    BY <1>1, <1>2, <1>4, <2>1
  <2> QED BY <1>2, <2>2 DEF Pool
<1> QED BY <1>3, <1>4

\* What a step does to page p, which is or becomes the page of allocator a of
\* manager m: afterwards its slices in use are `bits' (page is NULL when it was
\* given back).
Effect(m, a, p, page, bits, num) ==
  /\ Writes(m, a, page, bits, num) /\ p \in Pages \union {NoPage} /\ page \in {p, NULL}
  /\ num = IF page = NULL THEN 0 ELSE SliceCount - Cardinality(bits)
  /\ p \in Pages => allocator[p] \in {NULL, <<m, a>>}
  /\ m \in DOMAIN managers => managers[m].allocs[a].page \in {p, NULL}
  /\ allocator' = [q \in Pages |-> IF q # p THEN allocator[q]
                                   ELSE IF page = NULL THEN NULL ELSE <<m, a>>]
  /\ live' \subseteq (Pages \union {NoPage}) \X Slices
  /\ \A q \in Pages \ {p} : \A s \in Slices : <<q, s>> \in live' <=> <<q, s>> \in live
  /\ p \in Pages => bits = {s \in Slices : <<p, s>> \in live'}
  /\ p \in Pages /\ page = NULL => bits = {}

\* Such a step keeps what allocators and pages know of each other.
LEMMA EffectKept ==
  ASSUME IInv, NEW m, NEW a, NEW p, NEW page, NEW bits, NEW num, Effect(m, a, p, page, bits, num)
  PROVE  Known' /\ Owned' /\ Used'
<1>1. NULL \notin Pages /\ NoPage \notin Pages /\ NULL # NoPage /\ NULL \notin Nat \X Nat
  BY SliceAssumption
<1>2. DOMAIN managers \subseteq Nat /\ Allocators \subseteq Nat /\ m \in Nat /\ a \in Allocators
  BY Ends DEF IInv, Pool, Effect, Writes
<1>3. allocator' = [q \in Pages |-> IF q # p THEN allocator[q]
                                    ELSE IF page = NULL THEN NULL ELSE <<m, a>>]
  BY DEF Effect
<1>4. /\ m \in DOMAIN managers' /\ managers'[m].allocs[a].page = page
      /\ managers'[m].allocs[a].first_avai = bits /\ managers'[m].allocs[a].avai_num = num
      /\ DOMAIN managers' = DOMAIN managers \union {m}
  BY DEF Effect, Writes
<1>5. ASSUME NEW k \in DOMAIN managers, NEW x \in Allocators, k # m \/ x # a
      PROVE  /\ managers'[k].allocs[x].page = managers[k].allocs[x].page
             /\ managers'[k].allocs[x].first_avai = managers[k].allocs[x].first_avai
             /\ managers'[k].allocs[x].avai_num = managers[k].allocs[x].avai_num
  BY <1>4, <1>5 DEF Effect, Writes
<1>6. Known'
  <2> SUFFICES ASSUME NEW k \in DOMAIN managers', NEW x \in Allocators
               PROVE  LET A == managers'[k].allocs[x]
                      IN  /\ A.page = NULL => A.avai_num = 0
                          /\ A.page # NULL => A.avai_num = SliceCount - Cardinality(A.first_avai)
                          /\ A.page \in Pages => /\ allocator'[A.page] = <<k, x>>
                                                 /\ A.first_avai = {s \in Slices : <<A.page, s>> \in live'}
    BY DEF Known
  <2>1. CASE k = m /\ x = a
    <3>1. page \in {p, NULL} /\ num = (IF page = NULL THEN 0 ELSE SliceCount - Cardinality(bits))
          /\ (p \in Pages => bits = {s \in Slices : <<p, s>> \in live'})
      BY DEF Effect
    <3>2. page \in Pages => page = p /\ allocator'[page] = <<m, a>>
      BY <1>1, <1>3, <3>1
    <3> QED BY <1>4, <2>1, <3>1, <3>2
  <2>2. CASE k \notin DOMAIN managers /\ (k # m \/ x # a)
    <3>1. managers'[k].allocs[x].page = NULL /\ managers'[k].allocs[x].avai_num = 0
      BY <2>2 DEF Effect, Writes
    <3> QED BY <1>1, <3>1
  <2>3. CASE k \in DOMAIN managers /\ (k # m \/ x # a)
    <3> PICK A : A = managers[k].allocs[x]
      OBVIOUS
    <3>1. /\ A.page = NULL => A.avai_num = 0
          /\ A.page # NULL => A.avai_num = SliceCount - Cardinality(A.first_avai)
          /\ A.page \in Pages => /\ allocator[A.page] = <<k, x>>
                                 /\ A.first_avai = {s \in Slices : <<A.page, s>> \in live}
      BY <2>3 DEF IInv, Known
    <3>2. ASSUME A.page \in Pages
          PROVE  /\ allocator'[A.page] = <<k, x>>
                 /\ A.first_avai = {s \in Slices : <<A.page, s>> \in live'}
      <4>1. <<k, x>> # NULL /\ <<k, x>> # <<m, a>>
        BY <1>1, <1>2, <2>3
      <4>2. A.page # p
        BY <3>1, <3>2, <4>1 DEF Effect
      <4>3. allocator'[A.page] = <<k, x>>
        BY <1>3, <3>1, <3>2, <4>2
      <4>4. \A s \in Slices : <<A.page, s>> \in live' <=> <<A.page, s>> \in live
        BY <3>2, <4>2 DEF Effect
      <4> QED BY <3>1, <3>2, <4>3, <4>4
    <3> QED BY <1>5, <2>3, <3>1, <3>2
  <2> QED BY <2>1, <2>2, <2>3
<1>7. Owned'
  <2>1. allocator' = [q \in Pages |-> allocator'[q]]
    BY <1>3
  <2>2. ASSUME NEW q \in Pages, allocator'[q] # NULL
        PROVE  \E k \in DOMAIN managers', x \in Allocators :
                 allocator'[q] = <<k, x>> /\ managers'[k].allocs[x].page = q
    <3>1. CASE q = p
      <4>1. page # NULL /\ allocator'[q] = <<m, a>>
        BY <1>3, <2>2, <3>1
      <4>2. page = p
        BY <4>1 DEF Effect
      <4> QED BY <1>2, <1>4, <3>1, <4>1, <4>2
    <3>2. CASE q # p
      <4>1. allocator'[q] = allocator[q]
        BY <1>3, <3>2
      <4>2. PICK k \in DOMAIN managers, x \in Allocators :
              allocator[q] = <<k, x>> /\ managers[k].allocs[x].page = q
        BY <2>2, <4>1 DEF IInv, Owned
      <4>3. k # m \/ x # a
        BY <1>1, <3>2, <4>2 DEF Effect
      <4> QED BY <1>4, <1>5, <4>1, <4>2, <4>3
    <3> QED BY <3>1, <3>2
  <2> QED BY <2>1, <2>2 DEF Owned
<1>8. Used'
  <2>1. live' \subseteq (Pages \union {NoPage}) \X Slices
    BY DEF Effect
  <2>2. ASSUME NEW q \in Pages, NEW s \in Slices, <<q, s>> \in live'
        PROVE  allocator'[q] # NULL
    <3>1. CASE q = p
      <4>1. page # NULL
        BY <2>2, <3>1 DEF Effect
      <4>2. allocator'[q] = <<m, a>>
        BY <1>3, <3>1, <4>1
      <4> QED BY <1>1, <1>2, <4>2
    <3>2. CASE q # p
      <4>1. allocator'[q] = allocator[q] /\ <<q, s>> \in live
        BY <1>3, <2>2, <3>2 DEF Effect
      <4> QED BY <4>1 DEF IInv, Used
    <3> QED BY <3>1, <3>2
  <2> QED BY <2>1, <2>2 DEF Used
<1> QED BY <1>6, <1>7, <1>8

\* An allocator that is marked but belongs on the same list needs no move.
LEMMA Stays ==
  ASSUME NEW M, NEW M1, NEW a, Changes(M, M1, a), Lists(M),
         a \in OnPartial(M.allocs), a \in OnPartial(M1.allocs)
  PROVE  Filed(M1, M1)
<1>1. M1 \in Manager /\ SameData(M1.allocs, M1.allocs)
  BY DEF Changes, SameData
<1>2. a \notin OnFree(M.allocs) /\ a \notin OnFull(M.allocs) /\ a \notin OnFree(M1.allocs) /\ a \notin OnFull(M1.allocs)
  BY DEF OnFree, OnPartial, OnFull
<1>3. /\ OnFree(M1.allocs) \ {a} = OnFree(M.allocs) \ {a}
      /\ OnPartial(M1.allocs) \ {a} = OnPartial(M.allocs) \ {a}
      /\ OnFull(M1.allocs) \ {a} = OnFull(M.allocs) \ {a}
  BY DEF Changes, OnFree, OnPartial, OnFull
<1>4. /\ OnFree(M1.allocs) = OnFree(M.allocs) /\ OnPartial(M1.allocs) = OnPartial(M.allocs)
      /\ OnFull(M1.allocs) = OnFull(M.allocs)
  BY <1>2, <1>3
<1>5. Lists(M1)
  BY <1>4, MarkedLists DEF Lists
<1> QED BY <1>1, <1>5 DEF Filed

\* The inductive invariant after a step with such an effect
LEMMA EffectIInv ==
  ASSUME IInv, NEW m, NEW a, NEW p, NEW page, NEW bits, NEW num, Effect(m, a, p, page, bits, num),
         m \in DOMAIN managers \/ m = Cardinality(DOMAIN managers) + 1
  PROVE  IInv'
<1>1. Pool'
  BY PoolKept DEF IInv, Effect
<1>2. Known' /\ Owned' /\ Used'
  BY EffectKept
<1> QED BY <1>1, <1>2 DEF IInv

\* kmalloc with a partially full allocator
LEMMA KmallocPartialIInv ==
  ASSUME BitmapMode, IInv, KmallocPartial
  PROVE  IInv'
<1>1. ~LinkedMode
  BY DEF BitmapMode
<1>m. PICK m \in DOMAIN managers :
        /\ IsFirstUsable(m) /\ managers[m].p_full # END_FLAG
        /\ LET M == managers[m]
               a == M.p_full
               A == M.allocs[a]
               s == IF LinkedMode THEN A.first_avai ELSE FirstClear(A.first_avai)
               inside == A.page \in Pages /\ s \in Slices
           IN  \E after \in IF ~LinkedMode THEN {A.first_avai \union {s}}
                            ELSE IF inside THEN {header[A.page][s]}
                            ELSE Slices \union {SLICE_END} :
                  LET M1 == [M EXCEPT !.allocs[a].first_avai = after,
                                      !.allocs[a].avai_num = (@ + 255) % 256]
                      last == IF LinkedMode THEN after = SLICE_END ELSE Slices \subseteq after
                  IN  /\ managers' = [managers EXCEPT ![m] =
                             IF last THEN PushFirst(PopFirst(M1, "p_full"), a, "full") ELSE M1]
                      /\ header' = IF LinkedMode /\ inside
                                      THEN [header EXCEPT ![A.page][s] = SLICE_END] ELSE header
                      /\ live' = live \union {<<A.page, s>>}
                      /\ UNCHANGED allocator
  BY Zenon DEF KmallocPartial
<1>M. PICK M : M = managers[m]
  OBVIOUS
<1>a. PICK a : a = M.p_full
  OBVIOUS
<1>A. PICK A : A = M.allocs[a]
  OBVIOUS
<1>s. PICK s : s = FirstClear(A.first_avai)
  OBVIOUS
<1>b. PICK bits : bits = A.first_avai \union {s}
  OBVIOUS
<1>N. PICK M1 : M1 = [M EXCEPT !.allocs[a].first_avai = bits,
                               !.allocs[a].avai_num = (@ + 255) % 256]
  OBVIOUS
<1>2. /\ managers' = [managers EXCEPT ![m] =
             IF Slices \subseteq bits THEN PushFirst(PopFirst(M1, "p_full"), a, "full") ELSE M1]
      /\ live' = live \union {<<A.page, s>>}
      /\ UNCHANGED allocator
  BY <1>1, <1>m, <1>M, <1>a, <1>A, <1>s, <1>b, <1>N, ZenonT(30)
<1>3. /\ M \in Manager /\ Lists(M) /\ a \in OnPartial(M.allocs) /\ a \in Allocators
      /\ A.page # NULL /\ A.avai_num > 0 /\ A \in Alloc
  <2>1. M \in Manager /\ Lists(M) /\ a # END_FLAG
    BY <1>m, <1>M, <1>a DEF IInv, Pool
  <2>2. a \in OnPartial(M.allocs)
    BY <1>a, <2>1, DLinks DEF Lists
  <2> QED BY <1>A, <2>1, <2>2 DEF OnPartial, Manager
<1>4. /\ A.first_avai \in SUBSET Slices /\ A.avai_num \in Nat /\ A.page \in Pages \union {NULL, NoPage}
      /\ A.avai_num = SliceCount - Cardinality(A.first_avai)
      /\ A.page \in Pages => /\ allocator[A.page] = <<m, a>>
                             /\ A.first_avai = {t \in Slices : <<A.page, t>> \in live}
  BY <1>3, <1>M, <1>A DEF IInv, Known, Alloc
<1>5. /\ SliceCount \in Nat /\ SliceCount <= 255 /\ Cardinality(A.first_avai) \in 0 .. SliceCount
      /\ A.first_avai # Slices
  BY <1>3, <1>4, Bits, SlicesFinite DEF BitmapMode
<1>6. s \in Slices \ A.first_avai
  BY <1>4, <1>5, <1>s, FirstClearIs
<1>7. bits \in SUBSET Slices /\ Cardinality(bits) = Cardinality(A.first_avai) + 1
  BY <1>4, <1>6, <1>b, Bits
<1>8. PICK num : num = SliceCount - Cardinality(bits)
  OBVIOUS
<1>9. /\ num \in Nat /\ (A.avai_num + 255) % 256 = num
      /\ Slices \subseteq bits <=> num = 0
  <2>1. Cardinality(bits) \in 0 .. SliceCount /\ (Cardinality(bits) = SliceCount <=> bits = Slices)
    BY <1>7, Bits
  <2>2. num \in Nat /\ A.avai_num = num + 1 /\ num < 255
    BY <1>4, <1>5, <1>7, <1>8, <2>1
  <2>3. (num + 1 + 255) % 256 = num
    BY <2>2, SMTT(30)
  <2> QED BY <1>5, <1>7, <1>8, <2>1, <2>2, <2>3
<1>10. Marks(M, M1, a, A.page, bits, num)
  BY <1>3, <1>7, <1>9, <1>A, <1>N, MarkTake, ZenonT(30)
<1>11. PICK M2 : M2 = IF Slices \subseteq bits THEN PushFirst(PopFirst(M1, "p_full"), a, "full") ELSE M1
  OBVIOUS
<1>12. Filed(M1, M2)
  <2>1. CASE num = 0
    <3>1. a \in OnFull(M1.allocs)
      BY <1>3, <1>10, <2>1 DEF Marks, OnFull
    <3>2. M2 = PushFirst(PopFirst(M1, "p_full"), a, "full")
      BY <1>9, <1>11, <2>1
    <3> QED BY <1>3, <1>10, <1>a, <3>1, <3>2, ToFull DEF Marks
  <2>2. CASE num # 0
    <3>1. a \in OnPartial(M1.allocs)
      BY <1>3, <1>9, <1>10, <2>2 DEF Marks, OnPartial
    <3>2. M2 = M1
      BY <1>9, <1>11, <2>2
    <3> QED BY <1>3, <1>10, <3>1, <3>2, Stays DEF Marks
  <2> QED BY <2>1, <2>2
<1>13. Writes(m, a, A.page, bits, num)
  BY <1>2, <1>10, <1>11, <1>12, <1>M, WritesOld DEF IInv
<1>14. Effect(m, a, A.page, A.page, bits, num)
  <2>1. A.page \in Pages \union {NoPage}
    BY <1>3, <1>4
  <2>2. allocator' = [q \in Pages |-> IF q # A.page THEN allocator[q]
                                      ELSE IF A.page = NULL THEN NULL ELSE <<m, a>>]
    BY <1>2, <1>3, <1>4 DEF IInv, Owned
  <2>3. live' \subseteq (Pages \union {NoPage}) \X Slices
    BY <1>2, <1>6, <2>1 DEF IInv, Used
  <2>4. A.page \in Pages => bits = {t \in Slices : <<A.page, t>> \in live'}
    BY <1>2, <1>4, <1>6, <1>b
  <2>5. \A q \in Pages \ {A.page} : \A t \in Slices : <<q, t>> \in live' <=> <<q, t>> \in live
    BY <1>2
  <2> QED BY <1>3, <1>4, <1>8, <1>13, <1>A, <1>M, <2>1, <2>2, <2>3, <2>4, <2>5 DEF Effect
<1> QED BY <1>14, EffectIInv

\* kmalloc with a new page, ...
LEMMA FreshIInv ==
  ASSUME BitmapMode, IInv, NEW m \in Nat, NEW M \in Manager, Lists(M), M.free # END_FLAG,
         NEW p, Gets(p), Fresh(m, M, p),
         \/ m \in DOMAIN managers /\ M = managers[m]
         \/ /\ m \notin DOMAIN managers /\ OnFree(M.allocs) = Allocators
            /\ \A x \in Allocators : M.allocs[x].avai_num = 0
            /\ m = Cardinality(DOMAIN managers) + 1
  PROVE  IInv'
<1>0. /\ p \in Pages \union {NoPage} /\ p # NULL /\ (p \in Pages => allocator[p] = NULL)
      /\ NoPage \notin Pages
  BY SliceAssumption DEF Gets, FreePages
<1>1. PICK a : a = M.free
  OBVIOUS
<1>2. Writes(m, a, p, {0}, SliceCount - 1) /\ a \in Allocators /\ M.allocs[a].page = NULL
  BY <1>0, <1>1, WritesFresh DEF IInv
<1>3. /\ allocator' = [q \in Pages |-> IF q = p THEN <<m, a>> ELSE allocator[q]]
      /\ live' = live \union {<<p, 0>>}
  BY <1>1 DEF Fresh
<1>4. Cardinality({0}) = 1 /\ 0 \in Slices
  BY SlicesFinite, FS_Singleton
<1>5. Effect(m, a, p, p, {0}, SliceCount - 1)
  <2>1. live' \subseteq (Pages \union {NoPage}) \X Slices
    BY <1>0, <1>3, <1>4 DEF IInv, Used
  <2>2. \A q \in Pages \ {p} : \A s \in Slices : <<q, s>> \in live' <=> <<q, s>> \in live
    BY <1>3
  <2>3. p \in Pages => {0} = {s \in Slices : <<p, s>> \in live'}
    BY <1>0, <1>3, <1>4 DEF IInv, Used
  <2>4. allocator' = [q \in Pages |-> IF q # p THEN allocator[q]
                                      ELSE IF p = NULL THEN NULL ELSE <<m, a>>]
    BY <1>0, <1>3
  <2>5. m \in DOMAIN managers => managers[m].allocs[a].page \in {p, NULL}
    BY <1>2
  <2> QED BY <1>0, <1>2, <1>4, <2>1, <2>2, <2>3, <2>4, <2>5 DEF Effect
<1> QED BY <1>5, EffectIInv

\* ... for an allocator of a manager there is ...
LEMMA KmallocFreshIInv ==
  ASSUME BitmapMode, IInv, KmallocFresh
  PROVE  IInv'
<1>1. PICK m \in DOMAIN managers, p \in Pages \union {NoPage} :
        /\ Gets(p) /\ IsFirstUsable(m) /\ managers[m].p_full = END_FLAG
        /\ Fresh(m, managers[m], p)
  BY DEF KmallocFresh
<1>2. m \in Nat /\ managers[m] \in Manager /\ Lists(managers[m]) /\ managers[m].free # END_FLAG
  BY <1>1 DEF IInv, Pool, IsFirstUsable, IsUsable
<1> QED BY <1>1, <1>2, FreshIInv

\* ... or of a new one
LEMMA KmallocManagerIInv ==
  ASSUME BitmapMode, IInv, KmallocManager
  PROVE  IInv'
<1>1. PICK m : m = Cardinality(DOMAIN managers) + 1
  OBVIOUS
<1>2. PICK p \in Pages \union {NoPage} : Gets(p) /\ Fresh(m, NewManager, p)
  BY <1>1 DEF KmallocManager
<1>3. m \in Nat /\ m \notin DOMAIN managers
  <2>1. PICK N \in Nat : DOMAIN managers = 1 .. N
    BY DEF IInv, Pool
  <2>2. Cardinality(1 .. N) = N
    <3>1. Cardinality(1 .. N) = IF 1 > N THEN 0 ELSE N - 1 + 1
      BY FS_Interval
    <3> QED BY <3>1
  <2> QED BY <1>1, <2>1, <2>2
<1>4. PICK M : M = NewManager
  OBVIOUS
<1>5. /\ M \in Manager /\ Lists(M) /\ M.free # END_FLAG
      /\ OnFree(M.allocs) = Allocators
      /\ \A x \in Allocators : M.allocs[x].avai_num = 0
  BY <1>4, NewManagerIs
<1> QED BY <1>1, <1>2, <1>3, <1>4, <1>5, FreshIInv

\* kfree
LEMMA KfreeIInv ==
  ASSUME BitmapMode, IInv, NEW x, Kfree(x)
  PROVE  IInv'
<1>1. /\ x \in live /\ x \in Pages \X Slices /\ allocator[x[1]] # NULL /\ ~LinkedMode
      /\ live' = live \ {x}
  BY DEF Kfree, BitmapMode
<1>p. PICK p \in Pages : p = x[1]
  BY <1>1
<1>s. PICK s \in Slices : s = x[2]
  BY <1>1
<1>x. x = <<p, s>>
  BY <1>1, <1>p, <1>s
<1>2. PICK m \in DOMAIN managers, a \in Allocators :
        allocator[p] = <<m, a>> /\ managers[m].allocs[a].page = p
  BY <1>1, <1>p DEF IInv, Owned
<1>A. PICK A : A = managers[m].allocs[a]
  OBVIOUS
<1>n. PICK n : n = (A.avai_num + 1) % 256
  OBVIOUS
<1>b. PICK bits : bits = Toggle(A.first_avai, s)
  OBVIOUS
<1>M. PICK M : M = managers[m]
  OBVIOUS
<1>N. PICK M1 : M1 = [M EXCEPT !.allocs[a].avai_num = n, !.allocs[a].first_avai = bits]
  OBVIOUS
<1>O. PICK M2 : M2 = [M1 EXCEPT !.allocs[a].page = NULL, !.allocs[a].avai_num = 0]
  OBVIOUS
<1>3. /\ managers' = [managers EXCEPT ![m] =
            IF AllFree(n) THEN MoveFree(M2, a, "p_full", "free")
            ELSE IF LeavesFull(n) THEN MoveFree(M1, a, "full", "p_full")
            ELSE M1]
      /\ allocator' = IF AllFree(n) THEN [allocator EXCEPT ![p] = NULL] ELSE allocator
  <2> DEFINE m0 == allocator[x[1]][1]
             a0 == allocator[x[1]][2]
             n0 == (managers[m0].allocs[a0].avai_num + 1) % 256
             M0 == [managers[m0] EXCEPT
                      !.allocs[a0].avai_num = n0,
                      !.allocs[a0].first_avai = IF LinkedMode THEN x[2] ELSE Toggle(@, x[2])]
             O0 == [M0 EXCEPT !.allocs[a0].page = NULL, !.allocs[a0].avai_num = 0]
  <2>1. /\ managers' = [managers EXCEPT ![m0] =
              IF AllFree(n0) THEN MoveFree(O0, a0, "p_full", "free")
              ELSE IF LeavesFull(n0) THEN MoveFree(M0, a0, "full", "p_full")
              ELSE M0]
        /\ allocator' = IF AllFree(n0) THEN [allocator EXCEPT ![x[1]] = NULL] ELSE allocator
    BY Zenon DEF Kfree
  <2>2. O0 = [M0 EXCEPT !.allocs[a0].page = NULL, !.allocs[a0].avai_num = 0]
    BY Zenon
  <2> HIDE DEF O0
  <2>3. M0 = [managers[m0] EXCEPT
                !.allocs[a0].avai_num = n0,
                !.allocs[a0].first_avai = IF LinkedMode THEN x[2] ELSE Toggle(@, x[2])]
    BY Zenon
  <2> HIDE DEF M0
  <2>4. n0 = (managers[m0].allocs[a0].avai_num + 1) % 256
    BY Zenon
  <2> HIDE DEF n0
  <2>5. m0 = m /\ a0 = a
    BY <1>2, <1>p
  <2> HIDE DEF m0, a0
  <2>6. n0 = n
    BY <1>A, <1>n, <2>4, <2>5
  <2>7. M0 = M1
    <3>1. M \in Manager
      BY <1>M DEF IInv, Pool
    <3>2. M0 = [M EXCEPT !.allocs[a].avai_num = n, !.allocs[a].first_avai = Toggle(@, s)]
      BY <1>1, <1>M, <1>s, <2>3, <2>5, <2>6
    <3> QED BY <1>2, <1>A, <1>M, <1>N, <1>b, <3>1, <3>2 DEF Manager, Alloc
  <2>8. O0 = M2
    BY <1>O, <2>2, <2>5, <2>7
  <2> QED BY <1>p, <2>1, <2>5, <2>6, <2>7, <2>8
<1>4. /\ M \in Manager /\ Lists(M) /\ A \in Alloc /\ A.page = p /\ p # NULL /\ NULL \notin Pages
      /\ A.first_avai \in SUBSET Slices /\ A.avai_num \in Nat
      /\ A.avai_num = SliceCount - Cardinality(A.first_avai)
      /\ A.first_avai = {t \in Slices : <<p, t>> \in live}
  <2>1. M \in Manager /\ Lists(M) /\ A \in Alloc /\ A.page = p /\ p # NULL /\ NULL \notin Pages
    BY <1>2, <1>A, <1>M, SliceAssumption DEF IInv, Pool, Manager
  <2> QED BY <1>2, <1>A, <2>1 DEF IInv, Known, Alloc
<1>5. bits = A.first_avai \ {s} /\ s \in A.first_avai /\ bits \in SUBSET Slices
  BY <1>1, <1>4, <1>b, <1>x DEF Toggle
<1>6. /\ Cardinality(bits) \in 0 .. SliceCount /\ Cardinality(A.first_avai) \in 0 .. SliceCount
      /\ Cardinality(bits) = Cardinality(A.first_avai) - 1
      /\ Cardinality(bits) = 0 <=> bits = {}
      /\ SliceCount \in Nat /\ SliceCount > 1 /\ SliceCount <= 255
  BY <1>4, <1>5, Bits, SlicesFinite DEF BitmapMode
<1>7. /\ n = A.avai_num + 1 /\ n \in Nat /\ n > 0 /\ n = SliceCount - Cardinality(bits)
      /\ (n = SliceCount <=> bits = {})
  <2>1. A.avai_num \in Nat /\ A.avai_num < 255
    BY <1>4, <1>6
  <2>2. n = A.avai_num + 1
    BY <1>n, <2>1
  <2>3. PICK c \in Nat : c = Cardinality(bits)
    BY <1>6
  <2>4. n = SliceCount - c
    <3>1. PICK d \in Nat : d = Cardinality(A.first_avai)
      BY <1>6
    <3>2. PICK o \in Nat : o = A.avai_num
      BY <1>4
    <3>3. o = SliceCount - d
      BY <1>4, <3>1, <3>2, Zenon
    <3>4. c = d - 1
      BY <1>6, <2>3, <3>1, Zenon
    <3>5. n = o + 1
      BY <2>2, <3>2, Zenon
    <3> QED BY <1>6, <3>3, <3>4, <3>5
  <2>5. n = SliceCount <=> c = 0
    BY <1>6, <2>3, <2>4
  <2>6. n = SliceCount <=> bits = {}
    BY <1>6, <2>3, <2>5, Zenon
  <2>7. n \in Nat /\ n > 0
    BY <2>1, <2>2
  <2> QED BY <2>2, <2>3, <2>4, <2>6, <2>7
<1>8. Marks(M, M1, a, p, bits, n)
  <2>1. M.allocs[a].page = p
    BY <1>2, <1>M
  <2>2. Marks(M, M1, a, M.allocs[a].page, bits, n)
    BY <1>4, <1>5, <1>7, <1>N, MarkGive
  <2> QED BY <2>1, <2>2
<1>9. /\ \A q \in Pages \ {p} : \A t \in Slices : <<q, t>> \in live' <=> <<q, t>> \in live
      /\ bits = {t \in Slices : <<p, t>> \in live'}
      /\ live' \subseteq (Pages \union {NoPage}) \X Slices
      /\ allocator = [q \in Pages |-> allocator[q]]
  <2>1. \A q \in Pages \ {p} : \A t \in Slices : <<q, t>> \in live' <=> <<q, t>> \in live
    BY <1>1, <1>x
  <2>2. bits = {t \in Slices : <<p, t>> \in live'}
    BY <1>1, <1>4, <1>5, <1>x
  <2> QED BY <1>1, <2>1, <2>2 DEF IInv, Used, Owned
<1>10. CASE n = SliceCount
  <2>1. Marks(M, M2, a, NULL, {}, 0)
    <3>1. M1 \in Manager /\ M1.allocs[a].first_avai = {}
      BY <1>7, <1>8, <1>10 DEF Marks, Changes
    <3>2. Marks(M1, M2, a, NULL, {}, 0)
      <4>1. NULL \in Pages \union {NULL, NoPage} /\ 0 \in Nat
        OBVIOUS
      <4> QED BY <1>2, <1>O, <3>1, <4>1, MarkEmpty, ZenonT(30)
    <3> QED BY <1>8, <3>2 DEF Marks, Changes
  <2>2. a \in OnFree(M2.allocs) /\ a \in OnPartial(M.allocs)
    <3>1. A.avai_num > 0
      BY <1>4, <1>6, <1>7, <1>10
    <3> QED BY <1>2, <1>4, <1>A, <1>M, <2>1, <3>1 DEF Marks, OnFree, OnPartial
  <2>3. Filed(M2, MoveFree(M2, a, "p_full", "free"))
    BY <1>4, <2>1, <2>2, ToFree DEF Marks
  <2>4. managers' = [managers EXCEPT ![m] = MoveFree(M2, a, "p_full", "free")]
        /\ allocator' = [allocator EXCEPT ![p] = NULL]
    BY <1>3, <1>10 DEF AllFree
  <2>5. Writes(m, a, NULL, {}, 0)
    <3>1. PICK M3 : M3 = MoveFree(M2, a, "p_full", "free")
      OBVIOUS
    <3>2. managers' = [managers EXCEPT ![m] = M3] /\ Filed(M2, M3)
      BY <2>3, <2>4, <3>1
    <3> QED BY <1>M, <2>1, <3>2, WritesOld DEF IInv
  <2>6. Effect(m, a, p, NULL, {}, 0)
    <3>1. allocator' = [q \in Pages |-> IF q # p THEN allocator[q]
                                        ELSE IF NULL = NULL THEN NULL ELSE <<m, a>>]
      BY <1>9, <2>4
    <3> QED BY <1>2, <1>7, <1>9, <1>10, <2>5, <3>1 DEF Effect
  <2> QED BY <2>6, EffectIInv
<1>11. CASE n # SliceCount
  <2>1. a \in OnPartial(M1.allocs)
    BY <1>2, <1>4, <1>7, <1>8 DEF Marks, OnPartial
  <2>2. PICK M3 : M3 = IF LeavesFull(n) THEN MoveFree(M1, a, "full", "p_full") ELSE M1
    OBVIOUS
  <2>3. Filed(M1, M3)
    <3>1. CASE n = 1
      <4>1. a \in OnFull(M.allocs)
        BY <1>2, <1>4, <1>7, <1>A, <1>M, <3>1 DEF OnFull
      <4>2. M3 = MoveFree(M1, a, "full", "p_full")
        BY <2>2, <3>1 DEF LeavesFull
      <4> QED BY <1>4, <1>8, <2>1, <4>1, <4>2, LeaveFull DEF Marks
    <3>2. CASE n # 1
      <4>1. a \in OnPartial(M.allocs)
        <5>1. A.avai_num > 0
          <6>1. PICK o \in Nat : o = A.avai_num
            BY <1>4
          <6>2. n = o + 1
            BY <1>7, <6>1, Zenon
          <6> QED BY <3>2, <6>1, <6>2
        <5> QED BY <1>2, <1>4, <1>A, <1>M, <5>1 DEF OnPartial
      <4>2. M3 = M1
        BY <2>2, <3>2 DEF LeavesFull
      <4> QED BY <1>4, <1>8, <2>1, <4>1, <4>2, Stays DEF Marks
    <3> QED BY <3>1, <3>2
  <2>4. managers' = [managers EXCEPT ![m] = M3] /\ allocator' = allocator
    BY <1>3, <1>11, <2>2 DEF AllFree
  <2>5. Writes(m, a, p, bits, n)
    BY <1>8, <1>M, <2>3, <2>4, WritesOld DEF IInv
  <2>6. Effect(m, a, p, p, bits, n)
    <3>1. allocator' = [q \in Pages |-> IF q # p THEN allocator[q]
                                        ELSE IF p = NULL THEN NULL ELSE <<m, a>>]
      BY <1>2, <1>4, <1>9, <2>4
    <3> QED BY <1>2, <1>4, <1>7, <1>9, <2>5, <3>1 DEF Effect
  <2> QED BY <2>6, EffectIInv
<1> QED BY <1>10, <1>11, SMTT(30)

\* The inductive invariant holds at the start ...
LEMMA InitIInv ==
  ASSUME BitmapMode, Init
  PROVE  IInv
<1>1. /\ DOMAIN managers = 1 .. 1 /\ managers[1] = NewManager /\ allocator = [p \in Pages |-> NULL]
      /\ live = {}
  BY DEF Init
<1>2. /\ NewManager \in Manager /\ Lists(NewManager) /\ OnFree(NewManager.allocs) = Allocators
      /\ \A x \in Allocators : NewManager.allocs[x].avai_num = 0
  BY NewManagerIs
<1>3. \A x \in Allocators : NewManager.allocs[x].page = NULL
  BY <1>2 DEF OnFree
<1>4. \A m \in DOMAIN managers : managers[m] = NewManager
  BY <1>1
<1>5. Pool
  <2>1. 1 \in Nat
    OBVIOUS
  <2> QED BY <1>1, <1>2, <1>4, <2>1 DEF Pool
<1>6. Known
  BY <1>2, <1>3, <1>4, SliceAssumption DEF Known
<1>7. Owned
  BY <1>1 DEF Owned
<1>8. Used
  BY <1>1 DEF Used
<1> QED BY <1>5, <1>6, <1>7, <1>8 DEF IInv

\* ... and after every step.
LEMMA NextIInv ==
  ASSUME BitmapMode, IInv, [Next]_vars
  PROVE  IInv'
<1>1. CASE KmallocPartial
  BY <1>1, KmallocPartialIInv
<1>2. CASE KmallocFresh
  BY <1>2, KmallocFreshIInv
<1>3. CASE KmallocManager
  BY <1>3, KmallocManagerIInv
<1>4. CASE \E x \in live : Kfree(x)
  BY <1>4, KfreeIInv
<1>5. CASE UNCHANGED vars
  <2>1. Pool'
    BY <1>5 DEF vars, IInv, Pool
  <2>2. Known'
    BY <1>5 DEF vars, IInv, Known
  <2>3. Owned'
    BY <1>5 DEF vars, IInv, Owned
  <2>4. Used'
    BY <1>5 DEF vars, IInv, Used
  <2> QED BY <2>1, <2>2, <2>3, <2>4 DEF IInv
<1> QED BY <1>1, <1>2, <1>3, <1>4, <1>5 DEF Next

\* The inductive invariant holds in every reachable state.
THEOREM Invariance == BitmapMode => (Spec => []IInv)
<1> SUFFICES ASSUME BitmapMode
             PROVE  Spec => []IInv
  OBVIOUS
<1>1. Init => IInv
  BY InitIInv
<1>2. IInv /\ [Next]_vars => IInv'
  BY NextIInv
<1> QED BY <1>1, <1>2, PTL DEF Spec

----------------------------------------------------------------------------
(* What the walk of a list finds                                           *)

\* Members finds the allocators of the list, all of them.
LEMMA MembersIs ==
  ASSUME NEW m, NEW name, NEW S, NEW h, NEW A, h = managers[m][name], A = managers[m].allocs,
         IsList(h, A, S)
  PROVE  Members(m, name) = S
<1>1. PICK n, s : Path(h, A, n, s) /\ S = {s[i] : i \in 0 .. n - 1}
  BY DEF IsList
<1> PICK C : C = NumOfAlloc
  OBVIOUS
<1>2. n \in Nat /\ C \in Nat /\ n <= C
  <2>1. n \in Nat /\ C \in Nat
    BY <1>1, SliceAssumption DEF Path
  <2>2. ASSUME NEW k \in Nat
        PROVE  IsFiniteSet(0 .. k - 1) /\ Cardinality(0 .. k - 1) = k
    <3> PICK e \in Int : e = k - 1
      OBVIOUS
    <3>1. /\ IsFiniteSet(0 .. e)
          /\ Cardinality(0 .. e) = IF 0 > e THEN 0 ELSE e - 0 + 1
      BY FS_Interval
    <3> QED BY <3>1
  <2> DEFINE f == [i \in 0 .. n - 1 |-> s[i]]
  <2>3. f \in Injection(0 .. n - 1, Allocators)
    BY <1>1 DEF Path, Injection, IsInjective
  <2>4. IsFiniteSet(Allocators) /\ Cardinality(Allocators) = C /\ Cardinality(0 .. n - 1) = n
    BY <2>1, <2>2 DEF Allocators
  <2>5. Cardinality(0 .. n - 1) <= Cardinality(Allocators)
    BY <2>3, <2>4, FS_Injection
  <2> QED BY <2>1, <2>4, <2>5
<1>3. /\ s[0] = h /\ s[n] = END_FLAG /\ END_FLAG \notin Allocators
      /\ \A i \in 0 .. n - 1 : s[i] \in Allocators /\ A[s[i]].next = s[i + 1]
  BY <1>1, Ends DEF Path
<1> DEFINE Step(y) == IF y \in Allocators THEN A[y].next ELSE END_FLAG
           Def(w) == [k \in 0 .. C |-> IF k = 0 THEN h ELSE Step(w[k - 1])]
           v == [k \in 0 .. C |-> IF k <= n THEN s[k] ELSE END_FLAG]
<1>4. v = Def(v)
  <2>1. ASSUME NEW k \in 0 .. C
        PROVE  v[k] = IF k = 0 THEN h ELSE Step(v[k - 1])
    <3>1. CASE k = 0
      BY <1>2, <1>3, <3>1
    <3>2. CASE k # 0
      <4>1. k - 1 \in 0 .. C /\ (k - 1) + 1 = k
        BY <1>2, <3>2
      <4>2. CASE k <= n
        <5>1. k - 1 \in 0 .. n - 1
          BY <1>2, <3>2, <4>2
        <5>2. v[k] = s[k] /\ v[k - 1] = s[k - 1]
          BY <1>2, <4>1, <4>2, <5>1
        <5> QED BY <1>3, <3>2, <4>1, <5>1, <5>2
      <4>3. CASE ~ (k <= n)
        <5>1. v[k] = END_FLAG
          BY <4>3
        <5>2. v[k - 1] = END_FLAG
          <6>1. CASE k - 1 = n
            BY <1>2, <1>3, <4>1, <6>1
          <6>2. CASE k - 1 # n
            BY <1>2, <4>1, <4>3, <6>2
          <6> QED BY <6>1, <6>2
        <5> QED BY <1>3, <3>2, <5>1, <5>2
      <4> QED BY <4>2, <4>3
    <3> QED BY <3>1, <3>2
  <2> HIDE DEF v, Step
  <2>2. v = [k \in 0 .. C |-> v[k]]
    BY DEF v
  <2> QED BY <2>1, <2>2
<1>5. ASSUME NEW w, w = Def(w)
      PROVE  w = v
  <2> DEFINE Bad == {k \in 0 .. C : w[k] # v[k]}
  <2>0. /\ \A k \in 0 .. C : w[k] = Def(w)[k]
        /\ \A k \in 0 .. C : v[k] = Def(v)[k]
    <3> HIDE DEF v, Def
    <3> QED BY <1>4, <1>5
  <2> HIDE DEF v, Step
  <2>1. Bad = {}
    <3> SUFFICES ASSUME Bad # {}
                 PROVE  FALSE
      OBVIOUS
    <3>1. Bad \subseteq Nat
      BY <1>2
    <3>2. PICK k \in Bad : \A j \in Bad : ~ (j < k)
      BY <3>1, LeastElement
    <3>3. k # 0
      BY <1>2, <2>0, <3>2
    <3>4. k - 1 \in 0 .. C /\ k - 1 < k
      BY <1>2, <3>1, <3>2, <3>3
    <3>5. w[k - 1] = v[k - 1]
      BY <3>2, <3>4
    <3> QED BY <2>0, <3>2, <3>3, <3>5
  <2>2. w = [k \in 0 .. C |-> w[k]]
    BY <1>5
  <2>3. v = [k \in 0 .. C |-> v[k]]
    BY DEF v
  <2> QED BY <2>1, <2>2, <2>3
<1>6. PICK w : w = CHOOSE x : x = Def(x)
  OBVIOUS
<1>7. w = v
  <2>1. w = Def(w)
    <3> HIDE DEF v, Def
    <3> QED BY <1>4, <1>6
  <2> HIDE DEF v, Def
  <2> QED BY <1>5, <2>1
<1>8. Members(m, name) = {w[k] : k \in 0 .. C} \ {END_FLAG}
  BY <1>6 DEF Members
<1>9. \A k \in 0 .. C : v[k] = IF k <= n THEN s[k] ELSE END_FLAG
  BY <1>2, <1>3
<1> HIDE DEF v
<1>10. Members(m, name) = {v[k] : k \in 0 .. C} \ {END_FLAG}
  BY <1>7, <1>8
<1>11. \A k \in 0 .. n - 1 : k \in 0 .. C /\ v[k] = s[k] /\ s[k] # END_FLAG
  BY <1>2, <1>3, <1>9
<1>12. \A k \in 0 .. C : v[k] = END_FLAG \/ (k \in 0 .. n - 1 /\ v[k] = s[k])
  BY <1>2, <1>3, <1>9
<1> QED BY <1>1, <1>10, <1>11, <1>12

\* The number of slices in use on a page is that of its allocator's bitmap.
LEMMA LiveCount ==
  ASSUME Used, NEW p \in Pages, NEW bits \in SUBSET Slices,
         bits = {s \in Slices : <<p, s>> \in live}
  PROVE  Cardinality(LiveOn(p)) = Cardinality(bits)
<1> DEFINE f == [s \in bits |-> <<p, s>>]
<1>1. LiveOn(p) = {<<p, s>> : s \in bits}
  <2>1. ASSUME NEW x \in live, x[1] = p
        PROVE  \E s \in bits : x = <<p, s>>
    <3>1. x \in (Pages \union {NoPage}) \X Slices
      BY DEF Used
    <3>2. x[2] \in Slices /\ x = <<p, x[2]>>
      BY <2>1, <3>1
    <3> QED BY <3>2
  <2>2. \A s \in bits : <<p, s>> \in live /\ <<p, s>>[1] = p
    OBVIOUS
  <2> QED BY <2>1, <2>2, ZenonT(30) DEF LiveOn
<1>2. f \in Bijection(bits, LiveOn(p))
  <2>1. f \in [bits -> LiveOn(p)]
    BY <1>1
  <2>2. \A s, t \in bits : f[s] = f[t] => s = t
    OBVIOUS
  <2>3. \A x \in LiveOn(p) : \E s \in bits : f[s] = x
    BY <1>1
  <2> QED BY <2>1, <2>2, <2>3 DEF Bijection, Injection, Surjection, IsInjective
<1>3. IsFiniteSet(bits)
  BY Bits
<1>4. ExistsBijection(bits, LiveOn(p))
  BY <1>2 DEF ExistsBijection
<1> QED BY <1>3, <1>4, FS_Bijection

----------------------------------------------------------------------------
(* The properties                                                          *)

\* kmalloc hands out slices of the pages of kmm.c or of the page it takes for
\* granted.
THEOREM SlicesInside == BitmapMode => (Spec => []InsidePages)
<1>1. IInv => InsidePages
  BY DEF IInv, Used, InsidePages
<1> QED BY <1>1, Invariance, PTL

\* A page in which a slice is in use is never given back.
THEOREM PagesKept == BitmapMode => (Spec => []NoUseAfterFree)
<1>1. IInv => NoUseAfterFree
  <2> SUFFICES ASSUME IInv, NEW x \in live, x[1] \in Pages
               PROVE  allocator[x[1]] # NULL
    BY DEF NoUseAfterFree
  <2>1. x \in (Pages \union {NoPage}) \X Slices
    BY DEF IInv, Used
  <2>2. x = <<x[1], x[2]>> /\ x[2] \in Slices
    BY <2>1
  <2> QED BY <2>2 DEF IInv, Used
<1> QED BY <1>1, Invariance, PTL

\* The bitmap of an allocator has exactly the slices of its page in use: kmalloc
\* never hands out a slice twice, and kfree loses none.
THEOREM BitmapsAreExact == BitmapMode => (Spec => []BitmapExact)
<1>1. IInv => BitmapExact
  BY DEF IInv, Known, BitmapExact
<1> QED BY <1>1, Invariance, PTL

\* Every allocator is on the list its page and its counter call for, and the
\* counter is right.
LEMMA ListsAndCounts ==
  ASSUME IInv
  PROVE  ListsMatchUse
<1>1. ASSUME NEW m \in DOMAIN managers, NEW a \in Allocators
      PROVE  /\ managers[m].allocs[a].prev \in 0 .. END_FLAG
             /\ managers[m].allocs[a].next \in 0 .. END_FLAG
             /\ managers[m].allocs[a].avai_num \in 0 .. SliceCount
  <2>1. managers[m].allocs[a] \in Alloc
    BY DEF IInv, Pool, Manager
  <2>2. PICK A : A = managers[m].allocs[a]
    OBVIOUS
  <2>3. /\ A.prev \in 0 .. END_FLAG /\ A.next \in 0 .. END_FLAG /\ A.first_avai \in SUBSET Slices
    BY <2>1, <2>2 DEF Alloc
  <2>4. /\ A.page = NULL => A.avai_num = 0
        /\ A.page # NULL => A.avai_num = SliceCount - Cardinality(A.first_avai)
    BY <2>2 DEF IInv, Known
  <2>5. PICK c \in 0 .. SliceCount : c = Cardinality(A.first_avai)
    BY <2>3, Bits
  <2>6. A.avai_num = 0 \/ A.avai_num = SliceCount - c
    BY <2>4, <2>5
  <2>7. A.avai_num \in 0 .. SliceCount
    <3>1. SliceCount \in Nat
      BY SlicesFinite
    <3>2. SliceCount - c \in 0 .. SliceCount /\ 0 \in 0 .. SliceCount
      BY <3>1
    <3> QED BY <2>6, <3>2
  <2> QED BY <2>2, <2>3, <2>7
<1>2. TypeOK
  BY <1>1 DEF TypeOK
<1>3. ASSUME NEW m \in DOMAIN managers, NEW a \in Allocators, NEW A, A = managers[m].allocs[a],
             A.page \in Pages
      PROVE  /\ allocator[A.page] = <<m, a>>
             /\ A.avai_num = SliceCount - Cardinality(LiveOn(A.page))
  <2>1. A \in Alloc /\ A.page # NULL
    BY <1>3, SliceAssumption DEF IInv, Pool, Manager
  <2>2. /\ allocator[A.page] = <<m, a>> /\ A.avai_num = SliceCount - Cardinality(A.first_avai)
        /\ A.first_avai = {s \in Slices : <<A.page, s>> \in live} /\ A.first_avai \in SUBSET Slices
    BY <1>3, <2>1 DEF IInv, Known, Alloc
  <2>3. PICK p \in Pages : p = A.page
    BY <1>3
  <2>4. PICK bits \in SUBSET Slices : bits = A.first_avai
    BY <2>2
  <2>5. Cardinality(LiveOn(p)) = Cardinality(bits)
    BY <2>2, <2>3, <2>4, LiveCount DEF IInv
  <2> QED BY <2>2, <2>3, <2>4, <2>5
<1>4. ASSUME NEW m \in DOMAIN managers
      PROVE  /\ Members(m, "free") = OnFree(managers[m].allocs)
             /\ Members(m, "p_full") = OnPartial(managers[m].allocs)
             /\ Members(m, "full") = OnFull(managers[m].allocs)
  <2>1. PICK M : M = managers[m]
    OBVIOUS
  <2>2. /\ IsList(M.free, M.allocs, OnFree(M.allocs))
        /\ IsList(M.p_full, M.allocs, OnPartial(M.allocs))
        /\ IsList(M.full, M.allocs, OnFull(M.allocs))
    BY <2>1 DEF IInv, Pool, Lists, DList
  <2>3. Members(m, "free") = OnFree(M.allocs)
    BY <2>1, <2>2, MembersIs
  <2>4. Members(m, "p_full") = OnPartial(M.allocs)
    BY <2>1, <2>2, MembersIs
  <2>5. Members(m, "full") = OnFull(M.allocs)
    BY <2>1, <2>2, MembersIs
  <2> QED BY <2>1, <2>3, <2>4, <2>5
<1>5. ASSUME NEW m \in DOMAIN managers, NEW a \in Allocators, NEW A, A = managers[m].allocs[a]
      PROVE  /\ (a \in Members(m, "free"))   <=> A.page = NULL
             /\ (a \in Members(m, "p_full")) <=> A.page # NULL /\ A.avai_num > 0
             /\ (a \in Members(m, "full"))   <=> A.page # NULL /\ A.avai_num = 0
  BY <1>4, <1>5 DEF OnFree, OnPartial, OnFull
<1>6. ASSUME NEW m \in DOMAIN managers, NEW a \in Allocators
      PROVE  LET A == managers[m].allocs[a]
             IN  /\ A.page \in Pages => /\ allocator[A.page] = <<m, a>>
                                        /\ A.avai_num = SliceCount - Cardinality(LiveOn(A.page))
                 /\ (a \in Members(m, "free"))   <=> A.page = NULL
                 /\ (a \in Members(m, "p_full")) <=> A.page # NULL /\ A.avai_num > 0
                 /\ (a \in Members(m, "full"))   <=> A.page # NULL /\ A.avai_num = 0
  <2>1. PICK A : A = managers[m].allocs[a]
    OBVIOUS
  <2>2. A.page \in Pages => /\ allocator[A.page] = <<m, a>>
                            /\ A.avai_num = SliceCount - Cardinality(LiveOn(A.page))
    BY <1>3, <2>1
  <2>3. /\ (a \in Members(m, "free"))   <=> A.page = NULL
        /\ (a \in Members(m, "p_full")) <=> A.page # NULL /\ A.avai_num > 0
        /\ (a \in Members(m, "full"))   <=> A.page # NULL /\ A.avai_num = 0
    BY <1>5, <2>1
  <2> QED BY <2>1, <2>2, <2>3
<1> QED BY <1>2, <1>6 DEF ListsMatchUse

\* The free, p_full and full lists of every manager hold the allocators they are
\* for, each of them once, and avai_num counts the slices nobody holds.
THEOREM ListsAreRight == BitmapMode => (Spec => []ListsMatchUse)
<1>1. IInv => ListsMatchUse
  BY ListsAndCounts
<1> QED BY <1>1, Invariance, PTL

\* A manager whose list of partially full allocators is empty has no free slice
\* on any of its pages.
LEMMA NoneFree ==
  ASSUME IInv, NEW m \in DOMAIN managers, managers[m].p_full = END_FLAG,
         NEW q \in Pages, allocator[q] # NULL, allocator[q][1] = m
  PROVE  Cardinality(LiveOn(q)) = SliceCount
<1>1. PICK k \in DOMAIN managers, a \in Allocators :
        allocator[q] = <<k, a>> /\ managers[k].allocs[a].page = q
  BY DEF IInv, Owned
<1>2. k = m /\ q # NULL
  BY <1>1, SliceAssumption
<1>3. PICK A : A = managers[m].allocs[a]
  OBVIOUS
<1>4. OnPartial(managers[m].allocs) = {}
  BY DLinks DEF IInv, Pool, Lists
<1>5. ~ (A.avai_num > 0)
  BY <1>1, <1>2, <1>3, <1>4 DEF OnPartial
<1>6. /\ A.avai_num = SliceCount - Cardinality(A.first_avai) /\ A.first_avai \in SUBSET Slices
      /\ A.avai_num \in Nat /\ A.first_avai = {s \in Slices : <<q, s>> \in live}
  <2>1. A \in Alloc /\ A.page = q
    BY <1>1, <1>2, <1>3 DEF IInv, Pool, Manager
  <2> QED BY <1>2, <1>3, <2>1 DEF IInv, Known, Alloc
<1>7. PICK c \in Nat : c = Cardinality(A.first_avai)
  <2>1. Cardinality(A.first_avai) \in 0 .. SliceCount
    BY <1>6, Bits
  <2> QED BY <2>1
<1>8. PICK o \in Nat : o = A.avai_num
  BY <1>6
<1>9. o = SliceCount - c /\ ~ (o > 0)
  BY <1>5, <1>6, <1>7, <1>8
<1>10. c = SliceCount
  BY <1>9, SlicesFinite
<1>11. PICK bits \in SUBSET Slices : bits = A.first_avai
  BY <1>6
<1>12. Cardinality(LiveOn(q)) = Cardinality(bits)
  BY <1>6, <1>11, LiveCount DEF IInv
<1> QED BY <1>7, <1>10, <1>11, <1>12

\* kmalloc takes a new page for a manager only when every slice of its pages is
\* in use, and makes a new manager only when that is so of all of them.
THEOREM NothingWasted == BitmapMode => (Spec => NoWaste)
<1> DEFINE W == \A p \in FreePages : allocator'[p] # NULL =>
                  \A q \in Pages \ FreePages :
                    (allocator[q][1] = allocator'[p][1] \/ allocator'[p][1] \notin DOMAIN managers)
                      => Cardinality(LiveOn(q)) = SliceCount
<1>1. ASSUME BitmapMode, IInv, Next
      PROVE  W
  <2> SUFFICES ASSUME NEW p \in FreePages, allocator'[p] # NULL, NEW q \in Pages \ FreePages,
                      allocator[q][1] = allocator'[p][1] \/ allocator'[p][1] \notin DOMAIN managers
               PROVE  Cardinality(LiveOn(q)) = SliceCount
    OBVIOUS
  <2>1. p \in Pages /\ allocator[p] = NULL /\ q \in Pages /\ allocator[q] # NULL
    BY DEF FreePages
  <2>2. PICK k \in DOMAIN managers, a \in Allocators :
          allocator[q] = <<k, a>> /\ managers[k].allocs[a].page = q
    BY <1>1, <2>1 DEF IInv, Owned
  <2>3. ASSUME NEW m, NEW M, NEW r, Fresh(m, M, r)
        PROVE  allocator'[p][1] = m
    BY <2>1, <2>3 DEF Fresh
  <2>4. CASE KmallocPartial
    <3>1. allocator' = allocator
      BY <2>4 DEF KmallocPartial
    <3> QED BY <2>1, <3>1, SMTT(30)
  <2>5. CASE KmallocFresh
    <3>1. PICK m \in DOMAIN managers, r \in Pages \union {NoPage} :
            managers[m].p_full = END_FLAG /\ Fresh(m, managers[m], r)
      BY <2>5 DEF KmallocFresh
    <3>2. allocator'[p][1] = m
      BY <2>3, <3>1
    <3> QED BY <1>1, <2>1, <3>1, <3>2, NoneFree
  <2>6. CASE KmallocManager
    <3>1. ~IsUsable(k)
      BY <2>6 DEF KmallocManager
    <3>2. managers[k].p_full = END_FLAG /\ allocator[q][1] = k
      BY <2>2, <3>1 DEF IsUsable
    <3> QED BY <1>1, <2>1, <3>2, NoneFree
  <2>7. ASSUME NEW x \in live, Kfree(x)
        PROVE  FALSE
    <3>1. \/ allocator' = [allocator EXCEPT ![x[1]] = NULL]
          \/ allocator' = allocator
      BY <2>7 DEF Kfree
    <3>2. allocator = [z \in Pages |-> allocator[z]]
      BY <1>1 DEF IInv, Owned
    <3> QED BY <2>1, <3>1, <3>2, SMTT(30)
  <2> QED BY <1>1, <2>4, <2>5, <2>6, <2>7 DEF Next
<1>2. ASSUME BitmapMode
      PROVE  Spec => NoWaste
  <2>1. IInv /\ [Next]_vars => [W]_vars
    BY <1>1, <1>2
  <2>2. Spec => []IInv
    BY <1>2, Invariance
  <2> QED BY <2>1, <2>2, PTL DEF Spec, NoWaste
<1> QED BY <1>2
=============================================================================
