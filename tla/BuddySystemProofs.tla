------------------------- MODULE BuddySystemProofs -------------------------
(***************************************************************************)
(* Proofs about BuddySystem, for every zone size and every number of       *)
(* levels, as long as no free has unlinked a block through a stale         *)
(* prev_frame: the free lists, the block heads and the blocks clients hold *)
(* stay consistent; no frame is handed out twice and none is lost; a       *)
(* request fails only when memory is short; and every call keeps the       *)
(* promise of FrameAllocator.                                              *)
(***************************************************************************)
EXTENDS BuddySystem, FiniteSetTheorems, WellFoundedInduction, TLAPS

----------------------------------------------------------------------------
(* Alignment                                                               *)

\* A multiple of s divides by s without remainder.
LEMMA Quotient ==
  ASSUME NEW s \in Nat \ {0}, NEW q \in Nat
  PROVE  (s * q) \div s = q /\ (s * q) % s = 0
<1> DEFINE i == s * q
           d == i \div s
           r == i % s
<1>1. i \in Nat /\ d \in Nat /\ r \in 0 .. s - 1 /\ i = s * d + r
  OBVIOUS
<1>2. s * (q - d) = r
  BY <1>1
<1> HIDE DEF d, r, i
<1>3. q - d < 1
  <2>1. SUFFICES ASSUME q - d >= 1 PROVE FALSE
    BY <1>1
  <2>2. \A k \in Int : k >= 1 => s * k >= s
    OBVIOUS
  <2> QED BY <1>1, <1>2, <2>1, <2>2
<1>4. q - d > -1
  <2>1. SUFFICES ASSUME d - q >= 1 PROVE FALSE
    BY <1>1
  <2>2. \A k \in Int : k >= 1 => s * k >= s
    OBVIOUS
  <2>3. s * (d - q) = -r
    BY <1>1, <1>2
  <2> QED BY <1>1, <2>1, <2>2, <2>3
<1>5. q = d
  BY <1>1, <1>3, <1>4
<1>6. r = 0
  BY <1>2, <1>5, <1>1
<1> QED BY <1>5, <1>6 DEF d, r, i

\* What is aligned to 2s is aligned to s, at an even multiple.
LEMMA HalfAligned ==
  ASSUME NEW i \in Nat, NEW s \in Nat \ {0}, i % (2 * s) = 0
  PROVE  i % s = 0 /\ (i \div s) % 2 = 0
<1> DEFINE q == i \div (2*s)
<1>1. q \in Nat /\ i = (2*s) * q
  OBVIOUS
<1>2. i = s * (2*q) /\ 2*q \in Nat
  BY <1>1
<1> HIDE DEF q
<1>3. i \div s = 2*q /\ i % s = 0
  BY <1>2, Quotient
<1> QED BY <1>1, <1>3

\* The next multiple of s is aligned to s.
LEMMA StepAligned ==
  ASSUME NEW i \in Nat, NEW s \in Nat \ {0}, i % s = 0
  PROVE  (i + s) % s = 0
<1> DEFINE q == i \div s
<1>1. q \in Nat /\ i = s * q
  OBVIOUS
<1>2. i + s = s * (q+1) /\ q + 1 \in Nat
  BY <1>1
<1> HIDE DEF q
<1> QED BY <1>2, Quotient

\* An even multiple of s is aligned to 2s ...
LEMMA EvenAligned ==
  ASSUME NEW i \in Nat, NEW s \in Nat \ {0}, i % s = 0, (i \div s) % 2 = 0
  PROVE  i % (2*s) = 0
<1> DEFINE q == (i \div s) \div 2
<1>1. q \in Nat /\ i \div s = 2*q
  OBVIOUS
<1>2. i = (2*s) * q /\ 2*s \in Nat \ {0}
  BY <1>1
<1> HIDE DEF q
<1> QED BY <1>1, <1>2, Quotient, ZenonT(30)

\* ... and an odd one is s past such a multiple.
LEMMA OddAligned ==
  ASSUME NEW i \in Nat, NEW s \in Nat \ {0}, i % s = 0, (i \div s) % 2 # 0
  PROVE  i - s \in Nat /\ (i - s) % (2*s) = 0
<1> DEFINE q == (i \div s) \div 2
<1>1. q \in Nat /\ i \div s = 2*q + 1
  OBVIOUS
<1>2. i = s * (2*q + 1)
  BY <1>1
<1>3. i - s = (2*s) * q
  BY <1>1, <1>2
<1>4. i - s \in Nat /\ 2*s \in Nat \ {0}
  BY <1>1, <1>3
<1> HIDE DEF q
<1> QED BY <1>1, <1>3, <1>4, Quotient

\* A non-empty set of numbers has a least element.
LEMMA LeastElement ==
  ASSUME NEW S, S \subseteq Nat, S # {}
  PROVE  \E k \in S : \A j \in S : ~ (j < k)
<1>1. PICK k \in S : \A j \in S : ~ (<<j, k>> \in OpToRel(<, Nat))
  BY NatLessThanWellFounded, WFMin
<1> QED BY <1>1 DEF OpToRel

\* The sizes of the blocks are positive, and each is twice the one below.
LEMMA Sizes ==
  /\ \A l \in Levels : BlockSize[l] \in Nat \ {0}
  /\ \A l \in Levels : l > 0 => /\ l - 1 \in Levels
                                /\ BlockSize[l] = 2 * BlockSize[l - 1]
  /\ \A l \in Levels : l < BUDDY_MAXLEVEL - 1 =>
        l + 1 \in Levels /\ BlockSize[l + 1] = 2 * BlockSize[l]
  /\ BlockSize[0] = 1
<1>1. \A l \in Levels : l \in 0 .. BUDDY_MAXLEVEL
  BY ConstantsAssumption DEF Levels
<1>2. \A l \in Levels : l > 0 => l - 1 \in Levels /\ l = (l - 1) + 1
  BY ConstantsAssumption DEF Levels
<1>3. \A l \in Levels : l < BUDDY_MAXLEVEL - 1 => l + 1 \in Levels
  BY ConstantsAssumption DEF Levels
<1>4. \A l \in Levels : BlockSize[l] \in Nat \ {0}
  BY <1>1, BlockSizeAssumption
<1>5. \A l \in Levels : l > 0 => BlockSize[l] = 2 * BlockSize[l - 1]
  BY <1>2, BlockSizeAssumption
<1>6. BlockSize[0] = 1 /\ \A l \in Levels : BlockSize[l + 1] = 2 * BlockSize[l]
  BY BlockSizeAssumption
<1> QED BY <1>2, <1>3, <1>4, <1>5, <1>6

\* Splitting: the upper half of an aligned block of level l.
LEMMA RightHalf ==
  ASSUME NEW i \in Nat, NEW l \in Levels, l > 0, i % BlockSize[l] = 0
  PROVE  /\ Buddy(i, l - 1) = i + BlockSize[l - 1]
         /\ i % BlockSize[l - 1] = 0
         /\ (i + BlockSize[l - 1]) % BlockSize[l - 1] = 0
<1>1. BlockSize[l - 1] \in Nat \ {0} /\ BlockSize[l] = 2 * BlockSize[l - 1]
  BY Sizes
<1>2. i % BlockSize[l - 1] = 0 /\ (i \div BlockSize[l - 1]) % 2 = 0
  BY <1>1, HalfAligned
<1>3. (i + BlockSize[l - 1]) % BlockSize[l - 1] = 0
  BY <1>1, <1>2, StepAligned
<1> QED BY <1>2, <1>3 DEF Buddy

\* Merging: the lower of two buddies of level l is aligned to level l + 1.
LEMMA Pair ==
  ASSUME NEW i \in Nat, NEW l \in Levels, l < BUDDY_MAXLEVEL - 1,
         i % BlockSize[l] = 0
  PROVE  \/ /\ Buddy(i, l) = i + BlockSize[l]
            /\ i % BlockSize[l + 1] = 0
         \/ /\ Buddy(i, l) = i - BlockSize[l]
            /\ i - BlockSize[l] \in Nat
            /\ (i - BlockSize[l]) % BlockSize[l + 1] = 0
<1>1. BlockSize[l] \in Nat \ {0} /\ BlockSize[l + 1] = 2 * BlockSize[l]
  BY Sizes
<1>2. CASE (i \div BlockSize[l]) % 2 = 0
  BY <1>1, <1>2, EvenAligned DEF Buddy
<1>3. CASE (i \div BlockSize[l]) % 2 # 0
  <2>1. i - BlockSize[l] \in Nat /\ (i - BlockSize[l]) % (2 * BlockSize[l]) = 0
    BY <1>1, <1>3, OddAligned
  <2>2. Buddy(i, l) = i - BlockSize[l]
    BY <1>3 DEF Buddy
  <2> QED BY <1>1, <2>1, <2>2
<1> QED BY <1>2, <1>3

----------------------------------------------------------------------------
(* The free lists                                                          *)

\* The flags tell free blocks, allocated blocks and inner frames apart.
LEMMA Flags ==
  /\ PAGE_FRAME_ALLOCATED = 1 /\ PAGE_FRAME_BLOCK_HEAD = 2 /\ AllocatedHead = 3
  /\ FramesNumber \in Nat /\ None = FramesNumber
BY ConstantsAssumption
   DEF PAGE_FRAME_ALLOCATED, PAGE_FRAME_BLOCK_HEAD, AllocatedHead, None

\* What ListsLinked says of the free heads F and the fields of the table
Linked(F, fl, lv, nx, pv) ==
  /\ F \subseteq Frames
  /\ \A l \in Levels : fl[l] # None => fl[l] \in F /\ lv[fl[l]] = l
  /\ \A i \in F : nx[i] # None => /\ nx[i] \in F /\ lv[nx[i]] = lv[i]
                                  /\ pv[nx[i]] = i /\ nx[i] # fl[lv[i]]
  /\ \A i \in F : fl[lv[i]] # i => /\ pv[i] \in F /\ lv[pv[i]] = lv[i]
                                   /\ nx[pv[i]] = i

\* ListsLinked is an instance of Linked.
LEMMA LinkedIsListsLinked ==
  ListsLinked <=> Linked(FreeHeads, free_lists, level, next_frame, prev_frame)
BY DEF ListsLinked, Linked, FreeHeads

\* The block p is put in front of the list of level l ...
IsPush(F, fl, lv, nx, pv, F2, fl2, lv2, nx2, pv2, p, l) ==
  /\ Linked(F, fl, lv, nx, pv)
  /\ fl \in [Levels -> 0 .. FramesNumber] /\ nx \in [Frames -> 0 .. FramesNumber]
  /\ p \in Frames /\ p \notin F /\ l \in Levels /\ lv2[p] = l
  /\ F2 = F \union {p} /\ fl2 = [fl EXCEPT ![l] = p] /\ nx2 = [nx EXCEPT ![p] = fl[l]]
  /\ \A i \in F : lv[i] \in Levels /\ lv2[i] = lv[i]
  /\ fl[l] # None => pv2[fl[l]] = p
  /\ \A i \in F : i # fl[l] => pv2[i] = pv[i]

\* Putting a block p in front of the list of level l keeps the lists linked.
LEMMA Push ==
  ASSUME NEW F, NEW fl, NEW lv, NEW nx, NEW pv,
         NEW F2, NEW fl2, NEW lv2, NEW nx2, NEW pv2, NEW p, NEW l,
         IsPush(F, fl, lv, nx, pv, F2, fl2, lv2, nx2, pv2, p, l)
  PROVE  Linked(F2, fl2, lv2, nx2, pv2)
<1> USE DEF IsPush
<1>0. F \subseteq Frames /\ None \notin Frames
  BY Flags DEF Linked, Frames
<1>1. /\ fl2[l] = p /\ nx2[p] = fl[l]
      /\ \A k \in Levels \ {l} : fl2[k] = fl[k]
      /\ \A i \in F : nx2[i] = nx[i]
  BY <1>0
<1>2. \A k \in Levels : fl2[k] # None => fl2[k] \in F2 /\ lv2[fl2[k]] = k
  BY <1>1 DEF Linked
<1>3. ASSUME NEW i \in F2, nx2[i] # None
      PROVE  /\ nx2[i] \in F2 /\ lv2[nx2[i]] = lv2[i]
             /\ pv2[nx2[i]] = i /\ nx2[i] # fl2[lv2[i]]
  <2>1. CASE i = p
    BY <2>1, <1>1, <1>3 DEF Linked
  <2>2. CASE i \in F
    <3>1. /\ nx[i] \in F /\ lv[nx[i]] = lv[i] /\ pv[nx[i]] = i /\ nx[i] # fl[lv[i]]
          /\ nx2[i] = nx[i]
      BY <2>2, <1>1, <1>3 DEF Linked
    <3>2. nx[i] # fl[l]
      BY <3>1, <1>0 DEF Linked
    <3>3. nx[i] # fl2[lv[i]]
      BY <3>1, <2>2, <1>1
    <3> QED BY <2>2, <3>1, <3>2, <3>3
  <2> QED BY <2>1, <2>2
<1>4. ASSUME NEW i \in F2, fl2[lv2[i]] # i
      PROVE  pv2[i] \in F2 /\ lv2[pv2[i]] = lv2[i] /\ nx2[pv2[i]] = i
  <2>1. i \in F /\ lv2[i] = lv[i]
    BY <1>1, <1>4
  <2>2. CASE i = fl[l]
    BY <2>1, <2>2, <1>0, <1>1 DEF Linked
  <2>3. CASE i # fl[l]
    <3>1. fl[lv[i]] # i
      BY <2>1, <2>3, <1>1, <1>4
    <3>2. pv[i] \in F /\ lv[pv[i]] = lv[i] /\ nx[pv[i]] = i
      BY <2>1, <3>1 DEF Linked
    <3> QED BY <2>1, <2>3, <3>2, <1>1
  <2> QED BY <2>2, <2>3
<1> QED BY <1>0, <1>2, <1>3, <1>4 DEF Linked

\* The first block p of the list of level l is taken off ...
IsPop(F, fl, lv, nx, pv, F2, fl2, lv2, nx2, pv2, p, l) ==
  /\ Linked(F, fl, lv, nx, pv)
  /\ fl \in [Levels -> 0 .. FramesNumber] /\ nx \in [Frames -> 0 .. FramesNumber]
  /\ p \in Frames /\ l \in Levels /\ fl[l] = p
  /\ F2 = F \ {p} /\ fl2 = [fl EXCEPT ![l] = nx[p]] /\ nx2 = nx
  /\ \A i \in F : lv[i] \in Levels /\ (i # p => lv2[i] = lv[i])
  /\ \A i \in F : i # nx[p] => pv2[i] = pv[i]

\* Taking the first block p off the list of level l keeps the lists linked.
LEMMA Pop ==
  ASSUME NEW F, NEW fl, NEW lv, NEW nx, NEW pv,
         NEW F2, NEW fl2, NEW lv2, NEW nx2, NEW pv2, NEW p, NEW l,
         IsPop(F, fl, lv, nx, pv, F2, fl2, lv2, nx2, pv2, p, l)
  PROVE  Linked(F2, fl2, lv2, nx2, pv2)
<1> USE DEF IsPop
<1>0. F \subseteq Frames /\ None \notin Frames
  BY Flags DEF Linked, Frames
<1>1. fl2[l] = nx[p] /\ \A k \in Levels \ {l} : fl2[k] = fl[k]
  OBVIOUS
<1>2. p \in F /\ lv[p] = l
  BY <1>0 DEF Linked
<1>3. nx[p] # None => nx[p] \in F2 /\ lv[nx[p]] = l /\ pv[nx[p]] = p
  BY <1>2 DEF Linked
<1>4. \A k \in Levels : fl2[k] # None => fl2[k] \in F2 /\ lv2[fl2[k]] = k
  BY <1>1, <1>2, <1>3 DEF Linked
<1>5. ASSUME NEW i \in F2, nx[i] # None
      PROVE  /\ nx[i] \in F2 /\ lv2[nx[i]] = lv2[i]
             /\ pv2[nx[i]] = i /\ nx[i] # fl2[lv2[i]]
  <2>1. /\ nx[i] \in F /\ lv[nx[i]] = lv[i] /\ pv[nx[i]] = i /\ nx[i] # fl[lv[i]]
        /\ lv2[i] = lv[i]
    BY <1>5 DEF Linked
  <2>2. nx[i] # p
    BY <2>1, <1>2
  <2>3. nx[i] # nx[p]
    BY <2>1, <1>3, <1>5
  <2> QED BY <2>1, <2>2, <2>3, <1>1
<1>6. ASSUME NEW i \in F2, fl2[lv2[i]] # i
      PROVE  pv2[i] \in F2 /\ lv2[pv2[i]] = lv2[i] /\ nx[pv2[i]] = i
  <2>1. i \in F /\ i # p /\ lv2[i] = lv[i]
    BY <1>6
  <2>2. i # nx[p]
    BY <2>1, <1>0, <1>1, <1>3, <1>6
  <2>3. fl[lv[i]] # i
    BY <2>1, <1>1, <1>6
  <2>4. pv[i] \in F /\ lv[pv[i]] = lv[i] /\ nx[pv[i]] = i
    BY <2>1, <2>3 DEF Linked
  <2> QED BY <2>1, <2>2, <2>4
<1> QED BY <1>0, <1>4, <1>5, <1>6 DEF Linked

\* The block p is taken out of the middle of the list of level l ...
IsUnlink(F, fl, lv, nx, pv, F2, fl2, lv2, nx2, pv2, p, l) ==
  /\ Linked(F, fl, lv, nx, pv)
  /\ fl \in [Levels -> 0 .. FramesNumber] /\ nx \in [Frames -> 0 .. FramesNumber]
  /\ p \in F /\ l \in Levels /\ lv[p] = l /\ fl[l] # p
  /\ F2 = F \ {p} /\ fl2 = fl /\ nx2 = [nx EXCEPT ![pv[p]] = nx[p]]
  /\ \A i \in F : lv[i] \in Levels /\ (i # p => lv2[i] = lv[i])
  /\ nx[p] # None => pv2[nx[p]] = pv[p]
  /\ \A i \in F : i # nx[p] => pv2[i] = pv[i]

\* So does taking a block p out of the middle of its list.
LEMMA Unlink ==
  ASSUME NEW F, NEW fl, NEW lv, NEW nx, NEW pv,
         NEW F2, NEW fl2, NEW lv2, NEW nx2, NEW pv2, NEW p, NEW l,
         IsUnlink(F, fl, lv, nx, pv, F2, fl2, lv2, nx2, pv2, p, l)
  PROVE  Linked(F2, fl2, lv2, nx2, pv2)
<1> USE DEF IsUnlink
<1>0. F \subseteq Frames /\ None \notin Frames
  BY Flags DEF Linked, Frames
<1>1. pv[p] \in F /\ lv[pv[p]] = l /\ nx[pv[p]] = p
  BY DEF Linked
<1>2. nx2[pv[p]] = nx[p] /\ \A i \in F \ {pv[p]} : nx2[i] = nx[i]
  BY <1>0, <1>1
<1>3. nx[p] # None => /\ nx[p] \in F /\ lv[nx[p]] = l /\ pv[nx[p]] = p
                      /\ nx[p] # fl[l]
  BY DEF Linked
<1>4. \A k \in Levels : fl[k] # None => fl[k] \in F2 /\ lv2[fl[k]] = k
  BY DEF Linked
<1>5. ASSUME NEW i \in F2, nx2[i] # None
      PROVE  /\ nx2[i] \in F2 /\ lv2[nx2[i]] = lv2[i]
             /\ pv2[nx2[i]] = i /\ nx2[i] # fl[lv2[i]]
  <2>1. CASE i = pv[p]
    <3>1. nx[p] # p
      BY <2>1, <1>2, <1>3, <1>5
    <3> QED BY <2>1, <3>1, <1>1, <1>2, <1>3, <1>5
  <2>2. CASE i # pv[p]
    <3>1. /\ nx[i] \in F /\ lv[nx[i]] = lv[i] /\ pv[nx[i]] = i /\ nx[i] # fl[lv[i]]
          /\ nx2[i] = nx[i]
      BY <2>2, <1>2, <1>5 DEF Linked
    <3>2. nx[i] # p
      BY <2>2, <3>1
    <3>3. nx[i] # nx[p]
      BY <3>1, <1>0, <1>3, <1>5
    <3> QED BY <3>1, <3>2, <3>3
  <2> QED BY <2>1, <2>2
<1>6. ASSUME NEW i \in F2, fl[lv2[i]] # i
      PROVE  pv2[i] \in F2 /\ lv2[pv2[i]] = lv2[i] /\ nx2[pv2[i]] = i
  <2>1. i \in F /\ i # p /\ lv2[i] = lv[i]
    BY <1>6
  <2>2. CASE i = nx[p]
    BY <2>1, <2>2, <1>0, <1>1, <1>2, <1>3
  <2>3. CASE i # nx[p]
    <3>1. pv[i] \in F /\ lv[pv[i]] = lv[i] /\ nx[pv[i]] = i
      BY <2>1, <1>6 DEF Linked
    <3>2. pv[i] # p /\ pv[i] # pv[p]
      BY <2>1, <2>3, <3>1, <1>1
    <3> QED BY <2>1, <2>3, <3>1, <3>2, <1>2
  <2> QED BY <2>2, <2>3
<1> QED BY <1>0, <1>4, <1>5, <1>6 DEF Linked

\* s is the list that starts at h: following nx it ends after n blocks.
Chain(h, nx, n, s) ==
  /\ n \in Nat /\ s \in [0 .. n -> 0 .. FramesNumber]
  /\ s[0] = h /\ s[n] = None
  /\ \A i \in 0 .. n - 1 : s[i] \in Frames /\ nx[s[i]] = s[i + 1]
  /\ \A i, j \in 0 .. n - 1 : s[i] = s[j] => i = j

\* The list that starts at h holds the blocks S.
IsChain(h, nx, S) == \E n, s : Chain(h, nx, n, s) /\ S = {s[i] : i \in 0 .. n - 1}

\* The list of each level holds all the free blocks of that level.
Chained(F, fl, lv, nx) == \A l \in Levels : IsChain(fl[l], nx, {i \in F : lv[i] = l})

\* A list depends on the links of its own blocks only.
LEMMA ChainFrame ==
  ASSUME NEW h, NEW nx, NEW nx2, NEW S, IsChain(h, nx, S), \A x \in S : nx2[x] = nx[x]
  PROVE  IsChain(h, nx2, S)
<1>1. PICK n, s : Chain(h, nx, n, s) /\ S = {s[i] : i \in 0 .. n - 1}
  BY DEF IsChain
<1>2. \A i \in 0 .. n - 1 : s[i] \in S
  BY <1>1
<1>3. Chain(h, nx2, n, s)
  BY <1>1, <1>2 DEF Chain
<1> QED BY <1>1, <1>3 DEF IsChain

\* A new block in front
LEMMA ChainPush ==
  ASSUME NEW h, NEW nx, NEW nx2, NEW S, IsChain(h, nx, S), NEW p \in Frames \ S,
         nx2[p] = h, \A x \in S : nx2[x] = nx[x]
  PROVE  IsChain(p, nx2, S \union {p})
<1>1. PICK n, s : Chain(h, nx, n, s) /\ S = {s[i] : i \in 0 .. n - 1}
  BY DEF IsChain
<1>2. PICK m : m = n + 1
  OBVIOUS
<1>3. n \in Nat /\ m \in Nat /\ m - 1 = n
  BY <1>1, <1>2 DEF Chain
<1> DEFINE r == [i \in 0 .. m |-> IF i = 0 THEN p ELSE s[i - 1]]
<1>4. /\ r \in [0 .. m -> 0 .. FramesNumber] /\ r[0] = p
      /\ \A i \in 0 .. n : r[i + 1] = s[i]
  <2>1. p \in 0 .. FramesNumber /\ \A i \in 0 .. n : s[i] \in 0 .. FramesNumber
    BY <1>1, Flags DEF Chain, Frames
  <2>2. \A i \in 0 .. m : i # 0 => i - 1 \in 0 .. n
    BY <1>2, <1>3
  <2>3. \A i \in 0 .. n : i + 1 \in 0 .. m /\ i + 1 # 0 /\ (i + 1) - 1 = i
    BY <1>2, <1>3
  <2> QED BY <1>3, <2>1, <2>2, <2>3
<1> HIDE DEF r
<1>5. \A i \in 0 .. n : i = 0 \/ (i - 1 \in 0 .. n - 1 /\ r[i] = s[i - 1])
  <2> SUFFICES ASSUME NEW i \in 0 .. n, i # 0
               PROVE  i - 1 \in 0 .. n - 1 /\ r[i] = s[i - 1]
    OBVIOUS
  <2>1. i - 1 \in 0 .. n - 1 /\ i - 1 \in 0 .. n /\ (i - 1) + 1 = i
    BY <1>3
  <2> QED BY <1>4, <2>1
<1>6. \A i \in 0 .. n - 1 : s[i] \in S
  BY <1>1
<1>7. Chain(p, nx2, m, r)
  <2>1. r[m] = None
    <3>1. n \in 0 .. n /\ s[n] = None
      BY <1>1, <1>3 DEF Chain
    <3> QED BY <1>2, <1>4, <3>1
  <2>2. ASSUME NEW i \in 0 .. n
        PROVE  r[i] \in Frames /\ nx2[r[i]] = r[i + 1]
    <3>1. CASE i = 0
      <4>1. r[0 + 1] = s[0] /\ s[0] = h
        BY <1>1, <1>3, <1>4 DEF Chain
      <4> QED BY <1>4, <3>1, <4>1
    <3>2. CASE i # 0
      <4>1. i - 1 \in 0 .. n - 1 /\ r[i] = s[i - 1] /\ (i - 1) + 1 = i
        BY <1>3, <1>5, <3>2
      <4>2. s[i - 1] \in Frames /\ nx[s[i - 1]] = s[i]
        BY <1>1, <4>1 DEF Chain
      <4>3. r[i + 1] = s[i]
        BY <1>4
      <4> QED BY <1>6, <4>1, <4>2, <4>3
    <3> QED BY <3>1, <3>2
  <2>3. ASSUME NEW i \in 0 .. n, NEW j \in 0 .. n, r[i] = r[j]
        PROVE  i = j
    <3>1. \A k \in 0 .. n : k # 0 => r[k] # p
      BY <1>5, <1>6
    <3>2. CASE i = 0 \/ j = 0
      BY <1>4, <2>3, <3>1, <3>2
    <3>3. CASE i # 0 /\ j # 0
      <4>1. i - 1 \in 0 .. n - 1 /\ j - 1 \in 0 .. n - 1 /\ s[i - 1] = s[j - 1]
        BY <1>5, <2>3, <3>3
      <4>2. i - 1 = j - 1
        BY <1>1, <4>1 DEF Chain
      <4> QED BY <1>3, <4>2
    <3> QED BY <3>2, <3>3
  <2> QED BY <1>3, <1>4, <2>1, <2>2, <2>3 DEF Chain
<1>8. S \union {p} = {r[i] : i \in 0 .. m - 1}
  <2>1. ASSUME NEW x \in S
        PROVE  \E i \in 0 .. m - 1 : x = r[i]
    <3>1. PICK i \in 0 .. n - 1 : x = s[i]
      BY <1>1
    <3>2. i + 1 \in 0 .. m - 1 /\ r[i + 1] = s[i]
      BY <1>3, <1>4, <3>1
    <3> QED BY <3>1, <3>2
  <2>2. 0 \in 0 .. m - 1 /\ r[0] = p
    BY <1>3, <1>4
  <2>3. \A i \in 0 .. m - 1 : r[i] \in S \union {p}
    BY <1>3, <1>4, <1>5, <1>6
  <2> QED BY <2>1, <2>2, <2>3
<1> QED BY <1>7, <1>8 DEF IsChain

\* The first block is taken off.
LEMMA ChainPop ==
  ASSUME NEW h \in Frames, NEW nx, NEW nx2, NEW S, IsChain(h, nx, S),
         \A x \in S \ {h} : nx2[x] = nx[x]
  PROVE  IsChain(nx[h], nx2, S \ {h})
<1>1. PICK n, s : Chain(h, nx, n, s) /\ S = {s[i] : i \in 0 .. n - 1}
  BY DEF IsChain
<1>2. n \in Nat /\ n # 0
  BY <1>1, Flags DEF Chain, Frames
<1>3. PICK m : m = n - 1
  OBVIOUS
<1>4. m \in Nat /\ m + 1 = n
  BY <1>2, <1>3
<1> DEFINE r == [i \in 0 .. m |-> s[i + 1]]
<1>5. r \in [0 .. m -> 0 .. FramesNumber] /\ \A i \in 0 .. m : r[i] = s[i + 1] /\ i + 1 \in 0 .. n
  <2>1. \A i \in 0 .. m : i + 1 \in 0 .. n
    BY <1>4
  <2>2. \A i \in 0 .. n : s[i] \in 0 .. FramesNumber
    BY <1>1 DEF Chain
  <2> QED BY <2>1, <2>2
<1> HIDE DEF r
<1>6. \A i \in 0 .. m - 1 : i + 1 \in 0 .. n - 1 /\ i \in 0 .. m /\ s[i + 1] \in S \ {h}
  <2> SUFFICES ASSUME NEW i \in 0 .. m - 1
               PROVE  i + 1 \in 0 .. n - 1 /\ i \in 0 .. m /\ s[i + 1] \in S \ {h}
    OBVIOUS
  <2>1. i + 1 \in 0 .. n - 1 /\ i \in 0 .. m /\ i + 1 # 0 /\ 0 \in 0 .. n - 1
    BY <1>4
  <2>2. s[i + 1] # s[0] /\ s[0] = h
    BY <1>1, <2>1 DEF Chain
  <2> QED BY <1>1, <2>1, <2>2
<1>7. Chain(nx[h], nx2, m, r)
  <2>1. r[0] = nx[h] /\ r[m] = None
    <3>1. 0 \in 0 .. n - 1 /\ 0 \in 0 .. m /\ m \in 0 .. m
      BY <1>4
    <3>2. r[0] = s[0 + 1] /\ r[m] = s[n] /\ nx[s[0]] = s[0 + 1]
      BY <1>1, <1>4, <1>5, <3>1 DEF Chain
    <3> QED BY <1>1, <3>2 DEF Chain
  <2>2. ASSUME NEW i \in 0 .. m - 1
        PROVE  r[i] \in Frames /\ nx2[r[i]] = r[i + 1]
    <3>1. i + 1 \in 0 .. n - 1 /\ i \in 0 .. m /\ i + 1 \in 0 .. m
      BY <1>4, <1>6
    <3>2. r[i] = s[i + 1] /\ r[i + 1] = s[(i + 1) + 1]
      BY <1>5, <3>1
    <3>3. s[i + 1] \in Frames /\ nx[s[i + 1]] = s[(i + 1) + 1]
      BY <1>1, <3>1 DEF Chain
    <3> QED BY <1>6, <3>2, <3>3
  <2>3. ASSUME NEW i \in 0 .. m - 1, NEW j \in 0 .. m - 1, r[i] = r[j]
        PROVE  i = j
    <3>1. i + 1 \in 0 .. n - 1 /\ j + 1 \in 0 .. n - 1 /\ s[i + 1] = s[j + 1]
      BY <1>5, <1>6, <2>3
    <3>2. i + 1 = j + 1
      BY <1>1, <3>1 DEF Chain
    <3> QED BY <1>4, <3>2
  <2> QED BY <1>4, <1>5, <2>1, <2>2, <2>3 DEF Chain
<1>8. S \ {h} = {r[i] : i \in 0 .. m - 1}
  <2>1. ASSUME NEW x \in S \ {h}
        PROVE  \E i \in 0 .. m - 1 : x = r[i]
    <3>1. PICK i \in 0 .. n - 1 : x = s[i]
      BY <1>1
    <3>2. i # 0
      BY <1>1, <3>1 DEF Chain
    <3>3. i - 1 \in 0 .. m - 1 /\ i - 1 \in 0 .. m /\ (i - 1) + 1 = i
      BY <1>4, <3>1, <3>2
    <3> QED BY <1>5, <3>1, <3>3
  <2>2. \A i \in 0 .. m - 1 : r[i] \in S \ {h}
    BY <1>5, <1>6
  <2> QED BY <2>1, <2>2
<1> QED BY <1>7, <1>8 DEF IsChain

\* A block p that is not the first is taken out, behind its predecessor q.
LEMMA ChainUnlink ==
  ASSUME NEW h, NEW nx, NEW nx2, NEW S, IsChain(h, nx, S),
         NEW p \in S, p # h, NEW q \in S, nx[q] = p,
         nx2[q] = nx[p], \A x \in S \ {p, q} : nx2[x] = nx[x]
  PROVE  IsChain(h, nx2, S \ {p})
<1>1. PICK n, s : Chain(h, nx, n, s) /\ S = {s[i] : i \in 0 .. n - 1}
  BY DEF IsChain
<1>2. PICK k \in 0 .. n - 1 : p = s[k]
  BY <1>1
<1>3. PICK j \in 0 .. n - 1 : q = s[j]
  BY <1>1
<1>4. n \in Nat /\ n # 0 /\ k # 0
  BY <1>1, <1>2 DEF Chain
<1>n. \A i \in 0 .. n - 1 : s[i] \in Frames /\ nx[s[i]] = s[i + 1]
  BY <1>1 DEF Chain
<1>i. \A a, b \in 0 .. n : s[a] = s[b] => a = b
  <2>1. \A a, b \in 0 .. n - 1 : s[a] = s[b] => a = b
    BY <1>1 DEF Chain
  <2>2. s[n] \notin Frames
    BY <1>1, Flags DEF Chain, Frames
  <2>3. \A a \in 0 .. n : a = n \/ a \in 0 .. n - 1
    BY <1>4
  <2> QED BY <1>n, <2>1, <2>2, <2>3
<1>5. j + 1 = k
  <2>1. s[j + 1] = s[k]
    BY <1>2, <1>3, <1>n
  <2>2. j + 1 \in 0 .. n /\ k \in 0 .. n
    BY <1>2, <1>3, <1>4
  <2> QED BY <1>i, <2>1, <2>2
<1>6. PICK m : m = n - 1
  OBVIOUS
<1>7. m \in Nat /\ m + 1 = n
  BY <1>4, <1>6
<1> DEFINE r == [i \in 0 .. m |-> IF i < k THEN s[i] ELSE s[i + 1]]
<1>8. /\ r \in [0 .. m -> 0 .. FramesNumber]
      /\ \A i \in 0 .. m : i < k => r[i] = s[i]
      /\ \A i \in 0 .. m : i >= k => r[i] = s[i + 1]
  <2>1. \A i \in 0 .. m : i \in 0 .. n /\ i + 1 \in 0 .. n
    BY <1>7
  <2>2. \A i \in 0 .. n : s[i] \in 0 .. FramesNumber
    BY <1>1 DEF Chain
  <2> QED BY <1>2, <1>7, <2>1, <2>2
<1> HIDE DEF r
<1>9. Chain(h, nx2, m, r)
  <2>1. r[0] = h /\ r[m] = None
    <3>1. 0 < k /\ 0 \in 0 .. m /\ m \in 0 .. m /\ m >= k
      BY <1>2, <1>4, <1>7
    <3> QED BY <1>1, <1>7, <1>8, <3>1 DEF Chain
  <2>2. ASSUME NEW i \in 0 .. m - 1
        PROVE  r[i] \in Frames /\ nx2[r[i]] = r[i + 1]
    <3>0. i \in 0 .. m /\ i + 1 \in 0 .. m /\ i \in 0 .. n - 1 /\ i + 1 \in 0 .. n - 1
      BY <1>7
    <3>1. CASE i + 1 < k
      <4>1. r[i] = s[i] /\ r[i + 1] = s[i + 1]
        BY <1>2, <1>8, <3>0, <3>1
      <4>2. s[i] # p /\ s[i] # q
        <5>1. i # k /\ i # j /\ i \in 0 .. n /\ k \in 0 .. n /\ j \in 0 .. n
          BY <1>2, <1>3, <1>4, <1>5, <3>1
        <5> QED BY <1>2, <1>3, <1>i, <5>1
      <4>3. s[i] \in S
        BY <1>1, <3>0
      <4> QED BY <1>n, <3>0, <4>1, <4>2, <4>3
    <3>2. CASE i + 1 = k
      <4>1. i = j /\ i < k
        BY <1>2, <1>3, <1>5, <3>2
      <4>2. r[i] = s[i] /\ r[i + 1] = s[k + 1]
        BY <1>2, <1>8, <3>0, <3>2, <4>1
      <4>3. s[i] = q /\ nx[p] = s[k + 1]
        BY <1>2, <1>3, <1>n, <4>1
      <4> QED BY <1>n, <3>0, <4>2, <4>3
    <3>3. CASE i + 1 > k
      <4>1. r[i] = s[i + 1] /\ r[i + 1] = s[(i + 1) + 1]
        BY <1>2, <1>8, <3>0, <3>3
      <4>2. s[i + 1] # p /\ s[i + 1] # q
        <5>1. i + 1 # k /\ i + 1 # j /\ i + 1 \in 0 .. n /\ k \in 0 .. n /\ j \in 0 .. n
          BY <1>2, <1>3, <1>4, <1>5, <3>0, <3>3
        <5> QED BY <1>2, <1>3, <1>i, <5>1
      <4>3. s[i + 1] \in S
        BY <1>1, <3>0
      <4> QED BY <1>n, <3>0, <4>1, <4>2, <4>3
    <3> QED BY <1>2, <3>1, <3>2, <3>3
  <2>3. ASSUME NEW a \in 0 .. m - 1, NEW b \in 0 .. m - 1, r[a] = r[b]
        PROVE  a = b
    <3>1. /\ a \in 0 .. m /\ a \in 0 .. n /\ a + 1 \in 0 .. n
          /\ b \in 0 .. m /\ b \in 0 .. n /\ b + 1 \in 0 .. n
      BY <1>7
    <3>2. /\ (a < k /\ r[a] = s[a]) \/ (a >= k /\ r[a] = s[a + 1])
          /\ (b < k /\ r[b] = s[b]) \/ (b >= k /\ r[b] = s[b + 1])
      BY <1>2, <1>8, <3>1
    <3>3. \/ a < k /\ b < k /\ a = b
          \/ a < k /\ b >= k /\ a = b + 1
          \/ a >= k /\ b < k /\ a + 1 = b
          \/ a >= k /\ b >= k /\ a + 1 = b + 1
      BY <1>i, <2>3, <3>1, <3>2
    <3> QED BY <1>2, <3>1, <3>3
  <2> QED BY <1>7, <1>8, <2>1, <2>2, <2>3 DEF Chain
<1>10. S \ {p} = {r[i] : i \in 0 .. m - 1}
  <2>1. ASSUME NEW x \in S \ {p}
        PROVE  \E i \in 0 .. m - 1 : x = r[i]
    <3>1. PICK i \in 0 .. n - 1 : x = s[i] /\ i # k
      BY <1>1, <1>2
    <3>2. CASE i < k
      <4>1. i \in 0 .. m - 1 /\ i \in 0 .. m
        BY <1>2, <1>7, <3>1, <3>2
      <4> QED BY <1>8, <3>1, <3>2, <4>1
    <3>3. CASE i > k
      <4>1. i - 1 \in 0 .. m - 1 /\ i - 1 \in 0 .. m /\ i - 1 >= k /\ (i - 1) + 1 = i
        BY <1>2, <1>7, <3>1, <3>3
      <4>2. r[i - 1] = s[i]
        BY <1>8, <4>1
      <4> QED BY <3>1, <4>1, <4>2
    <3> QED BY <1>2, <3>1, <3>2, <3>3
  <2>2. ASSUME NEW i \in 0 .. m - 1
        PROVE  r[i] \in S \ {p}
    <3>0. i \in 0 .. m /\ i \in 0 .. n - 1 /\ i + 1 \in 0 .. n - 1
      BY <1>7
    <3>1. \A a \in 0 .. n - 1 : a # k => s[a] \in S \ {p}
      <4>1. \A a \in 0 .. n - 1 : a \in 0 .. n
        BY <1>4
      <4> QED BY <1>1, <1>2, <1>i, <4>1
    <3>2. CASE i < k
      <4>1. i # k /\ r[i] = s[i]
        BY <1>8, <3>0, <3>2
      <4> QED BY <3>0, <3>1, <4>1
    <3>3. CASE i >= k
      <4>1. i + 1 # k /\ r[i] = s[i + 1]
        BY <1>2, <1>8, <3>0, <3>3
      <4> QED BY <3>0, <3>1, <4>1
    <3> QED BY <1>2, <3>2, <3>3
  <2> QED BY <2>1, <2>2
<1> QED BY <1>9, <1>10 DEF IsChain

\* Putting a block in front of a list ...
LEMMA ChainedPush ==
  ASSUME NEW F, NEW fl, NEW lv, NEW nx, NEW pv,
         NEW F2, NEW fl2, NEW lv2, NEW nx2, NEW pv2, NEW p, NEW l,
         IsPush(F, fl, lv, nx, pv, F2, fl2, lv2, nx2, pv2, p, l),
         Chained(F, fl, lv, nx)
  PROVE  Chained(F2, fl2, lv2, nx2)
<1> USE DEF IsPush
<1>0. F \subseteq Frames /\ p \in Frames \ F /\ l \in Levels
  BY DEF Linked
<1>1. /\ fl2[l] = p /\ nx2[p] = fl[l]
      /\ \A k \in Levels \ {l} : fl2[k] = fl[k]
      /\ \A i \in F : nx2[i] = nx[i]
  BY <1>0
<1> SUFFICES ASSUME NEW k \in Levels
             PROVE  IsChain(fl2[k], nx2, {i \in F2 : lv2[i] = k})
  BY DEF Chained
<1>2. IsChain(fl[k], nx, {i \in F : lv[i] = k})
  BY DEF Chained
<1> DEFINE S == {i \in F : lv[i] = k}
<1>3. \A x \in S : nx2[x] = nx[x]
  BY <1>1
<1>4. CASE k = l
  <2>1. {i \in F2 : lv2[i] = k} = S \union {p}
    BY <1>4
  <2>2. IsChain(p, nx2, S \union {p})
    <3>1. p \in Frames \ S /\ nx2[p] = fl[k]
      BY <1>0, <1>1, <1>4
    <3> HIDE DEF S, IsPush
    <3> QED BY <1>2, <1>3, <3>1, ChainPush DEF S
  <2> QED BY <1>1, <1>4, <2>1, <2>2
<1>5. CASE k # l
  <2>1. {i \in F2 : lv2[i] = k} = S
    BY <1>5
  <2>2. IsChain(fl[k], nx2, S)
    <3> HIDE DEF S, IsPush
    <3> QED BY <1>2, <1>3, ChainFrame DEF S
  <2> QED BY <1>1, <1>5, <2>1, <2>2
<1> QED BY <1>4, <1>5

\* ... taking the first block off ...
LEMMA ChainedPop ==
  ASSUME NEW F, NEW fl, NEW lv, NEW nx, NEW pv,
         NEW F2, NEW fl2, NEW lv2, NEW nx2, NEW pv2, NEW p, NEW l,
         IsPop(F, fl, lv, nx, pv, F2, fl2, lv2, nx2, pv2, p, l),
         Chained(F, fl, lv, nx)
  PROVE  Chained(F2, fl2, lv2, nx2)
<1> USE DEF IsPop
<1>0. F \subseteq Frames /\ None \notin Frames
  BY Flags DEF Linked, Frames
<1>1. /\ fl2[l] = nx[p] /\ fl[l] = p /\ \A k \in Levels \ {l} : fl2[k] = fl[k]
      /\ nx2 = nx
  OBVIOUS
<1>2. p \in F /\ lv[p] = l
  BY <1>0 DEF Linked
<1> SUFFICES ASSUME NEW k \in Levels
             PROVE  IsChain(fl2[k], nx2, {i \in F2 : lv2[i] = k})
  BY DEF Chained
<1> DEFINE S == {i \in F : lv[i] = k}
<1>3. IsChain(fl[k], nx, S)
  BY DEF Chained
<1>4. {i \in F2 : lv2[i] = k} = S \ {p}
  OBVIOUS
<1>5. CASE k = l
  <2>1. IsChain(nx[p], nx, S \ {p})
    <3>1. p \in Frames /\ IsChain(p, nx, S)
      BY <1>1, <1>3, <1>5
    <3> HIDE DEF S, IsPop
    <3> QED BY <3>1, ChainPop
  <2> QED BY <1>1, <1>4, <1>5, <2>1
<1>6. CASE k # l
  <2>1. S \ {p} = S
    BY <1>2, <1>6
  <2> QED BY <1>1, <1>3, <1>4, <1>6, <2>1
<1> QED BY <1>5, <1>6

\* ... and taking a block out of the middle keep each list complete.
LEMMA ChainedUnlink ==
  ASSUME NEW F, NEW fl, NEW lv, NEW nx, NEW pv,
         NEW F2, NEW fl2, NEW lv2, NEW nx2, NEW pv2, NEW p, NEW l,
         IsUnlink(F, fl, lv, nx, pv, F2, fl2, lv2, nx2, pv2, p, l),
         Chained(F, fl, lv, nx)
  PROVE  Chained(F2, fl2, lv2, nx2)
<1> USE DEF IsUnlink
<1>0. F \subseteq Frames
  BY DEF Linked
<1>1. pv[p] \in F /\ lv[pv[p]] = l /\ nx[pv[p]] = p
  BY DEF Linked
<1>2. fl2 = fl /\ nx2[pv[p]] = nx[p] /\ \A i \in F \ {pv[p]} : nx2[i] = nx[i]
  BY <1>0, <1>1
<1> SUFFICES ASSUME NEW k \in Levels
             PROVE  IsChain(fl2[k], nx2, {i \in F2 : lv2[i] = k})
  BY DEF Chained
<1> DEFINE S == {i \in F : lv[i] = k}
<1>3. IsChain(fl[k], nx, S)
  BY DEF Chained
<1>4. {i \in F2 : lv2[i] = k} = S \ {p}
  OBVIOUS
<1>5. CASE k = l
  <2>1. p \in S /\ p # fl[k] /\ pv[p] \in S
    BY <1>1, <1>5
  <2>2. \A x \in S \ {p, pv[p]} : nx2[x] = nx[x]
    BY <1>2
  <2>3. IsChain(fl[k], nx2, S \ {p})
    <3> HIDE DEF S, IsUnlink
    <3> QED BY <1>1, <1>2, <1>3, <2>1, <2>2, ChainUnlink
  <2> QED BY <1>2, <1>4, <2>3
<1>6. CASE k # l
  <2>1. S \ {p} = S
    BY <1>6
  <2>2. \A x \in S : nx2[x] = nx[x]
    BY <1>1, <1>2, <1>6
  <2>3. IsChain(fl[k], nx2, S)
    <3> HIDE DEF S, IsUnlink
    <3> QED BY <1>3, <2>2, ChainFrame
  <2> QED BY <1>2, <1>4, <2>1, <2>3
<1> QED BY <1>5, <1>6

\* Each of two buddies is the other's buddy.
LEMMA BuddyBack ==
  ASSUME NEW i \in Nat, NEW l \in Levels, l < BUDDY_MAXLEVEL - 1, i % BlockSize[l] = 0
  PROVE  Buddy(Buddy(i, l), l) = i
<1> PICK s \in Nat \ {0} : s = BlockSize[l]
  BY Sizes
<1> PICK q \in Nat : q = i \div s /\ i = s * q
  OBVIOUS
<1>1. q \in Nat /\ i = s * q
  OBVIOUS
<1>2. CASE q % 2 = 0
  <2>1. Buddy(i, l) = i + s
    BY <1>2 DEF Buddy
  <2>2. i + s = s * (q + 1) /\ q + 1 \in Nat
    BY <1>1
  <2>3. (i + s) \div s = q + 1
    BY <2>2, Quotient, ZenonT(30)
  <2>4. (q + 1) % 2 # 0
    BY <1>1, <1>2
  <2>5. Buddy(i + s, l) = (i + s) - s
    BY <2>3, <2>4 DEF Buddy
  <2> QED BY <2>1, <2>5
<1>3. CASE q % 2 # 0
  <2>1. Buddy(i, l) = i - s
    BY <1>3 DEF Buddy
  <2>0. q # 0
    BY <1>3
  <2>2. q - 1 \in Nat /\ i - s = s * (q - 1)
    BY <1>1, <2>0
  <2>3. (i - s) \div s = q - 1
    BY <2>2, Quotient
  <2>4. (q - 1) % 2 = 0
    BY <1>1, <1>3
  <2>5. Buddy(i - s, l) = (i - s) + s
    BY <2>3, <2>4 DEF Buddy
  <2> QED BY <2>1, <2>5
<1> QED BY <1>2, <1>3

\* No two free blocks of F are buddies of one another: they have been merged.
NoBuddies(F, lv) ==
  \A i \in F : lv[i] < BUDDY_MAXLEVEL - 1 =>
      ~(Buddy(i, lv[i]) \in F /\ lv[Buddy(i, lv[i])] = lv[i])

\* A new free block p whose buddy is not free leaves no buddies unmerged.
LEMMA BuddiesPush ==
  ASSUME NEW F, NEW lv, NEW lv2, NEW p \in Nat, NEW l \in Levels, NoBuddies(F, lv),
         \A i \in F : lv2[i] = lv[i] /\ lv[i] \in Levels, lv2[p] = l, p \notin F,
         \A i \in F : i \in Nat /\ i % BlockSize[lv[i]] = 0,
         p % BlockSize[l] = 0,
         l < BUDDY_MAXLEVEL - 1 => ~(Buddy(p, l) \in F /\ lv[Buddy(p, l)] = l)
  PROVE  NoBuddies(F \union {p}, lv2)
<1> SUFFICES ASSUME NEW i \in F \union {p}, lv2[i] < BUDDY_MAXLEVEL - 1,
                    Buddy(i, lv2[i]) \in F \union {p},
                    lv2[Buddy(i, lv2[i])] = lv2[i]
             PROVE  FALSE
  BY DEF NoBuddies
<1> PICK k : k = lv2[i]
  OBVIOUS
<1> PICK b : b = Buddy(i, k)
  OBVIOUS
<1>1. k \in Levels /\ i \in Nat /\ i % BlockSize[k] = 0 /\ b # i /\ k < BUDDY_MAXLEVEL - 1
  <2>1. k \in Levels /\ i \in Nat /\ i % BlockSize[k] = 0
    OBVIOUS
  <2>2. BlockSize[k] \in Nat \ {0}
    BY <2>1, Sizes
  <2> QED BY <2>1, <2>2 DEF Buddy
<1>2. CASE i = p
  BY <1>1, <1>2
<1>3. CASE i \in F /\ b \in F
  BY <1>3 DEF NoBuddies
<1>4. CASE i \in F /\ b = p
  <2>1. Buddy(b, k) = i
    BY <1>1, BuddyBack
  <2> QED BY <1>1, <1>4, <2>1
<1> QED BY <1>2, <1>3, <1>4

\* Blocks that are there because no larger one fits in the rest of the zone
\* have no buddies.
LEMMA TailNoBuddies ==
  ASSUME NEW F, NEW lv,
         \A i \in F : /\ i \in Nat /\ lv[i] \in Levels /\ i % BlockSize[lv[i]] = 0
                      /\ i + BlockSize[lv[i]] <= FramesNumber,
         \A i \in F : lv[i] < BUDDY_MAXLEVEL - 1 => i + BlockSize[lv[i] + 1] > FramesNumber
  PROVE  NoBuddies(F, lv)
<1> SUFFICES ASSUME NEW i \in F, lv[i] < BUDDY_MAXLEVEL - 1,
                    Buddy(i, lv[i]) \in F, lv[Buddy(i, lv[i])] = lv[i]
             PROVE  FALSE
  BY DEF NoBuddies
<1> PICK k \in Levels : k = lv[i]
  OBVIOUS
<1> PICK s \in Nat \ {0} : s = BlockSize[k]
  BY Sizes
<1> PICK b \in F : b = Buddy(i, k)
  OBVIOUS
<1>1. BlockSize[k + 1] = 2 * s
  BY Sizes
<1>2. i + s <= FramesNumber /\ b + s <= FramesNumber /\ i \in Nat /\ b \in Nat
  OBVIOUS
<1>3. i + 2 * s > FramesNumber /\ b + 2 * s > FramesNumber
  BY <1>1
<1>4. b = i + s \/ b = i - s
  BY DEF Buddy
<1> QED BY <1>2, <1>3, <1>4, Flags

----------------------------------------------------------------------------
(* The inductive invariant                                                 *)

\* Every frame that has been carved is in some block.
Covered ==
  \A f \in Frames : (pc = "init" => f < page_index) =>
      \E i \in Frames : IsBlockHead(i) /\ f \in Block(i, BlockLevel(i))

\* What the table has as allocated, some client holds.
OwnedKnown ==
  \A i \in Frames : (flags[i] = AllocatedHead /\ ~InFlight(i)) => <<i, level[i]>> \in owned

\* init_normal_mem_zone makes a block below the top level only where the
\* block twice its size no longer fits.
Tail ==
  pc = "init" =>
      /\ cur < BUDDY_MAXLEVEL - 1 => page_index + BlockSize[cur + 1] > FramesNumber
      /\ \A i \in Frames : (IsBlockHead(i) /\ level[i] < BUDDY_MAXLEVEL - 1)
            => i + BlockSize[level[i] + 1] > FramesNumber

Merged   == NoBuddies(FreeHeads, level)
Complete == Chained(FreeHeads, free_lists, level, next_frame)

\* Beyond consistency: nothing is missing from the blocks, the lists and the
\* blocks clients hold.
ZoneWhole == ~corrupted => Covered /\ OwnedKnown /\ Tail /\ Merged /\ Complete

IInv == TypeOK /\ TableConsistent /\ ZoneWhole

\* Everything the invariant says of a state before the first wild pointer
Facts == /\ ~corrupted /\ IInv
         /\ free_lists \in [Levels -> 0 .. FramesNumber]
         /\ flags \in [Frames -> {PAGE_FRAME_ALLOCATED, PAGE_FRAME_BLOCK_HEAD, AllocatedHead}]
         /\ level \in [Frames -> Levels]
         /\ next_frame \in [Frames -> 0 .. FramesNumber]
         /\ prev_frame \in [0 .. FramesNumber -> 0 .. FramesNumber]
         /\ page_index \in 0 .. FramesNumber
         /\ cur \in Levels /\ want \in Levels
         /\ owned \subseteq Frames \X Levels
         /\ BlocksAligned /\ BlocksDisjoint /\ ZoneCarved
         /\ ListsLinked /\ OwnedAllocated
         /\ Covered /\ OwnedKnown /\ Tail /\ Merged /\ Complete

\* The invariant, unfolded
LEMMA FactsHold ==
  ASSUME IInv, ~corrupted
  PROVE  Facts
BY DEF Facts, IInv, TypeOK, TableConsistent, ZoneWhole

----------------------------------------------------------------------------
(* One lemma per action                                                    *)

\* The sizes of the blocks in the table
LEMMA TableSizes ==
  ASSUME Facts, NEW i \in Frames
  PROVE  /\ i \in Nat /\ level[i] \in Levels /\ BlockLevel(i) \in Levels
         /\ BlockSize[level[i]] \in Nat \ {0} /\ BlockSize[BlockLevel(i)] \in Nat \ {0}
<1>1. level[i] \in Levels /\ BlockLevel(i) \in Levels
  BY DEF Facts, BlockLevel
<1>2. i \in Nat
  BY Flags DEF Frames
<1> QED BY <1>1, <1>2, Sizes

\* Free blocks are aligned to their size.
LEMMA FreeAligned ==
  ASSUME Facts
  PROVE  \A i \in FreeHeads : i \in Nat /\ i % BlockSize[level[i]] = 0
<1> SUFFICES ASSUME NEW i \in FreeHeads
             PROVE  i \in Nat /\ i % BlockSize[level[i]] = 0
  OBVIOUS
<1>1. i \in Frames /\ IsBlockHead(i) /\ BlockLevel(i) = level[i]
  BY DEF FreeHeads, IsBlockHead, BlockLevel
<1> QED BY <1>1, TableSizes DEF Facts, BlocksAligned

\* The carving of the zone goes on with smaller blocks.
LEMMA InitShrinkStep ==
  ASSUME Facts, InitShrink
  PROVE  IInv'
<1> USE DEF Facts
<1>0. page_index \in Int /\ FramesNumber \in Int /\ BlockSize[cur] \in Int
  BY Flags, Sizes, SMTT(30)
<1>1. /\ pc = "init" /\ pc' = "init" /\ page_index < FramesNumber
      /\ page_index > FramesNumber - BlockSize[cur] /\ cur' = cur - 1
      /\ UNCHANGED <<free_lists, flags, level, next_frame, prev_frame, page_index,
                     want, ret, owned, corrupted>>
  BY <1>0, SMTT(30) DEF InitShrink, Fits, table
<1>2. cur > 0 /\ cur' \in Levels
  <2>1. cur # 0
    <3>1. SUFFICES ASSUME cur = 0 PROVE FALSE
      OBVIOUS
    <3>2. BlockSize[cur] = 1
      BY <3>1, Sizes
    <3>3. page_index \in Int /\ FramesNumber \in Int
      BY Flags
    <3> QED BY <1>1, <3>2, <3>3
  <2>2. cur > 0
    BY <2>1, ConstantsAssumption DEF Levels
  <2> QED BY <1>1, <2>2, Sizes
<1>3. TypeOK'
  BY <1>1, <1>2 DEF TypeOK, IInv
<1>4. page_index' % BlockSize[cur'] = 0
  BY <1>1, <1>2, RightHalf DEF ZoneCarved
<1>5. \A i \in Frames : BlockLevel(i)' = BlockLevel(i) /\ ~InFlight(i) /\ ~InFlight(i)'
  BY <1>1 DEF BlockLevel, InFlight
<1>6. BlocksAligned' /\ BlocksDisjoint'
  BY <1>1, <1>5 DEF BlocksAligned, BlocksDisjoint, IsBlockHead
<1>7. ZoneCarved'
  BY <1>1, <1>4 DEF ZoneCarved, IsBlockHead
<1>8. ListsLinked'
  BY <1>1, <1>5 DEF ListsLinked, FreeHeads
<1>9. OwnedAllocated'
  BY <1>1, <1>5 DEF OwnedAllocated, ZoneCarved
<1>10. FreeHeads' = FreeHeads
  BY <1>1, <1>5 DEF FreeHeads
<1>11. Covered' /\ OwnedKnown'
  BY <1>1, <1>5 DEF Covered, OwnedKnown, IsBlockHead, Block
<1>12. Tail'
  <2>1. cur' + 1 = cur
    BY <1>0, <1>1 DEF Levels
  <2>2. page_index' + BlockSize[cur' + 1] > FramesNumber
    <3> HIDE DEF Facts
    <3> QED BY <1>0, <1>1, <2>1
  <2> QED BY <1>1, <2>2 DEF Tail, IsBlockHead
<1>13. Merged' /\ Complete'
  BY <1>1, <1>10 DEF Merged, Complete
<1> QED BY <1>3, <1>6, <1>7, <1>8, <1>9, <1>11, <1>12, <1>13
        DEF IInv, TableConsistent, ZoneWhole

\* A new block lies above all others and is pushed on its list.
LEMMA InitBlockStep ==
  ASSUME Facts, InitBlock
  PROVE  IInv'
<1> USE DEF Facts
<1> PICK p \in 0 .. FramesNumber : p = page_index
  OBVIOUS
<1> PICK s \in Nat \ {0} : s = BlockSize[cur]
  BY Sizes
<1>1. /\ pc = "init" /\ pc' = "init" /\ page_index = p /\ p < FramesNumber
      /\ p <= FramesNumber - s
      /\ flags'      = [flags EXCEPT ![p] = PAGE_FRAME_BLOCK_HEAD]
      /\ level'      = [level EXCEPT ![p] = cur]
      /\ next_frame' = [next_frame EXCEPT ![p] = free_lists[cur]]
      /\ prev_frame' = [prev_frame EXCEPT ![free_lists[cur]] = p]
      /\ free_lists' = [free_lists EXCEPT ![cur] = p]
      /\ page_index' = p + s
      /\ UNCHANGED <<cur, want, ret, owned, corrupted>>
  BY DEF InitBlock, Fits
<1>2. p \in Frames /\ p + s \in 0 .. FramesNumber
  <2> HIDE DEF Facts
  <2>1. p < FramesNumber /\ p <= FramesNumber - s
    BY <1>1
  <2> QED BY <2>1, Flags DEF Frames
<1>3. TypeOK'
  BY <1>1, <1>2, Flags DEF TypeOK, IInv, Frames
<1>4. \A i \in Frames : ~InFlight(i) /\ ~InFlight(i)'
  BY <1>1 DEF InFlight
<1>5. /\ IsBlockHead(p)' /\ BlockLevel(p)' = cur
      /\ \A i \in Frames \ {p} : IsBlockHead(i)' <=> IsBlockHead(i)
      /\ \A i \in Frames \ {p} : BlockLevel(i)' = level[i]
      /\ \A i \in Frames : BlockLevel(i) = level[i]
  <2>1. IsBlockHead(p)' /\ \A i \in Frames \ {p} : IsBlockHead(i)' <=> IsBlockHead(i)
    BY <1>1, <1>2 DEF IsBlockHead
  <2>2. level'[p] = cur /\ \A i \in Frames \ {p} : level'[i] = level[i]
    BY <1>1, <1>2
  <2>3. \A i \in Frames : BlockLevel(i)' = level'[i] /\ BlockLevel(i) = level[i]
    BY <1>4 DEF BlockLevel
  <2> QED BY <2>1, <2>2, <2>3, <1>2
<1>6. \A i \in Frames : IsBlockHead(i) => i + BlockSize[level[i]] <= p /\ i < p
  <2>1. \A i \in Frames : IsBlockHead(i) => i + BlockSize[level[i]] <= p
    BY <1>1 DEF ZoneCarved
  <2>2. \A i \in Frames : i \in Nat /\ BlockSize[level[i]] \in Nat \ {0}
    BY TableSizes
  <2> QED BY <2>1, <2>2, <1>2
<1>7. BlocksAligned'
  <2>1. p % s = 0 /\ p + s <= FramesNumber
    <3>1. p % s = 0
      BY <1>1 DEF ZoneCarved
    <3> HIDE DEF Facts
    <3> QED BY <3>1, <1>2, Flags
  <2>2. \A i \in Frames : IsBlockHead(i)' =>
          /\ i % BlockSize[BlockLevel(i)'] = 0
          /\ i + BlockSize[BlockLevel(i)'] <= FramesNumber
    <3>1. \A i \in Frames \ {p} : IsBlockHead(i) =>
            /\ i % BlockSize[level[i]] = 0
            /\ i + BlockSize[level[i]] <= FramesNumber
      BY <1>5 DEF BlocksAligned
    <3> QED BY <2>1, <3>1, <1>5, ZenonT(30)
  <2> QED BY <2>2, <1>1 DEF BlocksAligned
<1>8. BlocksDisjoint'
  <2>1. SUFFICES ASSUME NEW i \in Frames, NEW j \in Frames,
                        IsBlockHead(i)', IsBlockHead(j)', i < j
                 PROVE  i + BlockSize[BlockLevel(i)'] <= j
    BY DEF BlocksDisjoint
  <2>2. i # p
    <3>1. SUFFICES ASSUME i = p PROVE FALSE
      OBVIOUS
    <3>2. IsBlockHead(j) /\ j > p
      BY <3>1, <2>1, <1>5, <1>2 DEF Frames
    <3> QED BY <3>2, <1>2, <1>6, Flags DEF Frames
  <2>3. CASE j = p
    BY <2>1, <2>2, <2>3, <1>5, <1>6
  <2>4. CASE j # p
    BY <2>1, <2>2, <2>4, <1>5 DEF BlocksDisjoint
  <2> QED BY <2>3, <2>4
<1>9. ZoneCarved'
  <2>1. page_index' % BlockSize[cur'] = 0
    BY <1>1, <1>2, StepAligned, SMTT(30) DEF ZoneCarved, Frames
  <2>2. \A i \in Frames : IsBlockHead(i)' => i + BlockSize[level'[i]] <= p + s
    <3>1. SUFFICES ASSUME NEW i \in Frames, IsBlockHead(i)'
                   PROVE  i + BlockSize[level'[i]] <= p + s
      OBVIOUS
    <3>2. CASE i = p
      <4>1. level'[i] = cur
        BY <3>2, <1>1, <1>2
      <4> QED BY <3>2, <4>1, <1>2
    <3>3. CASE i # p
      <4>1. i + BlockSize[level[i]] <= p /\ level'[i] = level[i]
        BY <3>1, <3>3, <1>1, <1>5, <1>6
      <4>2. i \in Nat /\ BlockSize[level[i]] \in Nat /\ p \in Nat
        BY TableSizes
      <4> QED BY <4>1, <4>2, <1>2, SMTT(30)
    <3> QED BY <3>2, <3>3
  <2> QED BY <2>1, <2>2, <1>1 DEF ZoneCarved
<1>10. ListsLinked' /\ Complete'
  <2>1. p \notin FreeHeads
    BY <1>2, <1>6, Flags DEF FreeHeads, IsBlockHead, Frames
  <2>2. FreeHeads' = FreeHeads \union {p}
    BY <1>1, <1>2, <1>4, Flags DEF FreeHeads
  <2>3. Linked(FreeHeads, free_lists, level, next_frame, prev_frame)
    BY LinkedIsListsLinked
  <2>4. \A i \in FreeHeads : i \in Frames /\ level[i] \in Levels /\ level'[i] = level[i]
    BY <2>1, <1>1 DEF FreeHeads
  <2>5. level'[p] = cur
    BY <1>1, <1>2
  <2>6. /\ free_lists[cur] # None => prev_frame'[free_lists[cur]] = p
        /\ \A i \in FreeHeads : i # free_lists[cur] => prev_frame'[i] = prev_frame[i]
    BY <1>1, Flags DEF FreeHeads, Frames
  <2>7. /\ Linked(FreeHeads', free_lists', level', next_frame', prev_frame')
        /\ Chained(FreeHeads', free_lists', level', next_frame')
    <3>1. /\ free_lists \in [Levels -> 0 .. FramesNumber] /\ cur \in Levels
          /\ next_frame \in [Frames -> 0 .. FramesNumber]
      OBVIOUS
    <3>2. /\ free_lists' = [free_lists EXCEPT ![cur] = p]
          /\ next_frame' = [next_frame EXCEPT ![p] = free_lists[cur]]
      BY <1>1
    <3> HIDE DEF Facts
    <3>3. IsPush(FreeHeads, free_lists, level, next_frame, prev_frame,
                 FreeHeads', free_lists', level', next_frame', prev_frame', p, cur)
      BY <2>1, <2>2, <2>3, <2>4, <2>5, <2>6, <3>1, <3>2, <1>2 DEF IsPush
    <3>4. Chained(FreeHeads', free_lists', level', next_frame')
      BY <3>3, ChainedPush DEF Facts, Complete
    <3> QED BY <3>3, <3>4, Push
  <2> QED BY <2>7, LinkedIsListsLinked DEF ListsLinked, Linked, FreeHeads, Complete
<1>11. OwnedAllocated'
  BY <1>1 DEF OwnedAllocated, ZoneCarved
<1>12. Covered'
  <2> SUFFICES ASSUME NEW f \in Frames, f < p + s
               PROVE  \E i \in Frames : IsBlockHead(i)' /\ f \in Block(i, BlockLevel(i)')
    BY <1>1 DEF Covered, Block
  <2>1. CASE f < p
    <3>1. PICK i \in Frames : IsBlockHead(i) /\ f \in Block(i, BlockLevel(i))
      BY <1>1, <2>1 DEF Covered
    <3>2. i # p
      BY <1>2, <1>6, <3>1, Flags DEF Frames
    <3> QED BY <1>5, <3>1, <3>2
  <2>2. CASE f >= p
    <3>1. f \in Block(p, cur)
      <4> HIDE DEF Facts
      <4>1. f \in Nat /\ p \in Nat
        BY Flags DEF Frames
      <4> QED BY <2>2, <4>1 DEF Block
    <3> QED BY <1>2, <1>5, <3>1
  <2> QED BY <1>2, <2>1, <2>2, Flags DEF Frames
<1>13. OwnedKnown'
  <2>1. \A i \in Frames : flags[i] # AllocatedHead
    BY <1>1, <1>4 DEF OwnedKnown, ZoneCarved
  <2> QED BY <1>1, <1>2, <2>1, Flags DEF OwnedKnown
<1>14. Tail'
  <2>1. cur < BUDDY_MAXLEVEL - 1 => /\ BlockSize[cur + 1] \in Nat
                                    /\ p + BlockSize[cur + 1] > FramesNumber
    BY <1>1, Sizes DEF Tail
  <2>2. cur < BUDDY_MAXLEVEL - 1 => page_index' + BlockSize[cur' + 1] > FramesNumber
    <3>1. page_index' = p + s /\ cur' = cur
      BY <1>1
    <3> HIDE DEF Facts
    <3> QED BY <2>1, <3>1, Flags
  <2>3. level'[p] = cur /\ \A i \in Frames \ {p} : level'[i] = level[i]
    BY <1>1, <1>2
  <2>4. \A i \in Frames : (IsBlockHead(i)' /\ level'[i] < BUDDY_MAXLEVEL - 1)
            => i + BlockSize[level'[i] + 1] > FramesNumber
    BY <1>1, <1>5, <2>1, <2>3 DEF Tail
  <2> QED BY <1>1, <2>2, <2>4 DEF Tail
<1>15. Merged'
  <2>1. \A i \in FreeHeads' : i \in Frames /\ IsBlockHead(i)'
    BY DEF FreeHeads, IsBlockHead
  <2>2. \A i \in Frames : BlockLevel(i)' = level'[i] /\ level'[i] \in Levels /\ i \in Nat
    <3>1. level' \in [Frames -> Levels]
      BY <1>1, <1>2
    <3> QED BY <1>4, <3>1, Flags, SMTT(30) DEF BlockLevel, Frames
  <2>3. \A i \in FreeHeads' : /\ i \in Nat /\ level'[i] \in Levels
                              /\ i % BlockSize[level'[i]] = 0
                              /\ i + BlockSize[level'[i]] <= FramesNumber
    BY <1>7, <2>1, <2>2 DEF BlocksAligned
  <2>4. \A i \in FreeHeads' : level'[i] < BUDDY_MAXLEVEL - 1
            => i + BlockSize[level'[i] + 1] > FramesNumber
    BY <1>1, <1>14, <2>1 DEF Tail
  <2>5. NoBuddies(FreeHeads', level')
    <3> HIDE DEF Facts
    <3> QED BY <2>3, <2>4, TailNoBuddies
  <2> QED BY <2>5 DEF Merged
<1> QED BY <1>3, <1>7, <1>8, <1>9, <1>10, <1>11, <1>12, <1>13, <1>14, <1>15
        DEF IInv, TableConsistent, ZoneWhole

\* The allocator is ready.
LEMMA InitDoneStep ==
  ASSUME Facts, InitDone
  PROVE  IInv'
<1> USE DEF Facts
<1>1. /\ pc = "init" /\ pc' = "idle" /\ page_index' = 0 /\ cur' = 0 /\ want' = 0
      /\ UNCHANGED <<free_lists, flags, level, next_frame, prev_frame,
                     ret, owned, corrupted>>
  BY DEF InitDone, Return, table
<1>2. 0 \in Frames /\ 0 \in Levels
  <2>1. 0 \in Levels /\ BUDDY_MAXLEVEL - 1 \in Levels
    BY ConstantsAssumption DEF Levels
  <2>2. BlockSize[BUDDY_MAXLEVEL - 1] \in Nat \ {0}
    BY <2>1, Sizes
  <2> QED BY <2>1, <2>2, ZoneAssumption, Flags DEF Frames
<1>3. TypeOK'
  <2>1. 0 \in 0 .. FramesNumber
    BY Flags
  <2> QED BY <1>1, <1>2, <2>1 DEF TypeOK, IInv
<1>4. \A i \in Frames : ~InFlight(i) /\ ~InFlight(i)'
  BY <1>1 DEF InFlight
<1>5. \A i \in Frames : IsBlockHead(i)' = IsBlockHead(i) /\ BlockLevel(i)' = BlockLevel(i)
  BY <1>1, <1>4 DEF IsBlockHead, BlockLevel
<1>6. BlocksAligned' /\ BlocksDisjoint' /\ ZoneCarved'
  BY <1>1, <1>5 DEF BlocksAligned, BlocksDisjoint, ZoneCarved
<1>7. ListsLinked'
  BY <1>1, <1>4 DEF ListsLinked, FreeHeads
<1>8. OwnedAllocated'
  BY <1>1 DEF OwnedAllocated, ZoneCarved
<1>9. FreeHeads' = FreeHeads
  BY <1>1, <1>4 DEF FreeHeads
<1>10. Covered'
  <2>1. \A f \in Frames : f < page_index
    <3>1. page_index >= FramesNumber /\ page_index \in Nat
      BY Flags DEF InitDone
    <3> HIDE DEF Facts
    <3> QED BY <3>1, Flags DEF Frames
  <2> QED BY <1>5, <2>1 DEF Covered, Block
<1>11. OwnedKnown' /\ Tail' /\ Merged' /\ Complete'
  BY <1>1, <1>4, <1>9 DEF OwnedKnown, Tail, Merged, Complete
<1> QED BY <1>3, <1>6, <1>7, <1>8, <1>10, <1>11 DEF IInv, TableConsistent, ZoneWhole

\* A call that fails or is refused touches nothing.
LEMMA RejectStep ==
  ASSUME Facts, ret' \in {"null", "rejected"},
         UNCHANGED <<free_lists, table, pc, page_index, cur, want, owned, corrupted>>
  PROVE  IInv'
<1>1. TypeOK'
  BY DEF Facts, TypeOK, IInv, table
<1>2. /\ BlocksAligned' /\ BlocksDisjoint' /\ ZoneCarved'
      /\ ListsLinked' /\ OwnedAllocated'
  BY DEF Facts, table, BlocksAligned, BlocksDisjoint, ZoneCarved, ListsLinked,
         OwnedAllocated, FreeHeads, InFlight, BlockLevel, IsBlockHead
<1>3. Covered' /\ OwnedKnown' /\ Tail' /\ Merged' /\ Complete'
  BY DEF Facts, table, Covered, OwnedKnown, Tail, Merged, Complete,
         FreeHeads, InFlight, BlockLevel, IsBlockHead, Block
<1> QED BY <1>1, <1>2, <1>3 DEF IInv, TableConsistent, ZoneWhole

\* The first block of a list becomes the block in flight.
LEMMA AllocBeginStep ==
  ASSUME Facts, NEW n \in 0 .. MaxRequest, AllocBegin(n)
  PROVE  IInv'
<1>1. PICK l \in Levels, m \in Levels : PopBlock(l, m)
  BY DEF AllocBegin
<1> PICK p \in 0 .. FramesNumber : p = free_lists[m]
  BY DEF Facts
<1>2. /\ pc = "idle" /\ pc' = "split" /\ page_index' = p /\ cur' = m /\ want' = l
      /\ l <= m /\ p # None
      /\ free_lists' = [free_lists EXCEPT ![m] = next_frame[p]]
      /\ UNCHANGED <<flags, level, next_frame, prev_frame, ret, owned, corrupted>>
  BY <1>1 DEF AllocBegin, PopBlock, IsFirstAvailable, table
<1>3. p \in Frames /\ p \in FreeHeads /\ level[p] = m
      /\ flags[p] = PAGE_FRAME_BLOCK_HEAD
  <2>1. p \in Frames
    BY <1>2, Flags DEF Frames
  <2>2. p \in FreeHeads /\ level[p] = m
    BY <1>2 DEF Facts, ListsLinked
  <2> QED BY <2>1, <2>2 DEF FreeHeads
<1>4. TypeOK'
  BY <1>2, <1>3 DEF Facts, TypeOK, IInv
<1>5. \A i \in Frames : ~InFlight(i) /\ (InFlight(i)' <=> i = p)
  BY <1>2 DEF InFlight
<1>6. \A i \in Frames : (IsBlockHead(i)' <=> IsBlockHead(i)) /\ BlockLevel(i)' = BlockLevel(i)
  BY <1>2, <1>3, <1>5 DEF IsBlockHead, BlockLevel
<1>7. BlocksAligned'
  <2>1. IsBlockHead(page_index)'
    BY <1>2, <1>3 DEF IsBlockHead
  <2> QED BY <1>2, <1>6, <2>1 DEF Facts, BlocksAligned
<1>8. BlocksDisjoint'
  BY <1>6 DEF Facts, BlocksDisjoint
<1>9. ZoneCarved'
  BY <1>2 DEF ZoneCarved
<1>10. ListsLinked' /\ Complete' /\ Merged'
  <2>1. FreeHeads' = FreeHeads \ {p}
    BY <1>2, <1>5 DEF FreeHeads
  <2>2. Linked(FreeHeads, free_lists, level, next_frame, prev_frame)
    BY LinkedIsListsLinked DEF Facts
  <2>3. \A i \in FreeHeads : level[i] \in Levels
    BY DEF Facts, FreeHeads
  <2>4. free_lists \in [Levels -> 0 .. FramesNumber] /\ next_frame \in [Frames -> 0 .. FramesNumber]
    BY DEF Facts
  <2>5. IsPop(FreeHeads, free_lists, level, next_frame, prev_frame,
              FreeHeads', free_lists', level', next_frame', prev_frame', p, m)
    BY <2>1, <2>2, <2>3, <2>4, <1>2, <1>3 DEF IsPop
  <2>6. Linked(FreeHeads', free_lists', level', next_frame', prev_frame')
    BY <2>5, Pop
  <2>7. Chained(FreeHeads', free_lists', level', next_frame')
    BY <2>5, ChainedPop DEF Facts, Complete
  <2>8. NoBuddies(FreeHeads', level')
    BY <2>1, <1>2 DEF Facts, Merged, NoBuddies
  <2>9. Complete' /\ Merged'
    BY <2>7, <2>8 DEF Complete, Merged
  <2> QED BY <2>6, <2>9, LinkedIsListsLinked DEF ListsLinked, Linked, FreeHeads
<1>11. OwnedAllocated'
  <2>1. SUFFICES ASSUME NEW b \in owned
                 PROVE  flags[b[1]] = AllocatedHead /\ level[b[1]] = b[2] /\ ~InFlight(b[1])'
    BY <1>2 DEF OwnedAllocated
  <2>2. flags[b[1]] = AllocatedHead /\ level[b[1]] = b[2]
    BY DEF Facts, OwnedAllocated
  <2>3. b[1] # p
    BY <2>2, <1>3, Flags
  <2> QED BY <2>2, <2>3, <1>2 DEF InFlight
<1>12. Covered' /\ OwnedKnown' /\ Tail'
  BY <1>2, <1>5, <1>6 DEF Facts, Covered, OwnedKnown, Tail, Block
<1> QED BY <1>4, <1>7, <1>8, <1>9, <1>10, <1>11, <1>12
        DEF IInv, TableConsistent, ZoneWhole

\* The upper half of the block in flight becomes a free block of its own.
LEMMA SplitStep ==
  ASSUME Facts, Split
  PROVE  IInv'
<1> PICK p \in 0 .. FramesNumber : p = page_index
  BY DEF Facts
<1>1. p \in Nat /\ cur > 0 /\ pc = "split" /\ pc' = "split"
  BY Flags DEF Facts, Split, Levels
<1> PICK l \in Levels : l = cur - 1 /\ BlockSize[cur] = 2 * BlockSize[l]
  BY <1>1, Sizes DEF Facts
<1> PICK s \in Nat \ {0} : s = BlockSize[l]
  BY Sizes
<1>2. p \in Frames /\ IsBlockHead(p) /\ BlockLevel(p) = cur /\ InFlight(p)
  <2>1. p \in Frames
    BY <1>1 DEF Facts, IInv, TypeOK
  <2> QED BY <1>1, <2>1 DEF Facts, BlocksAligned, BlockLevel, InFlight
<1>3. p % BlockSize[cur] = 0 /\ p + 2 * s <= FramesNumber
  BY <1>2 DEF Facts, BlocksAligned
<1>4. Buddy(p, l) = p + s /\ p % s = 0 /\ (p + s) % s = 0
  BY <1>1, <1>3, RightHalf DEF Facts
<1> PICK r \in Frames : r = p + s
  BY <1>1, <1>3, Flags DEF Frames
<1>5. /\ level'      = [level EXCEPT ![r] = l]
      /\ prev_frame' = [prev_frame EXCEPT ![free_lists[l]] = r]
      /\ next_frame' = [next_frame EXCEPT ![r] = free_lists[l]]
      /\ flags'      = [flags EXCEPT ![r] = PAGE_FRAME_BLOCK_HEAD]
      /\ free_lists' = [free_lists EXCEPT ![l] = r]
      /\ cur' = l /\ page_index' = p /\ cur > want
      /\ UNCHANGED <<want, ret, owned, corrupted>>
  BY <1>4 DEF Split
<1>6. p # r /\ p < r
  BY <1>1
<1>7. r \in 0 .. FramesNumber
  BY Flags DEF Frames
<1>8. TypeOK'
  BY <1>1, <1>2, <1>5, <1>7 DEF Facts, TypeOK, IInv
<1>9. \A i \in Frames : (InFlight(i) <=> i = p) /\ (InFlight(i)' <=> i = p)
  BY <1>1, <1>5 DEF InFlight
<1>10. ~IsBlockHead(r)
  <2>1. SUFFICES ASSUME IsBlockHead(r) PROVE FALSE
    OBVIOUS
  <2>2. p + BlockSize[cur] <= r
    BY <2>1, <1>2, <1>6 DEF Facts, BlocksDisjoint
  <2> QED BY <2>2, <1>1
<1>11. /\ IsBlockHead(r)' /\ \A i \in Frames \ {r} : IsBlockHead(i)' <=> IsBlockHead(i)
  BY <1>5 DEF Facts, IsBlockHead
<1>12. /\ BlockLevel(r)' = l /\ BlockLevel(p)' = l
       /\ \A i \in Frames \ {p, r} : BlockLevel(i)' = BlockLevel(i)
  <2>1. level'[r] = l /\ \A i \in Frames \ {r} : level'[i] = level[i]
    BY <1>5 DEF Facts
  <2> QED BY <2>1, <1>2, <1>5, <1>6, <1>9 DEF BlockLevel
<1>13. BlocksAligned'
  <2>1. /\ p % BlockSize[l] = 0 /\ p + BlockSize[l] <= FramesNumber
        /\ r % BlockSize[l] = 0 /\ r + BlockSize[l] <= FramesNumber
    BY <1>1, <1>3, <1>4, Flags
  <2>2. \A i \in Frames : IsBlockHead(i)' =>
          /\ i % BlockSize[BlockLevel(i)'] = 0
          /\ i + BlockSize[BlockLevel(i)'] <= FramesNumber
    <3>1. \A i \in Frames \ {p, r} : IsBlockHead(i) =>
            /\ i % BlockSize[BlockLevel(i)] = 0
            /\ i + BlockSize[BlockLevel(i)] <= FramesNumber
      BY DEF Facts, BlocksAligned
    <3> QED BY <2>1, <3>1, <1>11, <1>12
  <2>3. IsBlockHead(page_index)'
    BY <1>2, <1>5, <1>6 DEF Facts, IsBlockHead
  <2>4. want' <= cur'
    BY <1>5 DEF Facts, Levels
  <2> QED BY <2>2, <2>3, <2>4 DEF BlocksAligned
<1>14. BlocksDisjoint'
  <2>1. SUFFICES ASSUME NEW i \in Frames, NEW j \in Frames,
                        IsBlockHead(i)', IsBlockHead(j)', i < j
                 PROVE  i + BlockSize[BlockLevel(i)'] <= j
    BY DEF BlocksDisjoint
  <2>2. i \in Nat /\ j \in Nat
    BY Flags DEF Frames
  <2>3. CASE i = p
    <3>1. CASE j = r
      BY <2>3, <3>1, <1>12
    <3>2. CASE j # r
      <4>1. p + 2 * s <= j
        BY <2>1, <2>3, <3>2, <1>2, <1>11 DEF Facts, BlocksDisjoint
      <4> QED BY <2>2, <2>3, <4>1, <1>12
    <3> QED BY <3>1, <3>2
  <2>4. CASE i = r
    <3>1. j # r /\ p < j
      BY <2>1, <2>2, <2>4, <1>1, <1>6
    <3>2. p + 2 * s <= j
      BY <2>1, <3>1, <1>2, <1>11 DEF Facts, BlocksDisjoint
    <3> QED BY <2>2, <2>4, <3>2, <1>1, <1>12
  <2>5. CASE i # p /\ i # r
    <3>1. IsBlockHead(i) /\ BlockLevel(i)' = BlockLevel(i) /\ BlockSize[BlockLevel(i)] \in Nat
      BY <2>1, <2>5, <1>11, <1>12, TableSizes
    <3>2. CASE j # r
      BY <2>1, <3>1, <3>2, <1>11 DEF Facts, BlocksDisjoint
    <3>3. CASE j = r
      <4>1. i < p
        <5>1. SUFFICES ASSUME i > p PROVE FALSE
          BY <2>2, <2>5, <1>1
        <5>2. p + 2 * s <= i
          BY <3>1, <5>1, <1>2 DEF Facts, BlocksDisjoint
        <5> QED BY <2>1, <2>2, <3>3, <5>2, <1>1
      <4>2. i + BlockSize[BlockLevel(i)] <= p
        BY <3>1, <4>1, <1>2 DEF Facts, BlocksDisjoint
      <4> QED BY <2>2, <3>1, <3>3, <4>2, <1>1
    <3> QED BY <3>2, <3>3
  <2> QED BY <2>3, <2>4, <2>5
<1>15. ZoneCarved'
  BY <1>1 DEF ZoneCarved
<1>16. ListsLinked' /\ Complete' /\ Merged'
  <2>1. r \notin FreeHeads /\ FreeHeads' = FreeHeads \union {r}
    <3>1. r \notin FreeHeads
      BY <1>10 DEF FreeHeads, IsBlockHead
    <3> QED BY <3>1, <1>5, <1>6, <1>9 DEF Facts, FreeHeads
  <2>2. Linked(FreeHeads, free_lists, level, next_frame, prev_frame)
    BY LinkedIsListsLinked DEF Facts
  <2>3. \A i \in FreeHeads : level[i] \in Levels /\ level'[i] = level[i]
    BY <2>1, <1>5 DEF Facts, FreeHeads
  <2>4. free_lists \in [Levels -> 0 .. FramesNumber] /\ next_frame \in [Frames -> 0 .. FramesNumber]
    BY DEF Facts
  <2>5. level'[r] = l
    BY <1>5 DEF Facts
  <2>6. /\ free_lists[l] # None => prev_frame'[free_lists[l]] = r
        /\ \A i \in FreeHeads : i # free_lists[l] => prev_frame'[i] = prev_frame[i]
    BY <1>5, Flags DEF Facts, FreeHeads, Frames
  <2>7. IsPush(FreeHeads, free_lists, level, next_frame, prev_frame,
               FreeHeads', free_lists', level', next_frame', prev_frame', r, l)
    BY <2>1, <2>2, <2>3, <2>4, <2>5, <2>6, <1>5 DEF IsPush
  <2>8. Linked(FreeHeads', free_lists', level', next_frame', prev_frame')
    BY <2>7, Push
  <2>9. Chained(FreeHeads', free_lists', level', next_frame')
    BY <2>7, ChainedPush DEF Facts, Complete
  <2>10. NoBuddies(FreeHeads', level')
    <3>1. l < BUDDY_MAXLEVEL - 1
      BY <1>1, ConstantsAssumption DEF Facts, Levels
    <3>2. Buddy(r, l) = p /\ p \notin FreeHeads
      BY <1>1, <1>2, <1>4, <3>1, BuddyBack DEF FreeHeads
    <3>3. NoBuddies(FreeHeads, level) /\ r \in Nat /\ r % BlockSize[l] = 0
      BY <1>1, <1>4, SMTT(30) DEF Facts, Merged
    <3>4. \A i \in FreeHeads : i \in Nat /\ i % BlockSize[level[i]] = 0
      BY FreeAligned
    <3> QED BY <2>1, <2>3, <2>5, <3>2, <3>3, <3>4, BuddiesPush
  <2>11. Complete' /\ Merged'
    BY <2>9, <2>10 DEF Complete, Merged
  <2> QED BY <2>8, <2>11, LinkedIsListsLinked DEF ListsLinked, Linked, FreeHeads
<1>17. OwnedAllocated'
  <2>1. SUFFICES ASSUME NEW b \in owned
                 PROVE  flags'[b[1]] = AllocatedHead /\ level'[b[1]] = b[2] /\ ~InFlight(b[1])'
    BY <1>5 DEF OwnedAllocated
  <2>2. b[1] \in Frames /\ flags[b[1]] = AllocatedHead /\ level[b[1]] = b[2] /\ ~InFlight(b[1])
    BY DEF Facts, OwnedAllocated
  <2>3. b[1] # r
    BY <2>2, <1>10 DEF IsBlockHead
  <2> QED BY <2>2, <2>3, <1>5, <1>9 DEF Facts
<1>18. Covered'
  <2> SUFFICES ASSUME NEW f \in Frames
               PROVE  \E i \in Frames : IsBlockHead(i)' /\ f \in Block(i, BlockLevel(i)')
    BY DEF Covered, Block
  <2>1. PICK i \in Frames : IsBlockHead(i) /\ f \in Block(i, BlockLevel(i))
    BY <1>1 DEF Facts, Covered
  <2>2. i # r
    BY <1>10, <2>1
  <2>3. CASE i # p
    BY <1>11, <1>12, <2>1, <2>2, <2>3
  <2>4. CASE i = p
    <3>1. f \in p .. p + 2 * s - 1
      BY <1>2, <2>1, <2>4 DEF Block
    <3>2. f \in Block(p, l) \/ f \in Block(r, l)
      BY <1>1, <3>1 DEF Block
    <3>3. IsBlockHead(p)'
      BY <1>2, <1>6, <1>11
    <3> QED BY <1>2, <1>11, <1>12, <3>2, <3>3
  <2> QED BY <2>3, <2>4
<1>19. OwnedKnown'
  <2>1. level'[r] = l /\ \A i \in Frames \ {r} : level'[i] = level[i]
    BY <1>5 DEF Facts
  <2>2. flags'[r] = PAGE_FRAME_BLOCK_HEAD /\ \A i \in Frames \ {r} : flags'[i] = flags[i]
    BY <1>5 DEF Facts
  <2> QED BY <1>5, <1>9, <2>1, <2>2, Flags DEF Facts, OwnedKnown
<1>20. Tail'
  BY <1>1 DEF Tail
<1> QED BY <1>8, <1>13, <1>14, <1>15, <1>16, <1>17, <1>18, <1>19, <1>20
        DEF IInv, TableConsistent, ZoneWhole

\* The block in flight goes to the client.
LEMMA AllocEndStep ==
  ASSUME Facts, AllocEnd
  PROVE  IInv'
<1> PICK p \in 0 .. FramesNumber : p = page_index
  BY DEF Facts
<1>1. /\ pc = "split" /\ cur = want /\ pc' = "idle" /\ page_index' = 0
      /\ cur' = 0 /\ want' = 0 /\ ret' = "page"
      /\ flags'      = [flags EXCEPT ![p] = AllocatedHead]
      /\ level'      = [level EXCEPT ![p] = want]
      /\ prev_frame' = [prev_frame EXCEPT ![p] = None]
      /\ next_frame' = [next_frame EXCEPT ![p] = None]
      /\ owned' = owned \union {<<p, want>>}
      /\ UNCHANGED <<free_lists, corrupted>>
  BY DEF AllocEnd, Return
<1>2. p \in Frames /\ IsBlockHead(p) /\ BlockLevel(p) = cur /\ InFlight(p)
  <2>1. p \in Frames
    BY <1>1 DEF Facts, IInv, TypeOK
  <2> QED BY <1>1, <2>1 DEF Facts, BlocksAligned, BlockLevel, InFlight
<1>3. TypeOK'
  <2>1. 0 \in Levels /\ 0 \in 0 .. FramesNumber /\ 0 \in Frames /\ None \in 0 .. FramesNumber
    BY <1>2, Flags, ConstantsAssumption DEF Frames, Levels
  <2>2. owned' \subseteq Frames \X Levels
    BY <1>1, <1>2 DEF Facts
  <2> QED BY <1>1, <2>1, <2>2 DEF Facts, TypeOK, IInv
<1>4. \A i \in Frames : (InFlight(i) <=> i = p) /\ ~InFlight(i)'
  BY <1>1 DEF InFlight
<1>5. \A i \in Frames : IsBlockHead(i)' <=> IsBlockHead(i)
  BY <1>1, <1>2 DEF Facts, IsBlockHead
<1>6. \A i \in Frames : BlockLevel(i)' = BlockLevel(i)
  BY <1>1, <1>2, <1>4 DEF Facts, BlockLevel
<1>7. BlocksAligned' /\ BlocksDisjoint' /\ ZoneCarved'
  BY <1>1, <1>5, <1>6 DEF Facts, BlocksAligned, BlocksDisjoint, ZoneCarved
<1>8. ListsLinked' /\ Complete' /\ Merged'
  <2>1. p \notin FreeHeads /\ FreeHeads' = FreeHeads /\ FreeHeads \subseteq Frames
    <3>1. p \notin FreeHeads /\ FreeHeads \subseteq Frames
      BY <1>2 DEF FreeHeads
    <3>2. flags'[p] # PAGE_FRAME_BLOCK_HEAD
      BY <1>1, <1>2, Flags DEF Facts
    <3>3. \A i \in Frames \ {p} : flags'[i] = flags[i]
      BY <1>1 DEF Facts
    <3> QED BY <1>4, <3>1, <3>2, <3>3 DEF FreeHeads
  <2>2. \A i \in FreeHeads : /\ level'[i] = level[i] /\ next_frame'[i] = next_frame[i]
                             /\ prev_frame'[i] = prev_frame[i]
    <3>1. \A i \in FreeHeads : i \in 0 .. FramesNumber /\ i # p
      BY <2>1, Flags DEF Frames
    <3> QED BY <1>1, <2>1, <3>1 DEF Facts
  <2>3. free_lists' = free_lists
    BY <1>1
  <2>4. \A l \in Levels : free_lists'[l] # None =>
           free_lists'[l] \in FreeHeads' /\ level'[free_lists'[l]] = l
    BY <2>1, <2>2, <2>3 DEF Facts, ListsLinked
  <2>5. \A i \in FreeHeads' : next_frame'[i] # None =>
           /\ next_frame'[i] \in FreeHeads' /\ level'[next_frame'[i]] = level'[i]
           /\ prev_frame'[next_frame'[i]] = i
           /\ next_frame'[i] # free_lists'[level'[i]]
    BY <2>1, <2>2, <2>3 DEF Facts, ListsLinked
  <2>6. \A i \in FreeHeads' : free_lists'[level'[i]] # i =>
           /\ prev_frame'[i] \in FreeHeads' /\ level'[prev_frame'[i]] = level'[i]
           /\ next_frame'[prev_frame'[i]] = i
    BY <2>1, <2>2, <2>3 DEF Facts, ListsLinked
  <2>7. Chained(FreeHeads', free_lists', level', next_frame')
    <3> SUFFICES ASSUME NEW k \in Levels
                 PROVE  IsChain(free_lists[k], next_frame', {i \in FreeHeads : level'[i] = k})
      BY <2>1, <2>3 DEF Chained
    <3> DEFINE S == {i \in FreeHeads : level[i] = k}
    <3>1. {i \in FreeHeads : level'[i] = k} = S /\ \A x \in S : next_frame'[x] = next_frame[x]
      BY <2>2
    <3>2. IsChain(free_lists[k], next_frame, S)
      BY DEF Facts, Complete, Chained
    <3> HIDE DEF S
    <3> QED BY <3>1, <3>2, ChainFrame
  <2>8. NoBuddies(FreeHeads', level')
    BY <2>1, <2>2 DEF Facts, Merged, NoBuddies
  <2>9. Complete' /\ Merged'
    BY <2>7, <2>8 DEF Complete, Merged
  <2> QED BY <2>4, <2>5, <2>6, <2>9 DEF ListsLinked
<1>9. OwnedAllocated'
  <2>1. SUFFICES ASSUME NEW b \in owned'
                 PROVE  flags'[b[1]] = AllocatedHead /\ level'[b[1]] = b[2] /\ ~InFlight(b[1])'
    BY DEF OwnedAllocated
  <2>2. CASE b = <<p, want>>
    BY <2>2, <1>1, <1>2, <1>4 DEF Facts
  <2>3. CASE b \in owned
    <3>1. b[1] \in Frames /\ flags[b[1]] = AllocatedHead /\ level[b[1]] = b[2] /\ ~InFlight(b[1])
      BY <2>3 DEF Facts, OwnedAllocated
    <3>2. b[1] # p
      BY <3>1, <1>2
    <3> QED BY <3>1, <3>2, <1>1, <1>4 DEF Facts
  <2> QED BY <2>1, <2>2, <2>3, <1>1
<1>10. Covered' /\ Tail'
  BY <1>1, <1>5, <1>6 DEF Facts, Covered, Tail, Block
<1>11. OwnedKnown'
  <2>1. /\ level'[p] = want /\ \A i \in Frames \ {p} : level'[i] = level[i]
        /\ \A i \in Frames \ {p} : flags'[i] = flags[i]
    BY <1>1, <1>2 DEF Facts
  <2> SUFFICES ASSUME NEW i \in Frames, flags'[i] = AllocatedHead
               PROVE  <<i, level'[i]>> \in owned'
    BY DEF OwnedKnown
  <2>2. CASE i = p
    BY <1>1, <2>1, <2>2
  <2>3. CASE i # p
    <3>1. <<i, level[i]>> \in owned
      BY <1>4, <2>1, <2>3 DEF Facts, OwnedKnown
    <3> QED BY <1>1, <2>1, <2>3, <3>1
  <2> QED BY <2>2, <2>3
<1> QED BY <1>3, <1>7, <1>8, <1>9, <1>10, <1>11 DEF IInv, TableConsistent, ZoneWhole

\* A client's block becomes the block in flight.
LEMMA FreeBeginStep ==
  ASSUME Facts, NEW b \in owned, FreeBegin(b)
  PROVE  IInv'
<1> PICK p \in Frames : p = b[1]
  BY DEF Facts
<1>1. /\ pc = "idle" /\ pc' = "merge" /\ page_index' = p /\ cur' = level[p]
      /\ owned' = owned \ {b}
      /\ UNCHANGED <<free_lists, flags, level, next_frame, prev_frame, want, ret, corrupted>>
  BY DEF FreeBegin, table
<1>2. flags[p] = AllocatedHead /\ level[p] = b[2] /\ IsBlockHead(p)
  BY DEF Facts, OwnedAllocated, IsBlockHead
<1>3. TypeOK'
  <2>1. p \in 0 .. FramesNumber
    BY Flags DEF Frames
  <2> QED BY <1>1, <2>1 DEF Facts, TypeOK, IInv
<1>4. \A i \in Frames : ~InFlight(i) /\ (InFlight(i)' <=> i = p)
  BY <1>1 DEF InFlight
<1>5. \A i \in Frames : (IsBlockHead(i)' <=> IsBlockHead(i)) /\ BlockLevel(i)' = BlockLevel(i)
  BY <1>1, <1>4 DEF IsBlockHead, BlockLevel
<1>6. BlocksAligned' /\ BlocksDisjoint' /\ ZoneCarved'
  <2>1. IsBlockHead(page_index)'
    BY <1>1, <1>2 DEF IsBlockHead
  <2> QED BY <1>1, <1>5, <2>1 DEF Facts, BlocksAligned, BlocksDisjoint, ZoneCarved
<1>7. ListsLinked' /\ Complete' /\ Merged'
  <2>1. FreeHeads' = FreeHeads
    BY <1>1, <1>2, <1>4, Flags DEF FreeHeads
  <2>2. Complete' /\ Merged'
    BY <1>1, <2>1 DEF Facts, Complete, Merged
  <2> QED BY <1>1, <2>1, <2>2 DEF Facts, ListsLinked
<1>8. OwnedAllocated'
  <2>1. SUFFICES ASSUME NEW c \in owned \ {b}
                 PROVE  flags[c[1]] = AllocatedHead /\ level[c[1]] = c[2] /\ ~InFlight(c[1])'
    BY <1>1 DEF OwnedAllocated
  <2>2. c[1] \in Frames /\ flags[c[1]] = AllocatedHead /\ level[c[1]] = c[2]
    BY DEF Facts, OwnedAllocated
  <2>3. c[1] # p
    BY <2>2, <1>2 DEF Facts
  <2> QED BY <2>2, <2>3, <1>4
<1>9. Covered' /\ Tail'
  BY <1>1, <1>5 DEF Facts, Covered, Tail, Block
<1>10. OwnedKnown'
  <2> SUFFICES ASSUME NEW i \in Frames, flags[i] = AllocatedHead, ~InFlight(i)'
               PROVE  <<i, level[i]>> \in owned \ {b}
    BY <1>1 DEF OwnedKnown
  <2>1. i # p /\ <<i, level[i]>> \in owned
    BY <1>4 DEF Facts, OwnedKnown
  <2>2. <<i, level[i]>>[1] = i
    OBVIOUS
  <2> QED BY <2>1, <2>2
<1> QED BY <1>3, <1>6, <1>7, <1>8, <1>9, <1>10 DEF IInv, TableConsistent, ZoneWhole

\* The block in flight is pushed on its list.
LEMMA FreeEndStep ==
  ASSUME Facts, FreeEnd
  PROVE  IInv'
<1> PICK p \in 0 .. FramesNumber : p = page_index
  BY DEF Facts
<1> PICK head \in 0 .. FramesNumber : head = free_lists[cur]
  BY DEF Facts
<1>1. /\ pc = "merge" /\ pc' = "idle" /\ page_index' = 0 /\ cur' = 0 /\ want' = 0
      /\ ret' = "freed"
      /\ flags'      = [flags EXCEPT ![p] = PAGE_FRAME_BLOCK_HEAD]
      /\ level'      = [level EXCEPT ![p] = cur]
      /\ next_frame' = [next_frame EXCEPT ![p] = head]
      /\ prev_frame' = [(IF head < FramesNumber
                            THEN [prev_frame EXCEPT ![head] = p]
                            ELSE prev_frame) EXCEPT ![p] = None]
      /\ free_lists' = [free_lists EXCEPT ![cur] = p]
      /\ UNCHANGED <<owned, corrupted>>
  BY DEF FreeEnd, LinkBack, Link, Return
<1>2. p \in Frames /\ IsBlockHead(p) /\ BlockLevel(p) = cur /\ InFlight(p)
  <2>1. p \in Frames
    BY <1>1 DEF Facts, IInv, TypeOK
  <2> QED BY <1>1, <2>1 DEF Facts, BlocksAligned, BlockLevel, InFlight
<1>3. prev_frame' \in [0 .. FramesNumber -> 0 .. FramesNumber]
  <2>1. None \in 0 .. FramesNumber
    BY Flags
  <2> QED BY <1>1, <2>1 DEF Facts
<1>4. TypeOK'
  <2>1. 0 \in Levels /\ 0 \in 0 .. FramesNumber /\ 0 \in Frames
    BY <1>2, Flags, ConstantsAssumption DEF Frames, Levels
  <2> QED BY <1>1, <1>3, <2>1 DEF Facts, TypeOK, IInv
<1>5. \A i \in Frames : (InFlight(i) <=> i = p) /\ ~InFlight(i)'
  BY <1>1 DEF InFlight
<1>6. \A i \in Frames : IsBlockHead(i)' <=> IsBlockHead(i)
  BY <1>1, <1>2 DEF Facts, IsBlockHead
<1>7. \A i \in Frames : BlockLevel(i)' = BlockLevel(i)
  BY <1>1, <1>2, <1>5 DEF Facts, BlockLevel
<1>8. BlocksAligned' /\ BlocksDisjoint' /\ ZoneCarved'
  BY <1>1, <1>6, <1>7 DEF Facts, BlocksAligned, BlocksDisjoint, ZoneCarved
<1>9. ListsLinked' /\ Complete' /\ Merged'
  <2>1. p \notin FreeHeads /\ FreeHeads' = FreeHeads \union {p}
    BY <1>1, <1>2, <1>5 DEF Facts, FreeHeads
  <2>2. Linked(FreeHeads, free_lists, level, next_frame, prev_frame)
    BY LinkedIsListsLinked DEF Facts
  <2>3. \A i \in FreeHeads : level[i] \in Levels /\ level'[i] = level[i]
    BY <2>1, <1>1 DEF Facts, FreeHeads
  <2>4. /\ free_lists \in [Levels -> 0 .. FramesNumber] /\ cur \in Levels
        /\ next_frame \in [Frames -> 0 .. FramesNumber]
    BY DEF Facts
  <2>5. level'[p] = cur
    BY <1>1, <1>2 DEF Facts
  <2>6. head # None => head < FramesNumber /\ head # p
    <3>1. head # None => head \in FreeHeads
      BY <2>4 DEF Facts, ListsLinked
    <3> QED BY <3>1, <2>1, Flags
  <2>7. head # None => prev_frame'[head] = p
    BY <2>6, <1>1 DEF Facts
  <2>8. \A i \in FreeHeads : i # head => prev_frame'[i] = prev_frame[i]
    <3>1. \A i \in FreeHeads : i \in 0 .. FramesNumber /\ i # p
      BY <2>1, Flags DEF FreeHeads, Frames
    <3> QED BY <3>1, <1>1 DEF Facts
  <2>9. IsPush(FreeHeads, free_lists, level, next_frame, prev_frame,
               FreeHeads', free_lists', level', next_frame', prev_frame', p, cur)
    BY <2>1, <2>2, <2>3, <2>4, <2>5, <2>7, <2>8, <1>1, <1>2 DEF IsPush
  <2>10. Linked(FreeHeads', free_lists', level', next_frame', prev_frame')
    BY <2>9, Push
  <2>11. Chained(FreeHeads', free_lists', level', next_frame')
    BY <2>9, ChainedPush DEF Facts, Complete
  <2>12. NoBuddies(FreeHeads', level')
    <3>1. cur < BUDDY_MAXLEVEL - 1 =>
             ~(Buddy(p, cur) \in FreeHeads /\ level[Buddy(p, cur)] = cur)
      BY DEF FreeEnd, BuddyIsFree, FreeHeads
    <3>2. NoBuddies(FreeHeads, level) /\ p \in Nat /\ p % BlockSize[cur] = 0
      BY <1>2, TableSizes DEF Facts, Merged, BlocksAligned
    <3>3. \A i \in FreeHeads : i \in Nat /\ i % BlockSize[level[i]] = 0
      BY FreeAligned
    <3>4. cur \in Levels /\ p \notin FreeHeads
      BY <2>1, <2>4
    <3>5. NoBuddies(FreeHeads \union {p}, level')
      BY <2>3, <2>5, <3>1, <3>2, <3>3, <3>4, BuddiesPush
    <3> QED BY <2>1, <3>5
  <2>13. Complete' /\ Merged'
    BY <2>11, <2>12 DEF Complete, Merged
  <2> QED BY <2>10, <2>13, LinkedIsListsLinked DEF ListsLinked, Linked, FreeHeads
<1>10. OwnedAllocated'
  <2>1. SUFFICES ASSUME NEW b \in owned
                 PROVE  flags'[b[1]] = AllocatedHead /\ level'[b[1]] = b[2] /\ ~InFlight(b[1])'
    BY <1>1 DEF OwnedAllocated
  <2>2. b[1] \in Frames /\ flags[b[1]] = AllocatedHead /\ level[b[1]] = b[2] /\ ~InFlight(b[1])
    BY DEF Facts, OwnedAllocated
  <2>3. b[1] # p
    BY <2>2, <1>2
  <2> QED BY <2>2, <2>3, <1>1, <1>5 DEF Facts
<1>11. Covered' /\ Tail'
  BY <1>1, <1>6, <1>7 DEF Facts, Covered, Tail, Block
<1>12. OwnedKnown'
  <2>1. /\ flags'[p] = PAGE_FRAME_BLOCK_HEAD
        /\ \A i \in Frames \ {p} : level'[i] = level[i] /\ flags'[i] = flags[i]
    BY <1>1, <1>2 DEF Facts
  <2> QED BY <1>1, <1>5, <2>1, Flags DEF Facts, OwnedKnown
<1> QED BY <1>4, <1>8, <1>9, <1>10, <1>11, <1>12 DEF IInv, TableConsistent, ZoneWhole

\* The buddy leaves its list and the two become one block in flight; this
\* is the step that needs the prev_frame of the buddy to be right.
LEMMA MergeStep ==
  ASSUME Facts, Merge, ~corrupted'
  PROVE  IInv'
<1> PICK p \in 0 .. FramesNumber : p = page_index
  BY DEF Facts
<1> PICK l \in Levels : l = cur
  BY DEF Facts
<1> PICK s \in Nat \ {0} : s = BlockSize[l]
  BY Sizes
<1>1. pc = "merge" /\ pc' = "merge" /\ l < BUDDY_MAXLEVEL - 1 /\ cur' = l + 1
  BY DEF Merge
<1>2. l + 1 \in Levels /\ BlockSize[l + 1] = 2 * s
  BY <1>1, Sizes
<1> PICK bud \in Frames : /\ bud = Buddy(p, l) /\ level[bud] = l
                          /\ flags[bud] = PAGE_FRAME_BLOCK_HEAD
  BY DEF Merge, BuddyIsFree
<1>3. p \in Frames /\ IsBlockHead(p) /\ BlockLevel(p) = l /\ InFlight(p)
  <2>1. p \in Frames
    BY <1>1 DEF Facts, IInv, TypeOK
  <2> QED BY <1>1, <2>1 DEF Facts, BlocksAligned, BlockLevel, InFlight
<1>4. p % s = 0 /\ p + s <= FramesNumber /\ p \in Nat /\ bud \in Nat
  <2>1. p % s = 0 /\ p + s <= FramesNumber
    BY <1>3 DEF Facts, BlocksAligned
  <2> QED BY <2>1, Flags DEF Frames
<1>5. \/ bud = p + s /\ p % (2 * s) = 0
      \/ bud = p - s /\ bud % (2 * s) = 0
  BY <1>1, <1>2, <1>4, Pair
<1>6. bud # p /\ bud \in FreeHeads /\ IsBlockHead(bud) /\ BlockLevel(bud) = l
  <2>1. bud # p
    BY <1>4, <1>5
  <2>2. ~InFlight(bud)
    BY <2>1 DEF InFlight
  <2> QED BY <2>1, <2>2 DEF FreeHeads, IsBlockHead, BlockLevel
<1>7. bud + s <= FramesNumber
  BY <1>6 DEF Facts, BlocksAligned
<1> PICK low \in Frames : low = IF p > bud THEN bud ELSE p
  BY <1>3
<1> PICK high \in Frames : high = IF p > bud THEN p ELSE bud
  BY <1>3
<1>8. /\ {low, high} = {p, bud} /\ high = low + s /\ low % (2 * s) = 0
      /\ low \in Nat /\ high \in Nat /\ high + s <= FramesNumber
  BY <1>4, <1>5, <1>7
<1> PICK prev \in 0 .. FramesNumber : prev = prev_frame[bud]
  BY Flags DEF Facts, Frames
<1> PICK next \in 0 .. FramesNumber : next = next_frame[bud]
  BY DEF Facts
<1>9. /\ IF prev = None
            THEN free_lists' = [free_lists EXCEPT ![l] = next] /\ next_frame' = next_frame
            ELSE next_frame' = [next_frame EXCEPT ![prev] = next] /\ free_lists' = free_lists
      /\ prev_frame' = IF next < FramesNumber
                          THEN [prev_frame EXCEPT ![next] = prev] ELSE prev_frame
      /\ flags' = [flags EXCEPT ![high] = PAGE_FRAME_ALLOCATED]
      /\ level' = [level EXCEPT ![high] = 0, ![low] = l + 1]
      /\ page_index' = low /\ UNCHANGED <<want, ret, owned>>
      /\ corrupted' = (corrupted \/ StaleHead(bud))
  BY DEF Merge
<1>10. TypeOK'
  <2>1. free_lists' \in [Levels -> 0 .. FramesNumber] /\ next_frame' \in [Frames -> 0 .. FramesNumber]
    BY <1>9 DEF Facts
  <2>2. prev_frame' \in [0 .. FramesNumber -> 0 .. FramesNumber]
    BY <1>9 DEF Facts
  <2>3. low \in 0 .. FramesNumber /\ 0 \in Levels
    BY Flags, ConstantsAssumption DEF Frames, Levels
  <2>4. level' \in [Frames -> Levels]
    BY <2>3, <1>2, <1>9 DEF Facts
  <2>5. flags' \in [Frames -> {PAGE_FRAME_ALLOCATED, PAGE_FRAME_BLOCK_HEAD, AllocatedHead}]
    BY <1>9 DEF Facts
  <2> QED BY <2>1, <2>2, <2>3, <2>4, <2>5, <1>1, <1>2, <1>9 DEF Facts, TypeOK, IInv
<1>11. \A i \in Frames : (InFlight(i) <=> i = p) /\ (InFlight(i)' <=> i = low)
  BY <1>1, <1>9 DEF InFlight
<1>12. ~IsBlockHead(high)' /\ \A i \in Frames \ {high} : IsBlockHead(i)' <=> IsBlockHead(i)
  <2>1. flags'[high] = PAGE_FRAME_ALLOCATED /\ \A i \in Frames \ {high} : flags'[i] = flags[i]
    BY <1>9 DEF Facts
  <2> QED BY <2>1, Flags DEF IsBlockHead
<1>13. BlockLevel(low)' = l + 1 /\ \A i \in Frames \ {low, high} : BlockLevel(i)' = BlockLevel(i)
  <2>1. \A i \in Frames \ {low, high} : level'[i] = level[i]
    BY <1>9 DEF Facts
  <2>2. \A i \in Frames \ {low, high} : ~InFlight(i) /\ ~InFlight(i)'
    BY <1>8, <1>11
  <2> QED BY <2>1, <2>2, <1>1, <1>11 DEF BlockLevel
<1>14. /\ IsBlockHead(low) /\ IsBlockHead(high)
       /\ BlockLevel(low) = l /\ BlockLevel(high) = l
  BY <1>3, <1>6, <1>8
<1>15. low # high /\ low < high
  BY <1>8
<1>16. BlocksAligned'
  <2>1. low % BlockSize[l + 1] = 0 /\ low + BlockSize[l + 1] <= FramesNumber
    BY <1>2, <1>8, Flags
  <2>2. \A i \in Frames \ {low, high} : IsBlockHead(i) =>
          /\ i % BlockSize[BlockLevel(i)] = 0
          /\ i + BlockSize[BlockLevel(i)] <= FramesNumber
    BY DEF Facts, BlocksAligned
  <2>3. \A i \in Frames : IsBlockHead(i)' =>
          /\ i % BlockSize[BlockLevel(i)'] = 0
          /\ i + BlockSize[BlockLevel(i)'] <= FramesNumber
    BY <2>1, <2>2, <1>12, <1>13
  <2>4. IsBlockHead(page_index)'
    <3>1. flags'[low] = flags[low]
      BY <1>9, <1>15 DEF Facts
    <3> QED BY <3>1, <1>9, <1>14 DEF IsBlockHead
  <2> QED BY <2>3, <2>4, <1>1 DEF BlocksAligned
<1>17. BlocksDisjoint'
  <2>1. SUFFICES ASSUME NEW i \in Frames, NEW j \in Frames,
                        IsBlockHead(i)', IsBlockHead(j)', i < j
                 PROVE  i + BlockSize[BlockLevel(i)'] <= j
    BY DEF BlocksDisjoint
  <2>2. i \in Nat /\ j \in Nat /\ i # high /\ j # high /\ IsBlockHead(i) /\ IsBlockHead(j)
    BY <2>1, <1>12, Flags DEF Frames
  <2>3. CASE i = low
    <3>1. low + s <= j
      BY <2>1, <2>2, <2>3, <1>14 DEF Facts, BlocksDisjoint
    <3>2. high < j
      <4>1. high = low + s
        BY <1>8
      <4> QED BY <2>2, <3>1, <4>1
    <3>3. high + s <= j
      BY <2>2, <3>2, <1>14 DEF Facts, BlocksDisjoint
    <3> QED BY <2>2, <2>3, <3>3, <1>2, <1>8, <1>13
  <2>4. CASE i # low
    BY <2>1, <2>2, <2>4, <1>13 DEF Facts, BlocksDisjoint
  <2> QED BY <2>3, <2>4
<1>18. ZoneCarved'
  BY <1>1 DEF ZoneCarved
<1>19. ListsLinked' /\ Complete' /\ Merged'
  <2>1. FreeHeads' = FreeHeads \ {bud}
    <3>1. p \notin FreeHeads
      BY <1>3 DEF FreeHeads
    <3>2. \A i \in Frames \ {p, bud} : flags'[i] = flags[i] /\ ~InFlight(i) /\ ~InFlight(i)'
      <4>1. \A i \in Frames \ {high} : flags'[i] = flags[i]
        BY <1>9 DEF Facts
      <4> QED BY <4>1, <1>8, <1>11
    <3>3. high \notin FreeHeads' /\ low \notin FreeHeads'
      BY <1>11, <1>12 DEF FreeHeads, IsBlockHead
    <3>4. p \notin FreeHeads' /\ bud \notin FreeHeads'
      BY <3>3, <1>8
    <3>5. FreeHeads \subseteq Frames /\ FreeHeads' \subseteq Frames
      BY DEF FreeHeads
    <3>6. \A i \in Frames \ {p, bud} : i \in FreeHeads' <=> i \in FreeHeads
      BY <3>2 DEF FreeHeads
    <3> QED BY <3>1, <3>4, <3>5, <3>6
  <2>2. Linked(FreeHeads, free_lists, level, next_frame, prev_frame)
    BY LinkedIsListsLinked DEF Facts
  <2>3. \A i \in FreeHeads : level[i] \in Levels /\ (i # bud => level'[i] = level[i])
    <3>1. p \notin FreeHeads
      BY <1>3 DEF FreeHeads
    <3> QED BY <3>1, <1>8, <1>9 DEF Facts, FreeHeads
  <2>4. /\ free_lists \in [Levels -> 0 .. FramesNumber]
        /\ next_frame \in [Frames -> 0 .. FramesNumber]
        /\ prev_frame \in [0 .. FramesNumber -> 0 .. FramesNumber]
    BY DEF Facts
  <2>5. \A i \in FreeHeads : i # next => prev_frame'[i] = prev_frame[i]
    <3>1. \A i \in FreeHeads : i \in 0 .. FramesNumber
      BY Flags DEF FreeHeads, Frames
    <3>2. prev_frame' = IF next < FramesNumber
                           THEN [prev_frame EXCEPT ![next] = prev] ELSE prev_frame
      BY <1>9
    <3> QED BY <3>1, <3>2, <2>4
  <2>6. next # None => prev_frame'[next] = prev
    <3>1. next # None => next < FramesNumber
      BY Flags
    <3> QED BY <3>1, <2>4, <1>9
  <2>m. Merged'
    <3>1. NoBuddies(FreeHeads', level')
      BY <2>1, <2>3 DEF Facts, Merged, NoBuddies
    <3> QED BY <3>1 DEF Merged
  <2>7. CASE free_lists[l] = bud
    <3>1. prev = None
      BY <2>7, <1>9 DEF StaleHead
    <3>2. free_lists' = [free_lists EXCEPT ![l] = next] /\ next_frame' = next_frame
      BY <3>1, <1>9
    <3>3. IsPop(FreeHeads, free_lists, level, next_frame, prev_frame,
                FreeHeads', free_lists', level', next_frame', prev_frame', bud, l)
      BY <2>1, <2>2, <2>3, <2>4, <2>5, <2>7, <3>2 DEF IsPop
    <3>4. Linked(FreeHeads', free_lists', level', next_frame', prev_frame')
      BY <3>3, Pop
    <3>5. Chained(FreeHeads', free_lists', level', next_frame')
      BY <3>3, ChainedPop DEF Facts, Complete
    <3>6. Complete'
      BY <3>5 DEF Complete
    <3> QED BY <2>m, <3>4, <3>6, LinkedIsListsLinked DEF ListsLinked, Linked, FreeHeads
  <2>8. CASE free_lists[l] # bud
    <3>1. prev \in FreeHeads /\ prev # None
      <4>1. prev \in FreeHeads
        BY <2>8, <1>6 DEF Facts, ListsLinked
      <4> QED BY <4>1, Flags DEF FreeHeads, Frames
    <3>2. free_lists' = free_lists /\ next_frame' = [next_frame EXCEPT ![prev] = next]
      BY <3>1, <1>9
    <3>3. IsUnlink(FreeHeads, free_lists, level, next_frame, prev_frame,
                   FreeHeads', free_lists', level', next_frame', prev_frame', bud, l)
      BY <2>1, <2>2, <2>3, <2>4, <2>5, <2>6, <2>8, <3>2, <1>6 DEF IsUnlink
    <3>4. Linked(FreeHeads', free_lists', level', next_frame', prev_frame')
      BY <3>3, Unlink
    <3>5. Chained(FreeHeads', free_lists', level', next_frame')
      BY <3>3, ChainedUnlink DEF Facts, Complete
    <3>6. Complete'
      BY <3>5 DEF Complete
    <3> QED BY <2>m, <3>4, <3>6, LinkedIsListsLinked DEF ListsLinked, Linked, FreeHeads
  <2> QED BY <2>7, <2>8
<1>20. OwnedAllocated'
  <2>1. SUFFICES ASSUME NEW b \in owned
                 PROVE  flags'[b[1]] = AllocatedHead /\ level'[b[1]] = b[2] /\ ~InFlight(b[1])'
    BY <1>9 DEF OwnedAllocated
  <2>2. b[1] \in Frames /\ flags[b[1]] = AllocatedHead /\ level[b[1]] = b[2] /\ ~InFlight(b[1])
    BY DEF Facts, OwnedAllocated
  <2>3. b[1] # p /\ b[1] # bud
    BY <2>2, <1>3, Flags
  <2>4. b[1] # low /\ b[1] # high
    BY <2>3, <1>8
  <2> QED BY <2>2, <2>4, <1>9, <1>11 DEF Facts
<1>21. Covered'
  <2> SUFFICES ASSUME NEW f \in Frames
               PROVE  \E i \in Frames : IsBlockHead(i)' /\ f \in Block(i, BlockLevel(i)')
    BY DEF Covered, Block
  <2>1. PICK i \in Frames : IsBlockHead(i) /\ f \in Block(i, BlockLevel(i))
    BY <1>1 DEF Facts, Covered
  <2>2. CASE i \notin {low, high}
    BY <1>12, <1>13, <2>1, <2>2
  <2>3. CASE i \in {low, high}
    <3>1. f \in low .. low + 2 * s - 1
      <4>1. f \in i .. i + s - 1 /\ (i = low \/ i = low + s)
        BY <1>8, <1>14, <2>1, <2>3 DEF Block
      <4> QED BY <1>8, <4>1
    <3>2. f \in Block(low, l + 1)
      BY <1>2, <3>1 DEF Block
    <3>3. IsBlockHead(low)'
      BY <1>12, <1>14, <1>15
    <3> QED BY <1>13, <3>2, <3>3
  <2> QED BY <2>2, <2>3
<1>22. OwnedKnown'
  <2>1. /\ flags'[high] = PAGE_FRAME_ALLOCATED
        /\ \A i \in Frames \ {low, high} : level'[i] = level[i] /\ flags'[i] = flags[i]
    BY <1>9 DEF Facts
  <2> SUFFICES ASSUME NEW i \in Frames, flags'[i] = AllocatedHead, ~InFlight(i)'
               PROVE  <<i, level'[i]>> \in owned
    BY <1>9 DEF OwnedKnown
  <2>2. i # low /\ i # high
    BY <1>11, <2>1, Flags
  <2>3. ~InFlight(i) /\ level'[i] = level[i] /\ flags[i] = AllocatedHead
    BY <1>8, <1>11, <2>1, <2>2
  <2> QED BY <2>3 DEF Facts, OwnedKnown
<1>23. Tail'
  BY <1>1 DEF Tail
<1> QED BY <1>10, <1>16, <1>17, <1>18, <1>19, <1>20, <1>21, <1>22, <1>23
        DEF IInv, TableConsistent, ZoneWhole

----------------------------------------------------------------------------
(* The theorems                                                            *)

\* The invariant holds when init_normal_mem_zone starts ...
LEMMA InitIInv ==
  ASSUME Init
  PROVE  IInv
<1>1. 0 \in Levels /\ BUDDY_MAXLEVEL - 1 \in Levels
  BY ConstantsAssumption DEF Levels
<1>2. BlockSize[BUDDY_MAXLEVEL - 1] \in Nat \ {0}
  BY <1>1, Sizes
<1>3. TypeOK
  <2>1. None \in 0 .. FramesNumber /\ 0 \in 0 .. FramesNumber
    BY Flags
  <2> QED BY <1>1, <2>1 DEF Init, TypeOK
<1>4. \A i \in Frames : ~IsBlockHead(i) /\ i \notin FreeHeads
  BY Flags DEF Init, IsBlockHead, FreeHeads
<1>5. 0 % BlockSize[BUDDY_MAXLEVEL - 1] = 0
  BY <1>2
<1>6. BlocksAligned /\ BlocksDisjoint /\ ZoneCarved
  BY <1>4, <1>5 DEF Init, BlocksAligned, BlocksDisjoint, ZoneCarved
<1>7. ListsLinked /\ OwnedAllocated
  BY <1>4 DEF Init, ListsLinked, FreeHeads, OwnedAllocated
<1>8. Covered /\ OwnedKnown /\ Tail
  <2>1. \A f \in Frames : ~(f < 0)
    BY Flags DEF Frames
  <2>2. ~(BUDDY_MAXLEVEL - 1 < BUDDY_MAXLEVEL - 1)
    BY ConstantsAssumption
  <2> QED BY <1>4, <2>1, <2>2, Flags DEF Init, Covered, OwnedKnown, Tail
<1>9. Merged /\ Complete
  <2>1. FreeHeads = {}
    BY <1>4 DEF FreeHeads
  <2>2. IsChain(None, next_frame, {})
    <3> DEFINE s == [i \in 0 .. 0 |-> None]
    <3>1. Chain(None, next_frame, 0, s)
      BY Flags DEF Chain
    <3>2. {} = {s[i] : i \in 0 .. 0 - 1}
      OBVIOUS
    <3> HIDE DEF s
    <3> QED BY <3>1, <3>2 DEF IsChain
  <2>3. \A k \in Levels : free_lists[k] = None /\ {i \in {} : level[i] = k} = {}
    BY DEF Init
  <2> QED BY <2>1, <2>2, <2>3 DEF Merged, Complete, NoBuddies, Chained
<1> QED BY <1>3, <1>6, <1>7, <1>8, <1>9 DEF IInv, TableConsistent, ZoneWhole

\* ... and every step of every call preserves it.
LEMMA NextIInv ==
  ASSUME IInv, [Next]_vars
  PROVE  IInv'
<1>1. SUFFICES ASSUME ~corrupted' PROVE IInv'
  BY DEF IInv, TypeOK, TableConsistent, ZoneWhole
<1>2. CASE UNCHANGED vars
  <2>1. TypeOK'
    BY <1>2 DEF IInv, vars, TypeOK
  <2>2. TableConsistent'
    BY <1>2 DEF IInv, vars, TableConsistent, BlocksAligned, BlocksDisjoint,
                ZoneCarved, ListsLinked, OwnedAllocated, FreeHeads, InFlight,
                BlockLevel, IsBlockHead
  <2>3. ZoneWhole'
    BY <1>2 DEF IInv, vars, ZoneWhole, Covered, OwnedKnown, Tail, Merged, Complete,
                FreeHeads, InFlight, BlockLevel, IsBlockHead, Block
  <2> QED BY <2>1, <2>2, <2>3 DEF IInv
<1>3. CASE Next
  <2>1. ~corrupted
    BY <1>1, <1>3 DEF Next, InitShrink, InitBlock, InitDone, AllocBegin, AllocFail, Split,
                      AllocEnd, FreeBegin, FreeReject, Merge, MergePastEnd, FreeEnd
  <2>2. Facts
    BY <2>1, FactsHold
  <2>3. CASE InitShrink
    BY <2>2, <2>3, InitShrinkStep
  <2>4. CASE InitBlock
    BY <2>2, <2>4, InitBlockStep
  <2>5. CASE InitDone
    BY <2>2, <2>5, InitDoneStep
  <2>6. ASSUME NEW n \in 0 .. MaxRequest, AllocBegin(n)
        PROVE  IInv'
    BY <2>2, <2>6, AllocBeginStep
  <2>7. ASSUME NEW n \in 0 .. MaxRequest, AllocFail(n)
        PROVE  IInv'
    BY <2>2, <2>7, RejectStep DEF AllocFail
  <2>8. CASE Split
    BY <2>2, <2>8, SplitStep
  <2>9. CASE AllocEnd
    BY <2>2, <2>9, AllocEndStep
  <2>10. ASSUME NEW b \in owned, FreeBegin(b)
         PROVE  IInv'
    BY <2>2, <2>10, FreeBeginStep
  <2>11. ASSUME NEW i \in 0 .. FramesNumber, FreeReject(i)
         PROVE  IInv'
    BY <2>2, <2>11, RejectStep DEF FreeReject
  <2>12. CASE Merge
    BY <1>1, <2>2, <2>12, MergeStep
  <2>13. CASE MergePastEnd
    BY <1>1, <2>13 DEF MergePastEnd
  <2>14. CASE FreeEnd
    BY <2>2, <2>14, FreeEndStep
  <2> QED BY <1>3, <2>3, <2>4, <2>5, <2>6, <2>7, <2>8, <2>9, <2>10, <2>11, <2>12,
             <2>13, <2>14 DEF Next
<1> QED BY <1>2, <1>3

\* The inductive invariant of pmm.c holds at every step of every call.
THEOREM Invariance == Spec => []IInv
<1>1. Init => IInv
  BY InitIInv
<1>2. IInv /\ [Next]_vars => IInv'
  BY NextIInv
<1> QED BY <1>1, <1>2, PTL DEF Spec

\* The fields of the page_frame_t table, free_lists and the locals of every
\* call keep to their ranges, until a free goes through a stale prev_frame.
THEOREM TypeCorrect == Spec => []TypeOK
<1>1. IInv => TypeOK
  BY DEF IInv
<1> QED BY <1>1, Invariance, PTL

\* The free lists, the block heads and the blocks clients hold stay
\* consistent at every step of every call of pmm.c, until a free goes through
\* a stale prev_frame.
THEOREM Consistency == Spec => []TableConsistent
<1>1. IInv => TableConsistent
  BY DEF IInv
<1> QED BY <1>1, Invariance, PTL

\* Distinct heads have disjoint blocks: the one in flight is nobody's.
LEMMA FreshFromIInv ==
  ASSUME IInv
  PROVE  FreshUntilCorrupted
<1>1. SUFFICES ASSUME ~corrupted, pc = "split", NEW b \in owned
               PROVE  Block(page_index, cur) \intersect Block(b[1], b[2]) = {}
  BY DEF FreshUntilCorrupted, HandedOutIsFresh
<1>2. Facts
  BY <1>1, FactsHold
<1> PICK p \in Frames : p = page_index
  BY <1>1 DEF IInv, TypeOK
<1> PICK q \in Frames : q = b[1]
  BY <1>2 DEF Facts
<1>3. IsBlockHead(p) /\ BlockLevel(p) = cur
  BY <1>1, <1>2 DEF Facts, BlocksAligned, BlockLevel, InFlight
<1>4. IsBlockHead(q) /\ BlockLevel(q) = b[2] /\ ~InFlight(q)
  <2>1. flags[q] = AllocatedHead /\ level[q] = b[2] /\ ~InFlight(q)
    BY <1>2 DEF Facts, OwnedAllocated
  <2> QED BY <2>1 DEF IsBlockHead, BlockLevel
<1>5. p # q
  BY <1>1, <1>4 DEF InFlight
<1>6. p \in Nat /\ q \in Nat /\ BlockSize[cur] \in Nat /\ BlockSize[b[2]] \in Nat
  BY <1>2, <1>3, <1>4, TableSizes
<1>7. p + BlockSize[cur] <= q \/ q + BlockSize[b[2]] <= p
  <2>1. p < q => p + BlockSize[cur] <= q
    BY <1>2, <1>3, <1>4 DEF Facts, BlocksDisjoint
  <2>2. q < p => q + BlockSize[b[2]] <= p
    BY <1>2, <1>3, <1>4 DEF Facts, BlocksDisjoint
  <2> QED BY <2>1, <2>2, <1>5, <1>6
<1> QED BY <1>6, <1>7 DEF Block

\* frame_alloc never hands out a frame that a client still holds, until a free
\* has gone through a stale prev_frame: the buddy arithmetic, the splitting
\* and the merging are right, and the links are the only thing that is not.
THEOREM NoDoubleAllocation == Spec => []FreshUntilCorrupted
<1>1. IInv => FreshUntilCorrupted
  BY FreshFromIInv
<1> QED BY <1>1, Invariance, PTL

----------------------------------------------------------------------------
(* Conservation                                                            *)

\* The walk along next_frame that Listed describes finds the blocks of the
\* list it starts on, all of them within FramesNumber steps.
LEMMA ListedIs ==
  ASSUME NEW l \in Levels, NEW S, IsChain(free_lists[l], next_frame, S)
  PROVE  Listed(l) = S
<1>1. PICK n, s : Chain(free_lists[l], next_frame, n, s) /\ S = {s[i] : i \in 0 .. n - 1}
  BY DEF IsChain
<1> PICK C : C = FramesNumber
  OBVIOUS
<1>2. n \in Nat /\ C \in Nat /\ n <= C
  <2>1. n \in Nat /\ C \in Nat
    BY <1>1, Flags DEF Chain
  <2>2. /\ IsFiniteSet(0 .. n - 1) /\ Cardinality(0 .. n - 1) = n
        /\ IsFiniteSet(0 .. C - 1) /\ Cardinality(0 .. C - 1) = C
    <3>1. ASSUME NEW m \in Nat
          PROVE  IsFiniteSet(0 .. m - 1) /\ Cardinality(0 .. m - 1) = m
      <4> PICK e \in Int : e = m - 1
        OBVIOUS
      <4>1. /\ IsFiniteSet(0 .. e)
            /\ Cardinality(0 .. e) = IF 0 > e THEN 0 ELSE e - 0 + 1
        BY FS_Interval
      <4> QED BY <4>1
    <3> QED BY <2>1, <3>1
  <2> DEFINE f == [i \in 0 .. n - 1 |-> s[i]]
  <2>3. f \in Injection(0 .. n - 1, 0 .. C - 1)
    BY <1>1 DEF Chain, Injection, IsInjective, Frames
  <2>4. Cardinality(0 .. n - 1) <= Cardinality(0 .. C - 1)
    BY <2>2, <2>3, FS_Injection
  <2> QED BY <2>1, <2>2, <2>4
<1>3. /\ s[0] = free_lists[l] /\ s[n] = None /\ None \notin Frames
      /\ \A i \in 0 .. n - 1 : s[i] \in Frames /\ next_frame[s[i]] = s[i + 1]
  BY <1>1, Flags DEF Chain, Frames
<1> DEFINE Step(y) == y \union ({next_frame[i] : i \in y} \ {None})
           Def(w) == [k \in 0 .. C |-> IF k = 0 THEN {free_lists[l]} \ {None}
                                                ELSE Step(w[k - 1])]
           v == [k \in 0 .. C |-> {s[i] : i \in {j \in 0 .. n - 1 : j <= k}}]
<1>4. v = Def(v)
  <2>1. ASSUME NEW k \in 0 .. C
        PROVE  v[k] = IF k = 0 THEN {free_lists[l]} \ {None}
                      ELSE v[k - 1] \union ({next_frame[i] : i \in v[k - 1]} \ {None})
    <3>0. v[k] = {s[i] : i \in {j \in 0 .. n - 1 : j <= k}}
      OBVIOUS
    <3>1. CASE k = 0
      <4>1. CASE n = 0
        <5>1. v[k] = {}
          BY <3>0, <4>1
        <5> QED BY <1>3, <3>1, <4>1, <5>1
      <4>2. CASE n # 0
        <5>1. 0 \in 0 .. n - 1 /\ \A j \in 0 .. n - 1 : j <= 0 => j = 0
          BY <1>2, <4>2
        <5>2. v[k] = {s[0]}
          BY <3>0, <3>1, <5>1
        <5> QED BY <1>3, <3>1, <5>1, <5>2
      <4> QED BY <4>1, <4>2
    <3>2. CASE k # 0
      <4>1. k - 1 \in 0 .. C /\ k \in Nat
        BY <1>2, <3>2
      <4>2. v[k - 1] = {s[i] : i \in {j \in 0 .. n - 1 : j <= k - 1}}
        BY <4>1
      <4> HIDE DEF v
      <4>3. ASSUME NEW x \in v[k]
            PROVE  x \in v[k - 1] \/ (x # None /\ \E y \in v[k - 1] : x = next_frame[y])
        <5>1. PICK i \in 0 .. n - 1 : i <= k /\ x = s[i]
          BY <3>0
        <5>2. CASE i = 0
          BY <4>1, <4>2, <5>1, <5>2
        <5>3. CASE i # 0
          <6>1. i - 1 \in 0 .. n - 1 /\ i - 1 <= k - 1 /\ (i - 1) + 1 = i
            BY <1>2, <4>1, <5>1, <5>3
          <6>2. s[i - 1] \in v[k - 1]
            BY <4>2, <6>1
          <6>3. next_frame[s[i - 1]] = x /\ x # None
            BY <1>3, <5>1, <6>1
          <6> QED BY <6>2, <6>3
        <5> QED BY <5>2, <5>3
      <4>4. ASSUME NEW x \in v[k - 1]
            PROVE  x \in v[k] /\ (next_frame[x] # None => next_frame[x] \in v[k])
        <5>1. PICK i \in 0 .. n - 1 : i <= k - 1 /\ x = s[i]
          BY <4>2
        <5>2. i <= k /\ i + 1 <= k /\ next_frame[x] = s[i + 1]
          BY <1>2, <1>3, <4>1, <5>1
        <5>3. next_frame[x] # None => i + 1 \in 0 .. n - 1
          BY <1>2, <1>3, <5>1, <5>2
        <5> QED BY <3>0, <5>1, <5>2, <5>3
      <4> QED BY <3>2, <4>3, <4>4
    <3> QED BY <3>1, <3>2
  <2> HIDE DEF v
  <2>2. v = [k \in 0 .. C |-> v[k]]
    BY DEF v
  <2> QED BY <2>1, <2>2
<1>5. ASSUME NEW w, w = Def(w)
      PROVE  w = v
  <2> DEFINE Bad == {k \in 0 .. C : w[k] # v[k]}
  <2>0. /\ \A k \in 0 .. C : w[k] = Def(w)[k]
        /\ \A k \in 0 .. C : v[k] = Def(v)[k]
    <3> HIDE DEF v, Def
    <3> QED BY <1>4, <1>5
  <2> HIDE DEF v, Step
  <2>1. Bad = {}
    <3> SUFFICES ASSUME Bad # {}
                 PROVE  FALSE
      OBVIOUS
    <3>1. Bad \subseteq Nat
      BY <1>2
    <3>2. PICK k \in Bad : \A j \in Bad : ~ (j < k)
      BY <3>1, LeastElement
    <3>3. k # 0
      BY <1>2, <2>0, <3>2
    <3>4. k - 1 \in 0 .. C /\ k - 1 < k
      BY <1>2, <3>1, <3>2, <3>3
    <3>5. w[k - 1] = v[k - 1]
      BY <3>2, <3>4
    <3> QED BY <2>0, <3>2, <3>3, <3>5
  <2>2. w = [k \in 0 .. C |-> w[k]]
    BY <1>5
  <2>3. v = [k \in 0 .. C |-> v[k]]
    BY DEF v
  <2> QED BY <2>1, <2>2, <2>3
<1>6. PICK w : w = CHOOSE x : x = Def(x)
  OBVIOUS
<1>7. w = v
  <2>1. w = Def(w)
    <3> HIDE DEF v, Def
    <3> QED BY <1>4, <1>6
  <2> HIDE DEF v, Def
  <2> QED BY <1>5, <2>1
<1>8. Listed(l) = w[C]
  BY <1>6 DEF Listed
<1>9. v[C] = S
  <2>1. {j \in 0 .. n - 1 : j <= C} = 0 .. n - 1
    BY <1>2
  <2>2. C \in 0 .. C
    BY <1>2
  <2> QED BY <1>1, <2>1, <2>2
<1> HIDE DEF v
<1> QED BY <1>7, <1>8, <1>9

\* Between two calls, the lists and the clients hold the blocks of the table.
LEMMA BlocksAre ==
  ASSUME Facts, pc = "idle",
         NEW b \in owned \union UNION {{<<i, l>> : i \in Listed(l)} : l \in Levels}
  PROVE  /\ b[1] \in Frames /\ IsBlockHead(b[1]) /\ level[b[1]] = b[2]
         /\ BlockLevel(b[1]) = b[2] /\ b = <<b[1], b[2]>>
<1>1. \A i \in Frames : BlockLevel(i) = level[i]
  BY DEF BlockLevel, InFlight
<1>2. CASE b \in owned
  <2>1. b \in Frames \X Levels /\ flags[b[1]] = AllocatedHead /\ level[b[1]] = b[2]
    BY <1>2 DEF Facts, OwnedAllocated
  <2> QED BY <1>1, <2>1 DEF IsBlockHead
<1>3. CASE b \notin owned
  <2>0. PICK l \in Levels : \E i \in Listed(l) : b = <<i, l>>
    BY <1>3
  <2>1. PICK i \in Listed(l) : b = <<i, l>>
    BY <2>0
  <2>2. Listed(l) = {j \in FreeHeads : level[j] = l}
    BY ListedIs DEF Facts, Complete, Chained
  <2>3. i \in FreeHeads /\ level[i] = l
    BY <2>1, <2>2
  <2>4. i \in Frames /\ flags[i] = PAGE_FRAME_BLOCK_HEAD
    BY <2>3 DEF FreeHeads
  <2> QED BY <1>1, <2>1, <2>3, <2>4 DEF IsBlockHead
<1> QED BY <1>2, <1>3

\* A block of the table is on the list of its level or some client's.
LEMMA HeadIsListed ==
  ASSUME Facts, pc = "idle", NEW i \in Frames, IsBlockHead(i)
  PROVE  \/ i \in FreeHeads /\ i \in Listed(level[i])
         \/ <<i, level[i]>> \in owned
<1>1. ~InFlight(i)
  BY DEF InFlight
<1>2. CASE flags[i] = AllocatedHead
  BY <1>1, <1>2 DEF Facts, OwnedKnown
<1>3. CASE flags[i] = PAGE_FRAME_BLOCK_HEAD
  <2>1. i \in FreeHeads /\ level[i] \in Levels
    BY <1>1, <1>3 DEF Facts, FreeHeads
  <2>2. Listed(level[i]) = {j \in FreeHeads : level[j] = level[i]}
    BY <2>1, ListedIs DEF Facts, Complete, Chained
  <2> QED BY <2>1, <2>2
<1> QED BY <1>2, <1>3 DEF IsBlockHead

\* Each frame is in exactly one of them.
LEMMA ConservedFromIInv ==
  ASSUME IInv
  PROVE  FramesConserved
<1>0. SUFFICES ASSUME pc = "idle", ~corrupted PROVE FramesConserved
  BY DEF FramesConserved
<1>1. Facts
  BY <1>0, FactsHold
<1> DEFINE blocks == owned \union UNION {{<<i, l>> : i \in Listed(l)} : l \in Levels}
<1>2. ASSUME NEW f \in Frames
      PROVE  \E b \in blocks : /\ f \in Block(b[1], b[2])
                               /\ \A c \in blocks \ {b} : f \notin Block(c[1], c[2])
  <2>1. PICK i \in Frames : IsBlockHead(i) /\ f \in Block(i, BlockLevel(i))
    BY <1>0, <1>1 DEF Facts, Covered
  <2>2. BlockLevel(i) = level[i] /\ level[i] \in Levels
    BY <1>0, <1>1 DEF BlockLevel, InFlight, Facts
  <2> PICK b : b = <<i, level[i]>>
    OBVIOUS
  <2>3. b \in blocks /\ b[1] = i /\ b[2] = level[i]
    BY <1>0, <1>1, <2>1, <2>2, HeadIsListed
  <2>4. ASSUME NEW c \in blocks \ {b}
        PROVE  f \notin Block(c[1], c[2])
    <3> PICK j : j = c[1]
      OBVIOUS
    <3>1. j \in Frames /\ IsBlockHead(j) /\ BlockLevel(j) = c[2] /\ c = <<j, level[j]>>
      BY <1>0, <1>1, BlocksAre
    <3>2. j # i
      BY <3>1
    <3>3. /\ i \in Nat /\ j \in Nat /\ BlockSize[level[i]] \in Nat /\ BlockSize[c[2]] \in Nat
          /\ f \in Nat
      BY <1>1, <2>2, <3>1, TableSizes, Flags DEF Frames
    <3>4. i < j => i + BlockSize[level[i]] <= j
      BY <1>1, <2>1, <2>2, <3>1 DEF Facts, BlocksDisjoint
    <3>5. j < i => j + BlockSize[c[2]] <= i
      BY <1>1, <2>1, <3>1 DEF Facts, BlocksDisjoint
    <3>6. i <= f /\ f < i + BlockSize[level[i]]
      BY <2>1, <2>2, <3>3 DEF Block
    <3>7. ~(j <= f /\ f <= j + BlockSize[c[2]] - 1)
      BY <3>2, <3>3, <3>4, <3>5, <3>6
    <3> QED BY <3>3, <3>7 DEF Block
  <2> HIDE DEF blocks
  <2> QED BY <2>1, <2>2, <2>3, <2>4
<1> QED BY <1>2 DEF FramesConserved

\* Between two calls of pmm.c every frame is in exactly one block, and that
\* block is on the list a walk along next_frame follows or held by a client:
\* no sequence of allocations, splits, frees and merges leaks a frame or files
\* it twice, until a free goes through a stale prev_frame.
THEOREM NoFrameLost == Spec => []FramesConserved
<1>1. IInv => FramesConserved
  BY ConservedFromIInv
<1> QED BY <1>1, Invariance, PTL

----------------------------------------------------------------------------
(* Merging                                                                 *)

\* What is aligned to a level is aligned to every level below.
LEMMA AlignedBelow ==
  ASSUME NEW x \in Nat, NEW a \in Levels, NEW b \in Levels, a <= b,
         x % BlockSize[b] = 0
  PROVE  x % BlockSize[a] = 0
<1>0. a \in Nat /\ b \in Nat
  BY ConstantsAssumption DEF Levels
<1> DEFINE Bad == {d \in 0 .. b : x % BlockSize[b - d] # 0}
<1>1. Bad = {}
  <2> SUFFICES ASSUME Bad # {}
               PROVE  FALSE
    OBVIOUS
  <2>1. Bad \subseteq Nat
    BY <1>0
  <2>2. PICK d \in Bad : \A e \in Bad : ~ (e < d)
    BY <2>1, LeastElement
  <2>3. d # 0
    BY <1>0, <2>2
  <2>4. d \in Nat /\ d - 1 \in 0 .. b /\ d - 1 < d
    BY <1>0, <2>2, <2>3
  <2> PICK c : c = b - (d - 1)
    OBVIOUS
  <2>5. c \in Levels /\ c > 0 /\ c - 1 = b - d
    BY <1>0, <2>2, <2>4, ConstantsAssumption DEF Levels
  <2>6. x % BlockSize[c] = 0
    BY <2>2, <2>4
  <2>7. x % BlockSize[c - 1] = 0
    BY <2>5, <2>6, RightHalf
  <2> QED BY <2>2, <2>5, <2>7
<1>2. b - a \in 0 .. b /\ b - (b - a) = a
  BY <1>0
<1> QED BY <1>1, <1>2

\* Of two multiples of s, the smaller is at least s below the other.
LEMMA Gap ==
  ASSUME NEW s \in Nat \ {0}, NEW i \in Nat, NEW x \in Nat, i % s = 0, x % s = 0, i < x
  PROVE  i + s <= x
<1> PICK q \in Nat : i = s * q
  <2>1. i = s * (i \div s) /\ i \div s \in Nat
    OBVIOUS
  <2> QED BY <2>1
<1> PICK r \in Nat : x = s * r
  <2>1. x = s * (x \div s) /\ x \div s \in Nat
    OBVIOUS
  <2> QED BY <2>1
<1>1. q < r
  <2> SUFFICES ASSUME r <= q PROVE FALSE
    OBVIOUS
  <2>1. PICK d \in Nat : q = r + d
    <3>1. q - r \in Nat /\ q = r + (q - r)
      OBVIOUS
    <3> QED BY <3>1
  <2>2. i = x + s * d
    BY <2>1
  <2>3. s * d \in Nat
    OBVIOUS
  <2> QED BY <2>2, <2>3
<1>2. PICK d \in Nat : r = q + 1 + d
  <2>1. r - q - 1 \in Nat /\ r = q + 1 + (r - q - 1)
    BY <1>1
  <2> QED BY <2>1
<1>3. x = i + s + s * d /\ s * d \in Nat
  BY <1>2
<1> QED BY <1>3

\* An aligned block ends before a place aligned to its level or above.
LEMMA BlockGap ==
  ASSUME NEW i \in Nat, NEW x \in Nat, NEW a \in Levels, NEW b \in Levels, a <= b,
         i % BlockSize[a] = 0, x % BlockSize[b] = 0, i < x
  PROVE  i + BlockSize[a] <= x
<1>1. x % BlockSize[a] = 0
  BY AlignedBelow
<1> QED BY <1>1, Gap, Sizes

\* If the aligned block of level l at i belonged to nobody and no list had a
\* block for it, it would be cut into smaller free blocks, and the buddy of a
\* smallest of them would be free as well.
LEMMA UnheldIsFree ==
  ASSUME Facts, pc = "idle", NEW l \in Levels, NEW i \in Frames,
         i % BlockSize[l] = 0, i + BlockSize[l] <= FramesNumber,
         \A b \in owned : Block(i, l) \intersect Block(b[1], b[2]) = {}
  PROVE  \E m \in l .. BUDDY_MAXLEVEL - 1 : free_lists[m] # None
<1> SUFFICES ASSUME \A m \in l .. BUDDY_MAXLEVEL - 1 : free_lists[m] = None
             PROVE  FALSE
  OBVIOUS
<1>0. /\ \A k \in Levels : k \in Int /\ BlockSize[k] \in Nat \ {0}
      /\ \A k \in Levels : k < BUDDY_MAXLEVEL - 1 =>
            k + 1 \in Levels /\ BlockSize[k + 1] = 2 * BlockSize[k]
      /\ \A k \in Levels : k >= l => k \in l .. BUDDY_MAXLEVEL - 1
      /\ \A k \in Levels : k < l => k < BUDDY_MAXLEVEL - 1 /\ k + 1 <= l
      /\ Frames \subseteq Nat /\ FramesNumber \in Nat
  <2>1. /\ \A k \in Levels : k \in Int
        /\ \A k \in Levels : k >= l => k \in l .. BUDDY_MAXLEVEL - 1
        /\ \A k \in Levels : k < l => k < BUDDY_MAXLEVEL - 1 /\ k + 1 <= l
    BY ConstantsAssumption DEF Levels
  <2>2. Frames \subseteq Nat
    BY Flags DEF Frames
  <2> QED BY <2>1, <2>2, Sizes, Flags
<1> PICK x \in Nat : x = i + BlockSize[l]
  BY <1>0
<1>1. x % BlockSize[l] = 0 /\ x <= FramesNumber /\ i \in Nat /\ i < x
  BY <1>0, StepAligned
<1>2. \A j \in FreeHeads : /\ j \in Frames /\ level[j] \in Levels /\ level[j] < l
                           /\ j % BlockSize[level[j]] = 0
                           /\ IsBlockHead(j) /\ BlockLevel(j) = level[j]
  <2> SUFFICES ASSUME NEW j \in FreeHeads
               PROVE  /\ j \in Frames /\ level[j] \in Levels /\ level[j] < l
                      /\ j % BlockSize[level[j]] = 0
                      /\ IsBlockHead(j) /\ BlockLevel(j) = level[j]
    OBVIOUS
  <2>1. j \in Frames /\ level[j] \in Levels /\ IsBlockHead(j) /\ BlockLevel(j) = level[j]
    BY DEF Facts, FreeHeads, IsBlockHead, BlockLevel
  <2>2. free_lists[level[j]] # None
    <3> SUFFICES ASSUME free_lists[level[j]] = None PROVE FALSE
      OBVIOUS
    <3>1. IsChain(None, next_frame, {k \in FreeHeads : level[k] = level[j]})
      BY <2>1 DEF Facts, Complete, Chained
    <3>2. PICK n, s : /\ Chain(None, next_frame, n, s)
                      /\ {k \in FreeHeads : level[k] = level[j]} = {s[e] : e \in 0 .. n - 1}
      BY <3>1 DEF IsChain
    <3>3. n \in Nat /\ n # 0
      <4>1. PICK e \in 0 .. n - 1 : j = s[e]
        BY <3>2
      <4> QED BY <3>2, <4>1 DEF Chain
    <3>4. s[0] = None /\ s[0] \in Frames
      BY <3>2, <3>3 DEF Chain
    <3> QED BY <3>4, Flags DEF Frames
  <2>3. level[j] < l
    BY <1>0, <2>1, <2>2
  <2> QED BY <2>1, <2>3, FreeAligned
\* every frame of the block is in a free block that lies inside it
<1>3. ASSUME NEW f \in Frames, i <= f, f < x
      PROVE  \E k \in FreeHeads : i <= k /\ k <= f /\ f < k + BlockSize[level[k]]
  <2>1. PICK k \in Frames : IsBlockHead(k) /\ f \in Block(k, BlockLevel(k))
    BY DEF Facts, Covered
  <2>2. BlockLevel(k) = level[k] /\ level[k] \in Levels /\ k \in Nat /\ f \in Nat
    BY <1>0 DEF Facts, BlockLevel, InFlight
  <2>3. k <= f /\ f < k + BlockSize[level[k]]
    BY <1>0, <2>1, <2>2 DEF Block
  <2>4. <<k, level[k]>> \notin owned
    <3> SUFFICES ASSUME <<k, level[k]>> \in owned PROVE FALSE
      OBVIOUS
    <3> PICK b \in owned : b[1] = k /\ b[2] = level[k]
      OBVIOUS
    <3>1. f \in Block(k, level[k])
      BY <2>1, <2>2
    <3>2. f \in Block(i, l)
      BY <1>0, <1>1, <1>3, <2>2 DEF Block
    <3>3. Block(i, l) \intersect Block(k, level[k]) = {}
      OBVIOUS
    <3> QED BY <3>1, <3>2, <3>3
  <2>5. k \in FreeHeads
    BY <2>1, <2>4, HeadIsListed
  <2>6. i <= k
    <3> SUFFICES ASSUME k < i PROVE FALSE
      BY <1>1, <2>2
    <3>1. k + BlockSize[level[k]] <= i
      BY <1>0, <1>1, <1>2, <2>2, <2>5, BlockGap, SMTT(30)
    <3> QED BY <1>0, <1>1, <1>3, <2>2, <2>3, <3>1
  <2> QED BY <2>3, <2>5, <2>6
\* a smallest of these blocks, and its buddy
<1> DEFINE Inside == {k \in FreeHeads : i <= k /\ k < x}
           Inner == {level[k] : k \in Inside}
<1>4. PICK j \in Inside : \A k \in Inside : level[j] <= level[k]
  <2>1. Inner \subseteq Nat
    BY <1>2, ConstantsAssumption DEF Levels
  <2>2. Inner # {}
    <3>1. PICK k \in FreeHeads : i <= k /\ k <= i
      BY <1>1, <1>3
    <3>0. k \in Nat
      BY <1>0, <1>2
    <3>2. k \in Inside
      BY <1>1, <3>0, <3>1
    <3> QED BY <3>2
  <2>3. PICK m \in Inner : \A e \in Inner : ~ (e < m)
    BY <2>1, <2>2, LeastElement
  <2>4. PICK j \in Inside : m = level[j]
    BY <2>3
  <2>5. \A k \in Inside : level[k] \in Nat /\ ~ (level[k] < level[j])
    BY <2>1, <2>3, <2>4
  <2> QED BY <2>4, <2>5
<1>5. j \in FreeHeads /\ i <= j /\ j < x
  OBVIOUS
<1> PICK m : m = level[j]
  OBVIOUS
<1>6. j \in Nat /\ m \in Levels /\ m < l /\ j % BlockSize[m] = 0
  BY <1>0, <1>2, <1>5
<1>7. m < BUDDY_MAXLEVEL - 1 /\ m + 1 \in Levels /\ m + 1 <= l
  BY <1>0, <1>6
<1> PICK s \in Nat \ {0} : s = BlockSize[m] /\ BlockSize[m + 1] = 2 * s
  BY <1>0, <1>6, <1>7
<1> PICK b : b = Buddy(j, m)
  OBVIOUS
<1> HIDE DEF Inside
<1>8. \/ b = j + s /\ j % BlockSize[m + 1] = 0
      \/ b = j - s /\ b \in Nat /\ b % BlockSize[m + 1] = 0
  BY <1>6, <1>7, Pair
<1>9. b \in Nat /\ i <= b /\ b < x
  <2>1. CASE b = j + s /\ j % BlockSize[m + 1] = 0
    <3>1. j + BlockSize[m + 1] <= x
      BY <1>1, <1>5, <1>6, <1>7, <2>1, BlockGap
    <3> QED BY <1>1, <1>5, <1>6, <2>1, <3>1
  <2>2. CASE b = j - s /\ b \in Nat /\ b % BlockSize[m + 1] = 0
    <3>1. b < i => b + BlockSize[m + 1] <= i
      BY <1>1, <1>7, <2>2, BlockGap
    <3> QED BY <1>1, <1>5, <1>6, <2>2, <3>1
  <2> QED BY <1>8, <2>1, <2>2
<1>10. b \in Frames
  BY <1>0, <1>1, <1>9 DEF Frames
<1>11. PICK k \in FreeHeads : i <= k /\ k <= b /\ b < k + BlockSize[level[k]]
  BY <1>3, <1>9, <1>10
<1> PICK n : n = level[k]
  OBVIOUS
<1>12. k \in Nat /\ n \in Levels /\ n < l /\ k % BlockSize[n] = 0 /\ BlockSize[n] \in Nat
  BY <1>0, <1>2
<1>13. k < x /\ k \in Inside /\ m <= n
  <2>1. k < x
    BY <1>1, <1>9, <1>11, <1>12
  <2>2. k \in Inside
    BY <1>11, <2>1 DEF Inside
  <2> QED BY <1>4, <2>1, <2>2
<1>14. CASE n = m
  <2>1. b % BlockSize[m] = 0
    <3>1. CASE b = j + s
      BY <1>6, <3>1, StepAligned
    <3>2. CASE b \in Nat /\ b % BlockSize[m + 1] = 0
      <4>1. m <= m + 1
        BY <1>0, <1>6
      <4> QED BY <1>6, <1>7, <3>2, <4>1, AlignedBelow
    <3> QED BY <1>8, <3>1, <3>2
  <2>2. k = b
    <3>1. k < b => k + s <= b
      BY <1>9, <1>12, <1>14, <2>1, Gap
    <3> QED BY <1>9, <1>11, <1>12, <1>14, <3>1
  <2> QED BY <1>5, <1>7, <1>14, <2>2 DEF Facts, Merged, NoBuddies
<1>15. CASE n > m
  <2>0. m + 1 <= n
    BY <1>0, <1>6, <1>12, <1>15
  <2> PICK y \in Nat : y = k + BlockSize[n]
    BY <1>12
  <2>1. k <= j /\ j < y
    <3>1. CASE b = j + s /\ j % BlockSize[m + 1] = 0
      <4>1. j < k => j + BlockSize[m + 1] <= k
        BY <1>6, <1>7, <1>12, <2>0, <3>1, BlockGap
      <4> QED BY <1>6, <1>9, <1>11, <1>12, <3>1, <4>1
    <3>2. CASE b = j - s /\ b \in Nat /\ b % BlockSize[m + 1] = 0
      <4>1. y % BlockSize[n] = 0
        BY <1>0, <1>12, StepAligned
      <4>2. b + BlockSize[m + 1] <= y
        BY <1>7, <1>11, <1>12, <2>0, <3>2, <4>1, BlockGap
      <4> QED BY <1>6, <1>9, <1>11, <1>12, <3>2, <4>2
    <3> QED BY <1>8, <3>1, <3>2
  <2>2. k # j
    BY <1>0, <1>6, <1>12, <1>15
  <2>3. k < j => k + BlockSize[n] <= j
    BY <1>2, <1>5 DEF Facts, BlocksDisjoint
  <2> QED BY <1>6, <1>12, <2>1, <2>2, <2>3
<1> QED BY <1>0, <1>6, <1>12, <1>13, <1>14, <1>15

\* frame_alloc returns 0 only when memory is really short: whenever some
\* aligned block of level l is held by nobody, the search of
\* buddy_system_get_frame_page_block finds a list of level l or above that is
\* not empty. Merging on every free leaves no two buddies apart, until a free
\* goes through a stale prev_frame.
THEOREM FailsOnlyWhenShort == Spec => []NoSpuriousFailure
<1>1. IInv => NoSpuriousFailure
  <2> SUFFICES ASSUME IInv, pc = "idle", ~corrupted, NEW l \in Levels, NEW i \in Frames,
                      i % BlockSize[l] = 0, i + BlockSize[l] <= FramesNumber,
                      \A b \in owned : Block(i, l) \intersect Block(b[1], b[2]) = {}
               PROVE  \E m \in l .. BUDDY_MAXLEVEL - 1 : free_lists[m] # None
    BY DEF NoSpuriousFailure
  <2>1. Facts
    BY FactsHold
  <2> QED BY <2>1, UnheldIsFree
<1> QED BY <1>1, Invariance, PTL

----------------------------------------------------------------------------
(* Refinement                                                              *)

\* The block that a call of frame_alloc is splitting ends up large enough.
Request == pc = "split" => asked \in Nat /\ asked <= BlockSize[want]

\* The level that is looked for is that of the request, all the way down.
LEMMA RequestStep ==
  ASSUME Request, [Next]_vars
  PROVE  Request'
<1>1. CASE UNCHANGED vars
  BY <1>1 DEF vars, Request
<1>2. ASSUME NEW n \in 0 .. MaxRequest, AllocBegin(n)
      PROVE  Request'
  BY <1>2 DEF AllocBegin, PopBlock, IsLevelFor, Request
<1>3. CASE Split
  BY <1>3 DEF Split, Request
<1>4. ASSUME pc' # "split" \/ UNCHANGED <<pc, want, asked>>
      PROVE  Request'
  BY <1>4 DEF Request
<1>5. CASE InitShrink \/ InitBlock \/ InitDone \/ AllocEnd \/ Merge \/ MergePastEnd \/ FreeEnd
  BY <1>4, <1>5 DEF InitShrink, InitBlock, InitDone, AllocEnd, Merge, MergePastEnd, FreeEnd,
                    Return
<1>6. ASSUME NEW n \in 0 .. MaxRequest, AllocFail(n)
      PROVE  Request'
  BY <1>4, <1>6 DEF AllocFail
<1>7. ASSUME NEW b \in owned, FreeBegin(b)
      PROVE  Request'
  BY <1>4, <1>7 DEF FreeBegin
<1>8. ASSUME NEW i \in 0 .. FramesNumber, FreeReject(i)
      PROVE  Request'
  BY <1>4, <1>8 DEF FreeReject
<1> QED BY <1>1, <1>2, <1>3, <1>5, <1>6, <1>7, <1>8 DEF Next

\* What a call of frame_alloc returns is a step of the promise.
LEMMA AllocEndKept ==
  ASSUME IInv, Request, AllocEnd, ~corrupted'
  PROVE  Promise!Next
<1>1. ~corrupted /\ pc = "split" /\ cur = want /\ owned' = owned \union {<<page_index, want>>}
  BY DEF AllocEnd
<1>2. Facts
  BY <1>1, FactsHold
<1> PICK p \in Frames : p = page_index
  BY <1>1 DEF IInv, TypeOK
<1> DEFINE B == Block(p, want)
<1>3. IsBlockHead(p) /\ BlockLevel(p) = want
  BY <1>1, <1>2 DEF Facts, BlocksAligned, BlockLevel, InFlight
<1>4. p \in Nat /\ BlockSize[want] \in Nat \ {0} /\ p + BlockSize[want] <= FramesNumber
  <2>1. p \in Nat /\ BlockSize[want] \in Nat \ {0}
    BY <1>2, <1>3, TableSizes
  <2> QED BY <1>2, <1>3, <2>1 DEF Facts, BlocksAligned
<1>5. B \in SUBSET Frames
  BY <1>4, ConstantsAssumption DEF Block, Frames
<1>6. \A b \in owned : B \intersect Block(b[1], b[2]) = {}
  BY <1>1, FreshFromIInv DEF FreshUntilCorrupted, HandedOutIsFresh
<1>7. p \in B /\ p .. p + asked - 1 \subseteq B
  BY <1>1, <1>4 DEF Block, Request
<1>8. {Block(b[1], b[2]) : b \in owned'} = {Block(b[1], b[2]) : b \in owned} \union {B}
  <2>1. \A b \in owned' : b \in owned \/ Block(b[1], b[2]) = B
    BY <1>1
  <2>2. \A b \in owned : b \in owned'
    BY <1>1
  <2>3. \E b \in owned' : Block(b[1], b[2]) = B
    <3>1. <<p, want>> \in owned' /\ <<p, want>>[1] = p /\ <<p, want>>[2] = want
      BY <1>1
    <3> QED BY <3>1
  <2> HIDE DEF B
  <2> QED BY <2>1, <2>2, <2>3
<1>9. Promise!Alloc(B)
  <2> HIDE DEF B
  <2>1. Promise!Fresh(B)
    BY <1>6 DEF Promise!Fresh
  <2>2. Promise!Holds(B, asked)
    BY <1>7 DEF Promise!Holds
  <2> QED BY <1>8, <2>1, <2>2 DEF Promise!Alloc
<1> QED BY <1>5, <1>9 DEF Promise!Next

\* Two clients' blocks start at different frames, so taking one back leaves
\* the others.
LEMMA FreeBeginKept ==
  ASSUME IInv, ~corrupted, NEW b \in owned, FreeBegin(b)
  PROVE  Promise!Next
<1>1. Facts
  BY FactsHold
<1>2. owned' = owned \ {b}
  BY DEF FreeBegin
<1>3. \A c \in owned : /\ c \in Frames \X Levels /\ level[c[1]] = c[2]
                        /\ BlockSize[c[2]] \in Nat \ {0} /\ c[1] \in Nat
                        /\ c[1] + BlockSize[c[2]] <= FramesNumber
  <2> TAKE c \in owned
  <2>1. c \in Frames \X Levels /\ flags[c[1]] = AllocatedHead /\ level[c[1]] = c[2]
         /\ ~InFlight(c[1])
    BY <1>1 DEF Facts, OwnedAllocated, IInv, TypeOK
  <2>2. BlockLevel(c[1]) = c[2] /\ IsBlockHead(c[1])
    BY <2>1 DEF BlockLevel, IsBlockHead
  <2>3. c[1] + BlockSize[c[2]] <= FramesNumber
    BY <1>1, <2>1, <2>2 DEF Facts, BlocksAligned
  <2> QED BY <2>1, <2>3, Sizes, Flags DEF Frames
<1>4. \A c \in owned : Block(c[1], c[2]) = Block(b[1], b[2]) => c = b
  <2> SUFFICES ASSUME NEW c \in owned, Block(c[1], c[2]) = Block(b[1], b[2])
               PROVE  c = b
    OBVIOUS
  <2>1. c[1] \in Block(b[1], b[2]) /\ b[1] \in Block(c[1], c[2])
    BY <1>3, SMTT(30) DEF Block
  <2>2. c[1] = b[1]
    BY <1>3, <2>1 DEF Block
  <2> QED BY <1>3, <2>2
<1> DEFINE B == Block(b[1], b[2])
<1>5. {Block(c[1], c[2]) : c \in owned'} = {Block(c[1], c[2]) : c \in owned} \ {B}
  BY <1>2, <1>4
<1>6. B \in SUBSET Frames
  BY <1>3, ConstantsAssumption DEF Block, Frames
<1>7. B \in {Block(c[1], c[2]) : c \in owned}
  OBVIOUS
<1>8. Promise!Free(B)
  BY <1>5, <1>7 DEF Promise!Free
<1> QED BY <1>6, <1>8 DEF Promise!Next

\* frame_alloc and frame_free implement FrameAllocator: a call that changes
\* who holds what hands out a block that is fresh and large enough, or takes
\* back one block and no other, until a free has gone through a stale
\* prev_frame.
THEOREM PromiseKept == Spec => ImplementsFrameAllocator
<1>1. Init => Promise!Init /\ Request
  BY DEF Init, Promise!Init, Request
<1>2. IInv /\ Request /\ [Next]_vars =>
         [(~corrupted' /\ owned' # owned) => Promise!Next]_vars
  <2> SUFFICES ASSUME IInv, Request, Next, ~corrupted', owned' # owned
               PROVE  Promise!Next
    OBVIOUS
  <2>1. CASE AllocEnd
    BY <2>1, AllocEndKept
  <2>2. ASSUME NEW b \in owned, FreeBegin(b)
        PROVE  Promise!Next
    <3>1. ~corrupted
      BY <2>2 DEF FreeBegin
    <3> QED BY <2>2, <3>1, FreeBeginKept
  <2>3. AllocEnd \/ \E b \in owned : FreeBegin(b)
    BY DEF Next, InitShrink, InitBlock, InitDone, AllocBegin, AllocFail, Split, FreeReject,
           Merge, MergePastEnd, FreeEnd
  <2> QED BY <2>1, <2>2, <2>3
<1>3. Request /\ [Next]_vars => Request'
  BY RequestStep
<1>4. Spec => []IInv
  BY Invariance
<1> QED BY <1>1, <1>2, <1>3, <1>4, PTL DEF Spec, ImplementsFrameAllocator
=============================================================================
