--------------------------- MODULE SliceAllocator ---------------------------
(***************************************************************************)
(* kmalloc and kfree of kernel/kernel/kmm.c for one slice size. Pages of   *)
(* the frame allocator are cut into slices; a page_slice_allocator_t looks *)
(* after one page and is on one of three lists of its manager: free (it    *)
(* has no page), p_full (some slices are free) or full. When all the       *)
(* allocators of all the managers are full a new manager is put first.     *)
(*                                                                         *)
(* The free slices of a page are kept in one of two ways. For sizes from   *)
(* 512 bytes on first_avai is a bitmap. For smaller sizes every slice has  *)
(* a header byte that names the next free slice, and first_avai names the  *)
(* first.                                                                  *)
(***************************************************************************)
EXTENDS Naturals, FiniteSets

CONSTANTS
    Pages,         \* the frames kmm.c can get
    NULL,
    NoPage,        \* what kmm.c takes for a page when there is none, at PAGE_OFFSET
    SliceCount,    \* how many slices a page has
    NumOfAlloc,    \* NUM_OF_ALLOC_PER_MANAGER, which is also END_FLAG
    MaxManagers,   \* bound: the managers memory has room for
    LinkedMode     \* is_linked_mode(slice_size)

ASSUME SliceAssumption ==
    /\ SliceCount \in Nat /\ SliceCount > 1
    /\ NumOfAlloc \in Nat \ {0} /\ MaxManagers \in Nat \ {0}
    /\ LinkedMode \in BOOLEAN /\ {NULL, NoPage} \intersect Pages = {} /\ NULL # NoPage
    /\ NULL \notin Nat \X Nat

Slices     == 0 .. SliceCount - 1
Allocators == 0 .. NumOfAlloc - 1
END_FLAG   == NumOfAlloc
SLICE_END  == 255   \* 0xFF, the header of the last free slice

VARIABLES
    managers,   \* managers[1] is the oldest, at the end of the chain of next
    allocator,  \* page_frame_t.allocator: <<manager, index>> or NULL
    header,     \* the next_avail bytes of a page in linked mode
    live        \* history: the slices <<page, number>> clients hold

vars == <<managers, allocator, header, live>>

----------------------------------------------------------------------------
(* init_kmm, init_allocator_manager: one manager, all allocators free      *)

NoSlices == IF LinkedMode THEN 0 ELSE {}

NewManager ==
    [free |-> 0, p_full |-> END_FLAG, full |-> END_FLAG,
     allocs |-> [a \in Allocators |->
                   [prev |-> IF a = 0 THEN END_FLAG ELSE a - 1, next |-> a + 1,
                    first_avai |-> NoSlices, avai_num |-> 0, page |-> NULL]]]

Init ==
    /\ managers = [m \in {1} |-> NewManager]
    /\ allocator = [p \in Pages |-> NULL]
    /\ header = [p \in Pages |-> [s \in Slices |-> SLICE_END]]
    /\ live = {}

----------------------------------------------------------------------------
(* The lists of a manager                                                  *)

\* kmalloc_helper takes the first allocator of list `from' ...
PopFirst(M, from) ==
    LET a == M[from]
        n == M.allocs[a].next
    IN  [M EXCEPT ![from] = n,
                  !.allocs = IF n # END_FLAG THEN [@ EXCEPT ![n].prev = M.allocs[a].prev] ELSE @]

\* A bug to be caught: the allocator does not go before the old first one.
PushFirstUnlinked(M, a, to) ==
    [M EXCEPT ![to] = a, !.allocs[a].next = END_FLAG]

\* ... and puts it first on list `to', where it takes over the prev of the old
\* first one; on an empty list it keeps its own.
PushFirst(M, a, to) ==
    LET f == M[to]
    IN  [M EXCEPT ![to] = a,
                  !.allocs = IF f # END_FLAG
                                THEN [@ EXCEPT ![a].next = f, ![a].prev = M.allocs[f].prev,
                                               ![f].prev = a]
                                ELSE [@ EXCEPT ![a].next = f]]

\* kfree takes allocator a from where it is, believing it to be on list `from',
\* and puts it first on list `to'.
MoveFree(M, a, from, to) ==
    LET p == M.allocs[a].prev
        n == M.allocs[a].next
        A1 == IF n # END_FLAG THEN [M.allocs EXCEPT ![n].prev = p] ELSE M.allocs
        A2 == IF p # END_FLAG THEN [A1 EXCEPT ![p].next = n] ELSE A1
        M1 == [M EXCEPT ![from] = IF p = END_FLAG THEN n ELSE @]
        f  == M1[to]
        A3 == [A2 EXCEPT ![a].next = f, ![a].prev = END_FLAG]
    IN  [M1 EXCEPT ![to] = a,
                   !.allocs = IF f # END_FLAG THEN [A3 EXCEPT ![f].prev = a] ELSE A3]

----------------------------------------------------------------------------
(* kmalloc, kmalloc_helper                                                 *)

\* The first manager of the chain, newest first, that is not full
IsUsable(m) == managers[m].p_full # END_FLAG \/ managers[m].free # END_FLAG
IsFirstUsable(m) == IsUsable(m) /\ \A k \in DOMAIN managers : k > m => ~IsUsable(k)

\* A bug to be caught: the slice after the last one in use is taken.
FirstClearAbove(bits) ==
    CHOOSE s \in 0 .. SliceCount : /\ \A k \in bits : k < s
                                  /\ (s = 0 \/ s - 1 \in bits)

\* get_slice_addr in bitmap mode: the lowest clear bit, or the one after the
\* last
FirstClear(bits) ==
    CHOOSE s \in 0 .. SliceCount : s \notin bits /\ \A k \in 0 .. s - 1 : k \in bits

\* The slice comes from the first partially full allocator, which moves to
\* the full list when get_slice_addr says that it was the last one. (A header
\* outside the page is some byte of somebody else's memory.)
KmallocPartial ==
    \E m \in DOMAIN managers :
        /\ IsFirstUsable(m) /\ managers[m].p_full # END_FLAG
        /\ LET M == managers[m]
               a == M.p_full
               A == M.allocs[a]
               s == IF LinkedMode THEN A.first_avai ELSE FirstClear(A.first_avai)
               inside == A.page \in Pages /\ s \in Slices
           IN  \E after \in IF ~LinkedMode THEN {A.first_avai \union {s}}
                            ELSE IF inside THEN {header[A.page][s]}
                            ELSE Slices \union {SLICE_END} :
                  LET M1 == [M EXCEPT !.allocs[a].first_avai = after,
                                      !.allocs[a].avai_num = (@ + 255) % 256]
                      last == IF LinkedMode THEN after = SLICE_END ELSE Slices \subseteq after
                  IN  /\ managers' = [managers EXCEPT ![m] =
                             IF last THEN PushFirst(PopFirst(M1, "p_full"), a, "full") ELSE M1]
                      /\ header' = IF LinkedMode /\ inside
                                      THEN [header EXCEPT ![A.page][s] = SLICE_END] ELSE header
                      /\ live' = live \union {<<A.page, s>>}
                      /\ UNCHANGED allocator

\* Manager m's first free allocator gets page p, cuts it into slices, hands
\* out the first and moves to the p_full list.
Fresh(m, M, p) ==
    LET a  == M.free
        M1 == [M EXCEPT !.allocs[a].page = p, !.allocs[a].avai_num = SliceCount - 1,
                        !.allocs[a].first_avai = IF LinkedMode THEN 1 ELSE {0}]
    IN  /\ managers' = [k \in DOMAIN managers \union {m} |->
                          IF k = m THEN PushFirst(PopFirst(M1, "free"), a, "p_full")
                                   ELSE managers[k]]
        /\ allocator' = [q \in Pages |-> IF q = p THEN <<m, a>> ELSE allocator[q]]
        /\ header' = IF LinkedMode /\ p \in Pages
                        THEN [header EXCEPT ![p] = [s \in Slices |->
                                 IF s \in {0, SliceCount - 1} THEN SLICE_END ELSE s + 1]]
                        ELSE header
        /\ live' = live \union {<<p, 0>>}

FreePages == {p \in Pages : allocator[p] = NULL}

\* frame_alloc(1). Its 0 is not noticed and stands for a page_frame_t whose
\* physic_addr is whatever low memory holds.
Gets(p) == p \in FreePages \/ (FreePages = {} /\ p = NoPage)

KmallocFresh ==
    \E m \in DOMAIN managers, p \in Pages \union {NoPage} :
        /\ Gets(p) /\ IsFirstUsable(m) /\ managers[m].p_full = END_FLAG
        /\ Fresh(m, managers[m], p)

KmallocManager ==
    LET m == Cardinality(DOMAIN managers) + 1
    IN  /\ \A k \in DOMAIN managers : ~IsUsable(k)
        /\ m <= MaxManagers
        /\ \E p \in Pages \union {NoPage} : Gets(p) /\ Fresh(m, NewManager, p)

----------------------------------------------------------------------------
(* kfree of a slice <<page, number>> that a client holds. (What it does for *)
(* a slice of NoPage is not modelled.)                                     *)

\* Bugs to be caught: the page is given back one slice early, an allocator
\* stays on the full list, the bit stays set.
AllFreeEarly(n)       == n + 1 = SliceCount
LeavesFullNever(n)    == n = 0
ToggleNothing(bits, s) == bits

AllFree(n)    == n = SliceCount
LeavesFull(n) == n = 1

\* bitmap ^ (1 << (7 - s))
Toggle(bits, s) == IF s \in bits THEN bits \ {s} ELSE bits \union {s}

\* The code gives its linked list a new first slice, but writes the number of
\* the old one to the slice itself and not to its header.
Kfree(x) ==
    /\ x \in live /\ x \in Pages \X Slices /\ allocator[x[1]] # NULL
    /\ LET m == allocator[x[1]][1]
           a == allocator[x[1]][2]
           n == (managers[m].allocs[a].avai_num + 1) % 256
           M == [managers[m] EXCEPT
                   !.allocs[a].avai_num = n,
                   !.allocs[a].first_avai = IF LinkedMode THEN x[2] ELSE Toggle(@, x[2])]
       IN  /\ managers' = [managers EXCEPT ![m] =
                 IF AllFree(n)
                    THEN MoveFree([M EXCEPT !.allocs[a].page = NULL, !.allocs[a].avai_num = 0],
                                  a, "p_full", "free")
                 ELSE IF LeavesFull(n) THEN MoveFree(M, a, "full", "p_full")
                 ELSE M]
           /\ allocator' = IF AllFree(n) THEN [allocator EXCEPT ![x[1]] = NULL] ELSE allocator
    /\ live' = live \ {x}
    /\ UNCHANGED header

Next ==
    \/ KmallocPartial \/ KmallocFresh \/ KmallocManager
    \/ \E x \in live : Kfree(x)

Spec == Init /\ [][Next]_vars

----------------------------------------------------------------------------
(* Properties                                                              *)

\* The allocators on the list of manager m with the given name
Members(m, name) ==
    LET M == managers[m]
        walk[k \in 0 .. NumOfAlloc] ==
          IF k = 0 THEN M[name]
          ELSE IF walk[k - 1] \in Allocators THEN M.allocs[walk[k - 1]].next ELSE END_FLAG
    IN  {walk[k] : k \in 0 .. NumOfAlloc} \ {END_FLAG}

LiveOn(p) == {x \in live : x[1] = p}

\* Every index and counter keeps to its range.
TypeOK ==
    \A m \in DOMAIN managers : \A a \in Allocators :
        /\ managers[m].allocs[a].prev \in 0 .. END_FLAG
        /\ managers[m].allocs[a].next \in 0 .. END_FLAG
        /\ managers[m].allocs[a].avai_num \in 0 .. SliceCount

\* kmalloc returns a slice of one of its pages, memory that kmm.c really has,
\* or one of the page it takes for granted when there is no more memory.
InsidePages == live \subseteq (Pages \union {NoPage}) \X Slices

\* A page goes back to the frame allocator only when no slice of it is in use,
\* also after a frame_alloc has failed.
NoUseAfterFree == \A x \in live : x[1] \in Pages => allocator[x[1]] # NULL

\* The bitmap of an allocator has exactly the slices clients hold: no slice is
\* handed out while somebody holds it, and none is lost. A frame_alloc that
\* fails does no harm to the pages there are.
BitmapExact ==
    ~LinkedMode => \A m \in DOMAIN managers : \A a \in Allocators :
        LET A == managers[m].allocs[a]
        IN  A.page \in Pages => A.first_avai = {s \in Slices : <<A.page, s>> \in live}

\* avai_num is the number of slices nobody holds, and an allocator is on the
\* free list, the p_full list or the full list according to it, on one only;
\* all indexes and counters keep to their ranges.
ListsMatchUse ==
    TypeOK /\ \A m \in DOMAIN managers : \A a \in Allocators :
        LET A == managers[m].allocs[a]
        IN  /\ A.page \in Pages => /\ allocator[A.page] = <<m, a>>
                                   /\ A.avai_num = SliceCount - Cardinality(LiveOn(A.page))
            /\ (a \in Members(m, "free"))   <=> A.page = NULL
            /\ (a \in Members(m, "p_full")) <=> A.page # NULL /\ A.avai_num > 0
            /\ (a \in Members(m, "full"))   <=> A.page # NULL /\ A.avai_num = 0

\* A manager takes a new page only when every slice of its pages is in use,
\* and a new manager is made only when that is so of all managers.
NoWaste ==
    [][\A p \in FreePages : allocator'[p] # NULL =>
          \A q \in Pages \ FreePages :
              (allocator[q][1] = allocator'[p][1] \/ allocator'[p][1] \notin DOMAIN managers)
                => Cardinality(LiveOn(q)) = SliceCount]_vars
=============================================================================
