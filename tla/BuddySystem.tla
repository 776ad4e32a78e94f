---------------------------- MODULE BuddySystem ----------------------------
(***************************************************************************)
(* The physical frame allocator of kernel/kernel/pmm.c: a buddy system     *)
(* whose free blocks of 2^l frames are chained, per level l, through the   *)
(* next_frame/prev_frame fields of the page_frame_t table.                 *)
(*                                                                         *)
(* One action is one iteration of a loop of the C code, or the straight    *)
(* code before or after it; `pc' says which loop a call is in.             *)
(***************************************************************************)
EXTENDS Integers

CONSTANTS
    FramesNumber,    \* normal_mem.frames_number
    BUDDY_MAXLEVEL,  \* number of levels, 11 in pmm.h
    BlockSize,       \* BlockSize[l] is 1 << l, the frames of a block of level l
    MaxRequest       \* bound: clients ask for 0..MaxRequest frames

Frames == 0 .. FramesNumber - 1
Levels == 0 .. BUDDY_MAXLEVEL - 1
None   == FramesNumber          \* the end mark of every list

ASSUME ConstantsAssumption ==
    /\ BUDDY_MAXLEVEL \in Nat \ {0}
    /\ FramesNumber \in Nat
    /\ MaxRequest \in Nat

ASSUME BlockSizeAssumption ==
    /\ BlockSize \in [0 .. BUDDY_MAXLEVEL -> Nat \ {0}]
    /\ BlockSize[0] = 1
    /\ \A l \in Levels : BlockSize[l + 1] = 2 * BlockSize[l]

\* The machine has room for one block of the top level (4 MiB): with less,
\* frames_number - block_page_size wraps below zero in init_normal_mem_zone.
ASSUME ZoneAssumption == BlockSize[BUDDY_MAXLEVEL - 1] <= FramesNumber

PAGE_FRAME_ALLOCATED  == 1
PAGE_FRAME_BLOCK_HEAD == 2
AllocatedHead         == PAGE_FRAME_ALLOCATED + PAGE_FRAME_BLOCK_HEAD

VARIABLES
    free_lists,  \* first free block of each level, or None
    flags,       \* the page_frame_t table, a function per field ...
    level,
    next_frame,
    prev_frame,  \* ... prev_frame also has the record one past the table
    pc,          \* "init", "idle", "split" or "merge"
    page_index,  \* the block the call in progress works on
    cur,         \* block_level, current_level or level of that call
    want,        \* the level an allocation needs
    asked,       \* the frames its caller asked for
    ret,         \* what the last call returned
    owned,       \* history: the blocks <<first frame, level>> clients hold
    corrupted    \* history: a free unlinked a block through a wild pointer

table == <<flags, level, next_frame, prev_frame>>
vars  == <<free_lists, flags, level, next_frame, prev_frame, pc, page_index,
           cur, want, asked, ret, owned, corrupted>>

\* index ^ (1 << l), for every index
Buddy(i, l) == IF (i \div BlockSize[l]) % 2 = 0 THEN i + BlockSize[l]
                                                ELSE i - BlockSize[l]

IsBlockHead(i) == flags[i] \in {PAGE_FRAME_BLOCK_HEAD, AllocatedHead}

\* The call is over and its local variables are gone.
Return == pc' = "idle" /\ page_index' = 0 /\ cur' = 0 /\ want' = 0 /\ asked' = 0

----------------------------------------------------------------------------
(* init_normal_mem_zone: the table is cleared, then carved into blocks of  *)
(* the largest level that still fits.                                      *)

Init ==
    /\ free_lists = [l \in Levels |-> None]
    /\ flags      = [i \in Frames |-> PAGE_FRAME_ALLOCATED]
    /\ level      = [i \in Frames |-> 0]
    /\ next_frame = [i \in Frames |-> None]
    /\ prev_frame = [i \in 0 .. FramesNumber |-> None]
    /\ pc = "init" /\ page_index = 0 /\ cur = BUDDY_MAXLEVEL - 1
    /\ want = 0 /\ asked = 0 /\ ret = "none" /\ owned = {} /\ corrupted = FALSE

\* A bug to be caught: the last block may stick out of the zone.
FitsAlways == page_index < FramesNumber

\* A block of the current level fits in what is left of the zone.
Fits == page_index <= FramesNumber - BlockSize[cur]

InitShrink ==
    /\ pc = "init" /\ page_index < FramesNumber /\ ~Fits
    /\ cur' = cur - 1
    /\ UNCHANGED <<free_lists, table, pc, page_index, want, asked, ret, owned, corrupted>>

\* The old head's prev_frame is set even when there is none: the write then
\* goes to the record at index FramesNumber, past the table.
InitBlock ==
    /\ pc = "init" /\ page_index < FramesNumber /\ Fits
    /\ flags'      = [flags EXCEPT ![page_index] = PAGE_FRAME_BLOCK_HEAD]
    /\ level'      = [level EXCEPT ![page_index] = cur]
    /\ next_frame' = [next_frame EXCEPT ![page_index] = free_lists[cur]]
    /\ prev_frame' = [prev_frame EXCEPT ![free_lists[cur]] = page_index]
    /\ free_lists' = [free_lists EXCEPT ![cur] = page_index]
    /\ page_index' = page_index + BlockSize[cur]
    /\ UNCHANGED <<pc, cur, want, asked, ret, owned, corrupted>>

InitDone ==
    /\ pc = "init" /\ page_index >= FramesNumber
    /\ Return
    /\ UNCHANGED <<free_lists, table, ret, owned, corrupted>>

----------------------------------------------------------------------------
(* frame_alloc, physic_alloc, buddy_system_get_frame_page_block            *)

\* A bug to be caught: the size is rounded down.
IsLevelForLess(n, l) ==
    /\ l \in 0 .. BUDDY_MAXLEVEL /\ (l = 0 \/ BlockSize[l] <= n)
    /\ \A k \in l + 1 .. BUDDY_MAXLEVEL : n < BlockSize[k]

\* power_of_2(next_power_of_2(n)): the least level whose blocks hold n frames
IsLevelFor(n, l) ==
    /\ l \in 0 .. BUDDY_MAXLEVEL /\ n <= BlockSize[l]
    /\ \A k \in 0 .. l - 1 : BlockSize[k] < n

\* the level at which the search for a non-empty list stops
IsFirstAvailable(l, m) ==
    /\ m \in Levels /\ l <= m /\ free_lists[m] # None
    /\ \A k \in l .. m - 1 : free_lists[k] = None

\* A bug to be caught: the block stays on its list.
PopBlockKept(l, m) ==
    /\ IsFirstAvailable(l, m) /\ page_index' = free_lists[m] /\ UNCHANGED free_lists
    /\ pc' = "split" /\ cur' = m /\ want' = l

\* The new head of the list keeps the prev_frame it had behind the old head.
PopBlock(l, m) ==
    /\ IsFirstAvailable(l, m)
    /\ page_index' = free_lists[m]
    /\ free_lists' = [free_lists EXCEPT ![m] = next_frame[free_lists[m]]]
    /\ pc' = "split" /\ cur' = m /\ want' = l

AllocBegin(n) ==
    /\ pc = "idle"
    /\ \E l \in Levels : IsLevelFor(n, l) /\ \E m \in Levels : PopBlock(l, m)
    /\ asked' = n
    /\ UNCHANGED <<table, ret, owned, corrupted>>

AllocFail(n) ==
    /\ pc = "idle"
    /\ \E l \in 0 .. BUDDY_MAXLEVEL :
          IsLevelFor(n, l) /\ \A m \in l .. BUDDY_MAXLEVEL - 1 : free_lists[m] = None
    /\ ret' = "null"
    /\ UNCHANGED <<free_lists, table, pc, page_index, cur, want, asked, owned, corrupted>>

\* The upper half goes back to the list one level down. Its own prev_frame
\* is left as it was, and as in InitBlock the old head may be None.
Split ==
    /\ pc = "split" /\ cur > want
    /\ LET l == cur - 1
           right == Buddy(page_index, l)
       IN  /\ level'      = [level EXCEPT ![right] = l]
           /\ prev_frame' = [prev_frame EXCEPT ![free_lists[l]] = right]
           /\ next_frame' = [next_frame EXCEPT ![right] = free_lists[l]]
           /\ flags'      = [flags EXCEPT ![right] = PAGE_FRAME_BLOCK_HEAD]
           /\ free_lists' = [free_lists EXCEPT ![l] = right]
           /\ cur' = l
    /\ UNCHANGED <<pc, page_index, want, asked, ret, owned, corrupted>>

AllocEnd ==
    /\ pc = "split" /\ cur = want
    /\ flags'      = [flags EXCEPT ![page_index] = AllocatedHead]
    /\ level'      = [level EXCEPT ![page_index] = want]
    /\ prev_frame' = [prev_frame EXCEPT ![page_index] = None]
    /\ next_frame' = [next_frame EXCEPT ![page_index] = None]
    /\ owned' = owned \union {<<page_index, want>>}
    /\ Return /\ ret' = "page"
    /\ UNCHANGED <<free_lists, corrupted>>

----------------------------------------------------------------------------
(* frame_free, physic_free, buddy_system_free_frame_page_block             *)

\* Clients free the blocks they hold ...
FreeBegin(b) ==
    /\ pc = "idle" /\ b \in owned /\ IsBlockHead(b[1])
    /\ page_index' = b[1] /\ cur' = level[b[1]]
    /\ owned' = owned \ {b}
    /\ pc' = "merge"
    /\ UNCHANGED <<free_lists, table, want, asked, ret, corrupted>>

\* ... and an index outside the table or inside a block is refused.
FreeReject(i) ==
    /\ pc = "idle" /\ (i \in Frames => ~IsBlockHead(i))
    /\ ret' = "rejected"
    /\ UNCHANGED <<free_lists, table, pc, page_index, cur, want, asked, owned, corrupted>>

\* A bug to be caught: only the upper buddy is merged.
UpperBuddyIsFree ==
    LET buddy == Buddy(page_index, cur)
    IN  buddy \in page_index .. FramesNumber - 1 /\ level[buddy] = cur
          /\ flags[buddy] = PAGE_FRAME_BLOCK_HEAD

\* The buddy is in the table, free and of the same size.
BuddyIsFree ==
    LET buddy == Buddy(page_index, cur)
    IN  buddy \in Frames /\ level[buddy] = cur /\ flags[buddy] = PAGE_FRAME_BLOCK_HEAD

\* The first of its list, with a prev_frame left over from an earlier list.
StaleHead(i) == free_lists[level[i]] = i /\ prev_frame[i] # None

Merge ==
    /\ pc = "merge" /\ cur < BUDDY_MAXLEVEL - 1 /\ BuddyIsFree
    /\ LET buddy == Buddy(page_index, cur)
           prev  == prev_frame[buddy]
           next  == next_frame[buddy]
           low   == IF page_index > buddy THEN buddy ELSE page_index
           high  == IF page_index > buddy THEN page_index ELSE buddy
       IN  /\ IF prev = None
                 THEN free_lists' = [free_lists EXCEPT ![cur] = next] /\ UNCHANGED next_frame
                 ELSE next_frame' = [next_frame EXCEPT ![prev] = next] /\ UNCHANGED free_lists
           /\ prev_frame' = IF next < FramesNumber
                               THEN [prev_frame EXCEPT ![next] = prev] ELSE prev_frame
           /\ flags' = [flags EXCEPT ![high] = PAGE_FRAME_ALLOCATED]
           /\ level' = [level EXCEPT ![high] = 0, ![low] = cur + 1]
           /\ page_index' = low /\ cur' = cur + 1
           /\ corrupted' = (corrupted \/ StaleHead(buddy))
    /\ UNCHANGED <<pc, want, asked, ret, owned>>

\* The buddy of the last block of the zone may lie past the table. The code
\* reads that memory all the same; what it holds is anybody's guess, and when
\* it looks like a free block of this level its links are followed.
MergePastEnd ==
    /\ pc = "merge" /\ cur < BUDDY_MAXLEVEL - 1
    /\ Buddy(page_index, cur) >= FramesNumber
    /\ \E prev, next \in 0 .. FramesNumber :
          /\ IF prev = None
                THEN free_lists' = [free_lists EXCEPT ![cur] = next] /\ UNCHANGED next_frame
                ELSE next_frame' = [next_frame EXCEPT ![prev] = next] /\ UNCHANGED free_lists
          /\ prev_frame' = IF next < FramesNumber
                              THEN [prev_frame EXCEPT ![next] = prev] ELSE prev_frame
    /\ level' = [level EXCEPT ![page_index] = cur + 1]
    /\ cur' = cur + 1
    /\ corrupted' = TRUE
    /\ UNCHANGED <<flags, pc, page_index, want, asked, ret, owned>>

\* Bugs to be caught: the old head is not told of the new one, or the new
\* head not of the old one, whose list is then lost.
LinkBackNothing(head) == prev_frame
LinkNothing(head) == [next_frame EXCEPT ![page_index] = None]

\* The freed block and the old head of its list, if there is one, are linked.
LinkBack(head) == IF head < FramesNumber THEN [prev_frame EXCEPT ![head] = page_index]
                                         ELSE prev_frame
Link(head) == [next_frame EXCEPT ![page_index] = head]

FreeEnd ==
    /\ pc = "merge" /\ (cur < BUDDY_MAXLEVEL - 1 => ~BuddyIsFree)
    /\ flags'      = [flags EXCEPT ![page_index] = PAGE_FRAME_BLOCK_HEAD]
    /\ level'      = [level EXCEPT ![page_index] = cur]
    /\ next_frame' = Link(free_lists[cur])
    /\ prev_frame' = [LinkBack(free_lists[cur]) EXCEPT ![page_index] = None]
    /\ free_lists' = [free_lists EXCEPT ![cur] = page_index]
    /\ Return /\ ret' = "freed"
    /\ UNCHANGED <<owned, corrupted>>

----------------------------------------------------------------------------
Next ==
    \/ InitShrink \/ InitBlock \/ InitDone
    \/ \E n \in 0 .. MaxRequest : AllocBegin(n) \/ AllocFail(n)
    \/ Split \/ AllocEnd
    \/ \E b \in owned : FreeBegin(b)
    \/ \E i \in 0 .. FramesNumber : FreeReject(i)
    \/ Merge \/ MergePastEnd \/ FreeEnd

Spec == Init /\ [][Next]_vars

----------------------------------------------------------------------------
(* Properties                                                              *)

\* The frames of the block of level l that starts at i
Block(i, l) == i .. i + BlockSize[l] - 1

InFlight(i) == pc \in {"split", "merge"} /\ i = page_index

\* The level of the block that starts at i; a call in progress knows better
\* than the table.
BlockLevel(i) == IF InFlight(i) THEN cur ELSE level[i]

\* The blocks on the free lists, found by following next_frame
Listed(l) ==
    LET reach[k \in 0 .. FramesNumber] ==
          IF k = 0 THEN {free_lists[l]} \ {None}
          ELSE reach[k - 1] \union ({next_frame[i] : i \in reach[k - 1]} \ {None})
    IN  reach[FramesNumber]

\* Every field keeps to its range (until a wild pointer has been followed).
TypeOK ==
    ~corrupted =>
    /\ free_lists \in [Levels -> 0 .. FramesNumber]
    /\ flags \in [Frames -> {PAGE_FRAME_ALLOCATED, PAGE_FRAME_BLOCK_HEAD, AllocatedHead}]
    /\ level \in [Frames -> Levels]
    /\ next_frame \in [Frames -> 0 .. FramesNumber]
    /\ prev_frame \in [0 .. FramesNumber -> 0 .. FramesNumber]
    /\ pc \in {"init", "idle", "split", "merge"}
    /\ page_index \in 0 .. FramesNumber
    /\ (pc # "init" => page_index \in Frames)
    /\ cur \in Levels /\ want \in Levels
    /\ ret \in {"none", "null", "page", "freed", "rejected"}
    /\ owned \subseteq Frames \X Levels

\* The block a call of frame_alloc is about to return shares no frame with a
\* block some client still holds: buddy_system_get_frame_page_block never
\* hands out the same memory twice.
HandedOutIsFresh ==
    pc = "split" =>
        \A b \in owned : Block(page_index, cur) \intersect Block(b[1], b[2]) = {}

\* The same, until a free has gone through a wild pointer: nothing but the
\* unlinking in buddy_system_free_frame_page_block can lead to a double
\* allocation.
FreshUntilCorrupted == ~corrupted => HandedOutIsFresh

Promise == INSTANCE FrameAllocator WITH held <- {Block(b[1], b[2]) : b \in owned}

\* frame_alloc and frame_free keep the promise that the slice allocator and
\* paging rely on: each call, however many blocks it splits or merges, takes
\* effect in one step that FrameAllocator has, until a free has gone through a
\* wild pointer.
ImplementsFrameAllocator ==
    /\ Promise!Init
    /\ [][(~corrupted' /\ owned' # owned) => Promise!Next]_vars

\* No frame is lost and none is kept twice: between two calls every frame of
\* the zone is in exactly one block that is on the list of its level or held
\* by a client. (The lists are the ones a walk along next_frame finds.)
FramesConserved ==
    (pc = "idle" /\ ~corrupted) =>
        LET blocks == owned \union UNION {{<<i, l>> : i \in Listed(l)} : l \in Levels}
        IN  \A f \in Frames : \E b \in blocks :
                /\ f \in Block(b[1], b[2])
                /\ \A c \in blocks \ {b} : f \notin Block(c[1], c[2])

\* frame_alloc returns 0 only when memory is really short: if no client holds
\* a frame of some aligned block of level l, a list of level l or above is
\* not empty. This is what merging the buddies back is for.
NoSpuriousFailure ==
    (pc = "idle" /\ ~corrupted) =>
        \A l \in Levels :
            (\E i \in Frames : /\ i % BlockSize[l] = 0 /\ i + BlockSize[l] <= FramesNumber
                               /\ \A b \in owned : Block(i, l) \intersect Block(b[1], b[2]) = {})
              => \E m \in l .. BUDDY_MAXLEVEL - 1 : free_lists[m] # None

----------------------------------------------------------------------------
(* The inductive invariant, in parts. Each part speaks of the states before *)
(* the first wild pointer, and of the middle of a call too.                 *)

\* The blocks the table has as free and that no call has taken off its list
FreeHeads == {i \in Frames : flags[i] = PAGE_FRAME_BLOCK_HEAD /\ ~InFlight(i)}

\* Heads are aligned to the size of their block, which lies in the zone; a
\* call in progress works on such a block.
BlocksAligned ==
    /\ \A i \in Frames : IsBlockHead(i) =>
          /\ i % BlockSize[BlockLevel(i)] = 0
          /\ i + BlockSize[BlockLevel(i)] <= FramesNumber
    /\ pc \in {"split", "merge"} => IsBlockHead(page_index)
    /\ pc = "split" => want <= cur

BlocksDisjoint ==
    \A i, j \in Frames : (IsBlockHead(i) /\ IsBlockHead(j) /\ i < j)
                              => i + BlockSize[BlockLevel(i)] <= j

\* init_normal_mem_zone fills the zone from below.
ZoneCarved ==
    pc = "init" => /\ page_index % BlockSize[cur] = 0
                   /\ owned = {}
                   /\ \A i \in Frames : IsBlockHead(i) => i + BlockSize[level[i]] <= page_index

\* The lists are doubly linked lists of free blocks of their level, except
\* that the prev_frame of the first block is arbitrary.
ListsLinked ==
    /\ \A l \in Levels : free_lists[l] # None =>
          free_lists[l] \in FreeHeads /\ level[free_lists[l]] = l
    /\ \A i \in FreeHeads : next_frame[i] # None =>
          /\ next_frame[i] \in FreeHeads /\ level[next_frame[i]] = level[i]
          /\ prev_frame[next_frame[i]] = i
          /\ next_frame[i] # free_lists[level[i]]
    /\ \A i \in FreeHeads : free_lists[level[i]] # i =>
          /\ prev_frame[i] \in FreeHeads /\ level[prev_frame[i]] = level[i]
          /\ next_frame[prev_frame[i]] = i

OwnedAllocated ==
    \A b \in owned : /\ flags[b[1]] = AllocatedHead /\ level[b[1]] = b[2]
                      /\ ~InFlight(b[1])

\* The free lists, the block heads and the blocks clients hold agree with one
\* another at every step of a call, until a wild pointer has been followed:
\* the invariant on which the allocator's correctness rests.
TableConsistent ==
    ~corrupted => /\ BlocksAligned
                  /\ BlocksDisjoint
                  /\ ZoneCarved
                  /\ ListsLinked
                  /\ OwnedAllocated
=============================================================================
